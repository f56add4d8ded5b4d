----------------------------- MODULE Admission -----------------------------
(***************************************************************************)
(* What every /api request passes before its route's payment check, in     *)
(* the order of src/src/index.ts: the limiter of its kind, the merge of    *)
(* its body with the route's example, the replay binding it may name, the  *)
(* wallet blocklist and, on guard routes, the limiter of its wallet.  A    *)
(* body is the three fields the chain tells apart.                         *)
(***************************************************************************)
EXTENDS RateLimit

CONSTANTS Incoming,     \* the requests that may come, a set of records
          Visits,        \* identities of calls on the API
          Binders,       \* agents that bind requests
          Costs,        \* estimatedCostUsdc values bound
          BoundUrls,    \* urls requests are bound for
          Examples,     \* [urls with an example -> its body]
          GuardUrls,    \* urls behind the per-wallet limiter
          Wallets,      \* wallet addresses that can be blocked
          Absent,       \* a field, header or binding that is not there
          Ttl           \* life of a binding in ticks


VARIABLES call,         \* [call -> request and where it stands]
          blocklist,    \* table wallet_blocklist
          bindings,     \* protocol store "replay-bindings"; Absent before the first write
          binders,      \* creates that read the absent store and await the legacy file
          consumed      \* nonces in used_nonces, by binding

admissionVars == <<call, blocklist, bindings, binders, consumed>>

Idle == [at |-> "idle"]
BindingIds == Ticks \X Binders
CostOnly(c) == [wallet |-> Absent, target |-> Absent, cost |-> c]

AdmissionInit == /\ RateInit
                 /\ call = [c \in Visits |-> Idle]
                 /\ blocklist = {}
                 /\ bindings = Absent
                 /\ binders = {}
                 /\ consumed = {}

-----------------------------------------------------------------------------
(* The body the route sees.  The example's wallet and target always win    *)
(* (they are never overridden), its other fields only stand in for what    *)
(* the caller left out, and fields it does not have are dropped.           *)
MergedBody(r) ==
    IF r.url \notin DOMAIN Examples THEN r.body
    ELSE LET ex == Examples[r.url]
         IN  [ex EXCEPT !.cost = IF Absent \in {ex.cost, r.body.cost} THEN @ ELSE r.body.cost]

(* Header, then body; the query string is left out. *)
Named(r, body) == IF r.header # Absent THEN r.header ELSE body.wallet

(* The wallets a call may be judged by. *)
Carried(r) == {r.header, r.body.wallet, MergedBody(r).wallet}

Stored == IF bindings = Absent THEN <<>> ELSE bindings

(* verifyReplayBinding up to the claim: the nonce is made from the time    *)
(* and the agent, so it is the binding's id.                               *)
Matches(r) ==
    /\ r.binding \in DOMAIN Stored
    /\ LET b == Stored[r.binding]
       IN  /\ clock <= b.expiresAt
           /\ b.url = r.url
           /\ b.body = MergedBody(r)
    /\ r.binding \notin consumed

Kind(r) == IF r.paid THEN "paid" ELSE "unpaid"

CheckedRaw(r) == r.body                                            \* mutant
CheckedBody(r) == MergedBody(r)

ASSUME AbsentAssumption == Absent \notin Wallets
ASSUME IncomingAssumption ==
    /\ {"paid", "unpaid", "wallet"} \subseteq Limiters
    /\ \A r \in Incoming : /\ r.ip \in LimitKeys
                           /\ MergedBody(r).wallet \in LimitKeys \cup {Absent}

Blocked(r) == Named(r, CheckedBody(r)) \in blocklist

(* From the blocklist to the payment check, with the meters m: where the   *)
(* call ends up, which of its wallets were blocked then, and the claims.   *)
Onward(c, r, m, claims) ==
    LET payer == MergedBody(r).wallet
        limited == r.url \in GuardUrls /\ payer # Absent
        mm == IF limited /\ ~Blocked(r) THEN Counted(m, "wallet", payer) ELSE m
        end == CASE Blocked(r) -> "blocked"
                 [] ~Blocked(r) /\ limited /\ Refuses(mm, "wallet", payer) -> "limited"
                 [] OTHER -> IF r.paid THEN "handled" ELSE "unpaid"
    IN  /\ SetMeters(mm)
        /\ call' = [call EXCEPT ![c] = [at |-> end, req |-> r, saw |-> blocklist \cap Carried(r)]]
        /\ consumed' = claims

(* A call stops here with status at. *)
Stops(c, r, at) == call' = [call EXCEPT ![c] = [at |-> at, req |-> r, saw |-> blocklist \cap Carried(r)]]

Arrive(c, r) ==
    LET m == Counted(Meters, Kind(r), r.ip)
    IN  /\ call[c] = Idle
        /\ \/ /\ Refuses(m, Kind(r), r.ip)
              /\ Stops(c, r, "limited")
              /\ SetMeters(m)
              /\ UNCHANGED consumed
           \/ /\ ~Refuses(m, Kind(r), r.ip)
              /\ r.binding = Absent
              /\ Onward(c, r, m, consumed)
           \/ /\ ~Refuses(m, Kind(r), r.ip)
              /\ r.binding # Absent
              /\ Stops(c, r, IF Matches(r) THEN "claiming" ELSE "mismatch")
              /\ SetMeters(m)
              /\ UNCHANGED consumed
        /\ UNCHANGED <<clock, blocklist, bindings, binders>>

AnyClaim(b) == TRUE                                                \* mutant
Claimable(b) == b \notin consumed

(* The claim is one atomic set-if-absent, in Redis or in used_nonces. *)
ClaimNonce(c) ==
    LET r == call[c].req
    IN  /\ call[c].at = "claiming"
        /\ \/ /\ Claimable(r.binding)
              /\ Onward(c, r, Meters, consumed \cup {r.binding})
           \/ /\ ~Claimable(r.binding)
              /\ Stops(c, r, "mismatch")
              /\ UNCHANGED <<rateVars, consumed>>
        /\ UNCHANGED <<clock, blocklist, bindings, binders>>

-----------------------------------------------------------------------------
Binding(u, x) == [url |-> u, body |-> CostOnly(x), expiresAt |-> clock + Ttl]

With(store, id, b) == [i \in DOMAIN store \cup {id} |-> IF i = id THEN b ELSE store[i]]

(* createReplayBinding.  Once the store exists it is read and written in   *)
(* one go; before, the read awaits a legacy file that is not there.        *)
Bind(a, u, x) ==
    /\ bindings # Absent
    /\ bindings' = With(bindings, <<clock, a>>, Binding(u, x))
    /\ UNCHANGED <<clock, rateVars, call, blocklist, binders, consumed>>

BindReads(a, u, x) ==
    /\ bindings = Absent
    /\ Cardinality(binders) < 2
    /\ binders' = binders \cup {[id |-> <<clock, a>>, binding |-> Binding(u, x)]}
    /\ UNCHANGED <<clock, rateVars, call, blocklist, bindings, consumed>>

(* It writes the empty fallback and its own row over whatever was written  *)
(* while it waited.                                                        *)
BindWrites(b) ==
    /\ bindings' = With(<<>>, b.id, b.binding)
    /\ binders' = binders \ {b}
    /\ UNCHANGED <<clock, rateVars, call, blocklist, consumed>>

(* POST and DELETE /api/admin/blocklist *)
Block(w) == /\ blocklist' = blocklist \cup {w}
            /\ UNCHANGED <<clock, rateVars, call, bindings, binders, consumed>>

Unblock(w) == /\ w \in blocklist
              /\ blocklist' = blocklist \ {w}
              /\ UNCHANGED <<clock, rateVars, call, bindings, binders, consumed>>

(* The process restarts: buckets, waiting calls and creates are gone, the  *)
(* tables stay.                                                            *)
AdmissionRestart ==
    /\ Restart
    /\ call' = [c \in Visits |-> IF call[c].at = "claiming" THEN [call[c] EXCEPT !.at = "died"]
                                                           ELSE call[c]]
    /\ binders' = {}
    /\ UNCHANGED <<blocklist, bindings, consumed>>

AdmissionTick == Tick /\ UNCHANGED admissionVars
AdmissionSweep == Sweep /\ UNCHANGED admissionVars

AdmissionNext ==
    \/ \E c \in Visits, r \in Incoming : Arrive(c, r)
    \/ \E c \in Visits : ClaimNonce(c)
    \/ \E n \in Binders, u \in BoundUrls, x \in Costs : Bind(n, u, x) \/ BindReads(n, u, x)
    \/ \E b \in binders : BindWrites(b)
    \/ \E w \in Wallets : Block(w) \/ Unblock(w)
    \/ AdmissionTick
    \/ AdmissionSweep
    \/ AdmissionRestart

AdmissionSpec == AdmissionInit /\ [][AdmissionNext]_<<clock, rateVars, admissionVars>>

-----------------------------------------------------------------------------
Served(c) == call[c].at \in {"blocked", "unpaid", "handled"}

(* A binding lets one call through to its route at most, whatever          *)
(* interleaves between check and claim, whoever rebinds its id and however *)
(* often the process restarts; and its nonce then stays spent.             *)
BindingServesOnce ==
    \A c \in Visits : Served(c) /\ call[c].req.binding # Absent =>
        /\ call[c].req.binding \in consumed
        /\ \A d \in Visits : Served(d) /\ call[d].req.binding = call[c].req.binding => d = c

(* The wallet the blocklist checks is the one the route will act on: no    *)
(* call reaches a route with the body of a wallet that was blocked, unless *)
(* its header named another.                                               *)
BlockedStaysOut ==
    \A c \in Visits : call[c].at \in {"unpaid", "handled"} =>
        /\ MergedBody(call[c].req).wallet \in call[c].saw => call[c].req.header # Absent
        /\ call[c].req.header \notin call[c].saw

(* apply-verifier-body.ts:34: the example fills a body "when required keys *)
(* are missing", so a complete body reaches its route as it came.          *)
CompleteBodyKept ==
    \A c \in Visits : call[c].at = "handled" /\ Absent \notin {call[c].req.body.wallet, call[c].req.body.target}
        => /\ MergedBody(call[c].req).wallet = call[c].req.body.wallet
           /\ MergedBody(call[c].req).target = call[c].req.body.target
=============================================================================
