---------------------------- MODULE MCAdmission ----------------------------
(***************************************************************************)
(* Instances for TLC of what lets a call in: payment sessions, wallet      *)
(* sessions, the limiters alone and the admission chain.  They share no    *)
(* state, so a behaviour runs one of them (its focus) and leaves the       *)
(* others where they start.                                                *)
(***************************************************************************)
EXTENDS MppSession, WalletSession, Admission, TLC

VARIABLE focus

MCSymmetry == Permutations(Calls) \cup Permutations(Visits) \cup Permutations(Sessions)

CONSTANTS a, w, x, t, ip, plain, guard

RateLimits == [l \in Limiters |-> IF l = "paid" THEN 2 ELSE 1]
NoFields == [wallet |-> Absent, target |-> Absent, cost |-> Absent]
Full(v) == [wallet |-> v, target |-> t, cost |-> Absent]
GuardExample == guard :> [wallet |-> x, target |-> x, cost |-> 1]

Ask(paid, url, body, header, binding) ==
    [paid |-> paid, url |-> url, body |-> body, header |-> header, binding |-> binding, ip |-> ip]

(* Bodies a binding can be made for, on a url without an example, where an *)
(* unpaid probe and a paid call both carry it; calls with no binding on    *)
(* both kinds of url, with and without a wallet header.                    *)
VisitRequests ==
    {Ask(p, plain, CostOnly(1), Absent, <<i, a>>) : p \in BOOLEAN, i \in {0, 1}}
    \cup {Ask(TRUE, plain, Full(w), x, Absent), Ask(TRUE, guard, Full(w), Absent, Absent)}
    \cup {Ask(FALSE, guard, NoFields, Absent, Absent), Ask(TRUE, guard, Full(w), Absent, <<0, a>>)}

(* A limiter is looked at alone, under one key: its maps share nothing.    *)
MCInit == /\ Init /\ SessionInit /\ AdmissionInit
          /\ focus \in {"mpp", "session", "admission"} \cup Limiters
          /\ focus # "mpp" => lanes = 1

MCNext ==
    /\ \/ focus = "mpp" /\ Next /\ (lanes > 1 => ops' < MaxOps) /\ UNCHANGED <<sessionVars, clock, rateVars, admissionVars>>
       \/ focus = "session" /\ SessionNext /\ UNCHANGED <<vars, clock, rateVars, admissionVars>>
       \/ focus \in Limiters /\ LimiterNext(focus, {ip}) /\ UNCHANGED <<vars, sessionVars, admissionVars>>
       \/ focus = "admission" /\ AdmissionNext /\ clock' <= 2 /\ UNCHANGED <<vars, sessionVars>>
    /\ UNCHANGED focus

MCSpec == MCInit /\ [][MCNext]_<<vars, sessionVars, clock, rateVars, admissionVars, focus>>
=============================================================================
