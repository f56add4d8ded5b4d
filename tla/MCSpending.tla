----------------------------- MODULE MCSpending -----------------------------
(***************************************************************************)
(* Instances for TLC of what is decided and booked before money moves:     *)
(* metered escrows, spending checks, mandates, Alchemy policies,           *)
(* facilitators and planners.  They share no state here, so a behaviour    *)
(* runs one of them (its focus) and leaves the others where they start.    *)
(***************************************************************************)
EXTENDS MeteredEscrow, SpendGuard, AlchemyPolicy, Mandates, Facilitators, Planning, TLC

VARIABLE focus

MCSymmetry == Permutations(Calls) \cup Permutations(Checks) \cup Permutations(Refreshes)

CONSTANTS b, m1, old, e1, e2

-----------------------------------------------------------------------------
(* Each request differs from a clean one in one or two ways.               *)
CleanUrl == [outbound |-> TRUE, https |-> TRUE, patterns |-> 0, tlds |-> 0, long |-> FALSE]
CleanWallet == [form |-> "evm", sentinel |-> FALSE, patterns |-> 0]
CleanAsk == [kind |-> "guard", agent |-> b, cost |-> 3, perCall |-> 4, daily |-> 5, url |-> CleanUrl,
             wallet |-> CleanWallet, listed |-> "no", hostAllowed |-> TRUE, networkAllowed |-> TRUE,
             verifier |-> FALSE, minRank |-> 0, minScore |-> 0, pre |-> TRUE, gate |-> TRUE,
             attestation |-> "none"]
GuardAsks ==
    {[CleanAsk EXCEPT !.kind = k] : k \in Wrappers}
    \cup {[CleanAsk EXCEPT !.kind = k, !.verifier = TRUE, !.cost = 2] : k \in {"guard", "proxy"}}
    \cup {[CleanAsk EXCEPT !.listed = l] : l \in {"part", "host"}}
    \cup {[CleanAsk EXCEPT !.url = u] : u \in {[CleanUrl EXCEPT !.outbound = FALSE], [CleanUrl EXCEPT !.https = FALSE],
                                               [CleanUrl EXCEPT !.long = TRUE], [CleanUrl EXCEPT !.tlds = 1]}}
    \cup {[CleanAsk EXCEPT !.wallet.patterns = 1], [CleanAsk EXCEPT !.wallet.form = "solana", !.minRank = 2],
          [CleanAsk EXCEPT !.minRank = 2], [CleanAsk EXCEPT !.kind = "trust2proxy", !.pre = FALSE],
          [CleanAsk EXCEPT !.kind = "auth", !.attestation = "missing"]}
ProbeAnswers == {[status |-> 402, price |-> 4], [status |-> 402, price |-> 7], [status |-> 200, price |-> NoPrice],
                 [status |-> 0, price |-> NoPrice], [status |-> 500, price |-> NoPrice]}
TrustAnswers == {[registered |-> FALSE, rank |-> 0, score |-> 30], [registered |-> TRUE, rank |-> 3, score |-> 80]}

-----------------------------------------------------------------------------
(* Mandates: one scope with lists, one without.                            *)
Narrow == [perTx |-> 2, merchants |-> {"m"}, categories |-> {"c"}, rails |-> {"r"}]
Wide == [perTx |-> 3, merchants |-> {}, categories |-> {}, rails |-> {}]
Payment(n, shop) == [amount |-> n, merchant |-> shop, category |-> Unset, rail |-> "r"]
ToolCall(n, shop) == [amount |-> n, merchant |-> shop, category |-> "c", rail |-> Unset,
                      suspicious |-> FALSE, tampered |-> FALSE, affiliate |-> FALSE]
GivenScopes == {Narrow, Wide}
GivenProposals == {Unset, Payment(2, "m"), Payment(3, "m"), Payment(2, "x")}
GivenTraces == {<<>>, <<ToolCall(2, "m")>>, <<ToolCall(2, "x"), ToolCall(2, "m")>>, <<ToolCall(3, "m")>>,
                <<[ToolCall(1, "m") EXCEPT !.affiliate = TRUE]>>, <<[ToolCall(1, "m") EXCEPT !.tampered = TRUE]>>}
OldRows == old :> [scope |-> Narrow, until |-> 3, genuine |-> FALSE]

-----------------------------------------------------------------------------
Tx(traced, reverts, outflow, vectors) ==
    [traced |-> traced, reverts |-> reverts, outflow |-> outflow, vectors |-> vectors]
GivenTransactions == {Tx(t, r, o, v) : t, r \in BOOLEAN, o \in {5, 101}, v \in {{}, {"xss", "ssrf"}}}
UserOp(decoded, calls, raw) == [decoded |-> decoded, calls |-> calls, raw |-> raw]
GivenOperations == {UserOp(TRUE, <<{"xss"}, {"ssrf"}>>, {}), UserOp(TRUE, <<{}, {"xss", "ssrf"}>>, {}),
                    UserOp(FALSE, <<>>, {"xss", "ssrf"})}
Activity(n, net, receipt) == [usdc |-> TRUE, amount |-> n, net |-> net, receipt |-> receipt, toMatches |-> TRUE]
GivenNotices == e1 :> <<Activity(1, "base", "success"), Activity(2, "base", "failed"), Activity(4, "solana", "none")>>
             @@ e2 :> <<[Activity(1, "base", "success") EXCEPT !.usdc = FALSE], Activity(8, "base", "success")>>

-----------------------------------------------------------------------------
GivenRailAsks == [amount : {0, 1, 90, 100, 990, 1000, 9900, 10000, 490000, 500000, 1500000}, calls : {1, 20},
                  supported : {{}, {"visa-cli", "base-x402"}, {"stripe-mpp", "visa-cli"}},
                  disputable : BOOLEAN, fast : BOOLEAN, protect : BOOLEAN]
GivenFleetAsks == [pool : 0 .. 4, agents : {<<[priority |-> 1, asked |-> x, left |-> 3], [priority |-> p, asked |-> 3, left |-> y],
                                              [priority |-> 2, asked |-> 1, left |-> 1]>> : x, y \in 0 .. 3, p \in 1 .. 3}]
GivenPlanAsks == [budget : {0, 5, 9, 12, 30, 50}, research : BOOLEAN, router : BOOLEAN, external : {0, 5, 40}]
Found == {[quality |-> 50, price |-> 9, near |-> FALSE], [quality |-> 48, price |-> 1, near |-> TRUE]}
GivenRouteAsks == [kind : {"capability", "curated", "suite", "market"}, most : {Nothing, 4, 5, 8}, probed : {Nothing, 9},
                   primary : {Nothing, {}, Found}, lab : {Nothing, Found}]
GivenBuyAsks == [best : {Nothing} \cup [external : BOOLEAN, bundle : BOOLEAN, cost : {5, 9}], guarded : BOOLEAN,
                 guard : BOOLEAN, calls : {1, 8, 40}]

-----------------------------------------------------------------------------
MCInit == /\ Init /\ GuardInit /\ AlchemyInit /\ MandateInit /\ FacilitatorInit /\ PlanningInit
          /\ focus \in {"metered", "guard", "shield", "notify", "mandates", "facilitators", "planning"}
          /\ focus # "metered" => lanes = 1
          /\ focus # "guard" => apart
          /\ focus # "facilitators" => oneRefresh

MCNext ==
    /\ \/ focus = "metered" /\ Next
          /\ UNCHANGED <<guardVars, alchemyVars, mandateVars, facilitatorVars, advice>>
       \/ focus = "guard" /\ GuardNext
          /\ UNCHANGED <<vars, alchemyVars, mandateVars, facilitatorVars, advice>>
       \/ focus = "shield" /\ ShieldNext
          /\ UNCHANGED <<vars, guardVars, mandateVars, facilitatorVars, advice>>
       \/ focus = "notify" /\ NotifyNext
          /\ UNCHANGED <<vars, guardVars, mandateVars, facilitatorVars, advice>>
       \/ focus = "mandates" /\ (ruling = Unset \/ ruling' = Unset) /\ MandateNext
          /\ UNCHANGED <<vars, guardVars, alchemyVars, facilitatorVars, advice>>
       \/ focus = "facilitators" /\ FacilitatorNext
          /\ UNCHANGED <<vars, guardVars, alchemyVars, mandateVars, advice>>
       \/ focus = "planning" /\ advice = Nothing /\ PlanningNext
          /\ UNCHANGED <<vars, guardVars, alchemyVars, mandateVars, facilitatorVars>>
    /\ UNCHANGED focus

MCSpec == MCInit /\ [][MCNext]_<<vars, guardVars, alchemyVars, mandateVars, facilitatorVars, advice, focus>>
=============================================================================
