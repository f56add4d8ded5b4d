------------------------------ MODULE Planning ------------------------------
(***************************************************************************)
(* The planners an agent consults before it spends: rail optimizer, fleet  *)
(* budget allocator, payment intent compiler, API router, buy advisor and  *)
(* MPP broker.  None keeps state; what could go wrong is in the numbers    *)
(* and in the order they are applied.  Prices are whole cents, amounts     *)
(* given to the optimizer millionths of a dollar, the least USDC moves.    *)
(***************************************************************************)
EXTENDS Integers, Sequences, FiniteSets, SequencesExt

CONSTANTS RailAsks,   \* records: amount, calls, supported, disputable, fast, protect
          FleetAsks,  \* records: pool, agents (sequence of priority, asked, left)
          PlanAsks,   \* records: budget, research, router, external
          RouteAsks,  \* records: kind, most, probed, primary, lab
          BuyAsks,    \* records: best, guarded, guard, calls
          Nothing     \* absent price, bound, quote or verdict

(* What the routes' schemas let through.                                   *)
ASSUME PlanningAssumption ==
    /\ \A q \in RailAsks : q.amount \in Nat /\ q.calls \in Nat \ {0}
    /\ \A q \in FleetAsks : q.pool \in Nat /\ q.agents \in Seq([priority : Int, asked : Nat, left : Nat])
    /\ \A q \in BuyAsks : q.guard \in BOOLEAN

VARIABLE advice

-----------------------------------------------------------------------------
(* rail-optimizer.ts.  Fees in thousandths of the amount's unit.           *)
Rails == <<"visa-cli", "stripe-mpp", "circle-nano", "base-x402", "solana-x402">>
MinViable(r) == CASE r = "visa-cli" -> 500000 [] r = "stripe-mpp" -> 1000 [] r = "circle-nano" -> 1
                  [] r \in {"base-x402", "solana-x402"} -> 100
Fee(r, q) == LET a == q.amount IN
    CASE r = "visa-cli" -> Max({50000000, 29 * a + 50000000})
      [] r = "stripe-mpp" -> Max({800000, (12 * a) \div Max({1, Min({q.calls, 50})})})
      [] r = "circle-nano" -> 2 * a
      [] r = "base-x402" -> 4 * a + 500000
      [] r = "solana-x402" -> 3 * a + 300000
Viable(r, q) == q.amount >= MinViable(r)

Protection(r) == CASE r = "visa-cli" -> 90 [] r = "stripe-mpp" -> 55
                   [] r \in {"circle-nano", "base-x402", "solana-x402"} -> 40
Points(cond, n) == IF cond THEN n ELSE 0
Bonus(r, q) == Points(q.disputable /\ q.amount >= 1000000 /\ r = "visa-cli", 25)
             + Points(q.amount < 10000 /\ r = "circle-nano", 30)
             - Points(q.amount < 10000 /\ r = "visa-cli", 40)
             + Points(q.fast /\ r = "solana-x402", 12)
             + Points(q.calls >= 20 /\ r = "stripe-mpp", 18)
             + Points(q.protect /\ r = "visa-cli", 15)
PenaltyNone(r, q) == 0                                                  \* mutant
Penalty(r, q) == Points(~Viable(r, q), 60)

(* Half the cost score, three tenths of protection, and what fits, rounded *)
(* to a whole number between 0 and 150 before anything is compared.  Of an *)
(* amount of nothing the fee counts as the whole.                          *)
Saved(r, q) == IF q.amount = 0 THEN 0 ELSE Max({0, 250 * q.amount - Fee(r, q)})
FitScore(r, q) ==
    LET a == Max({1, q.amount})
        tenths == 2 * Saved(r, q) + a * (3 * Protection(r) + 10 * (Bonus(r, q) - Penalty(r, q)))
    IN  Max({0, Min({150, (tenths + 5 * a) \div (10 * a)})})

Candidates(q) == {i \in DOMAIN Rails : q.supported = {} \/ Rails[i] \in q.supported}
Ranked(q, i, j) == LET fit(n) == FitScore(Rails[n], q)
                   IN  fit(i) > fit(j) \/ (fit(i) = fit(j) /\ i <= j)
Best(q) == CHOOSE i \in Candidates(q) : \A j \in Candidates(q) : Ranked(q, i, j)
OptimizeRail(q) == advice' = [of |-> "rail", ask |-> q,
                              rail |-> IF Candidates(q) = {} THEN Nothing ELSE Rails[Best(q)]]

-----------------------------------------------------------------------------
(* budget-allocator.ts: by priority, each in full or not at all.           *)
Cap(agent) == IF agent.asked <= agent.left THEN agent.asked ELSE agent.left
ByPriority(agents, i, j) == \/ agents[i].priority > agents[j].priority
                            \/ agents[i].priority = agents[j].priority /\ i < j
Foremost(agents, waiting) == CHOOSE i \in waiting : \A j \in waiting \ {i} : ByPriority(agents, i, j)
Serve(q, was) ==
    LET i == Foremost(q.agents, was.waiting)
        cap == Cap(q.agents[i])
        given == was.pool >= cap /\ cap > 0
    IN  [pool |-> IF given THEN was.pool - cap ELSE was.pool,
         paid |-> IF given THEN was.paid \cup {i} ELSE was.paid, waiting |-> was.waiting \ {i}]
(* The pool, who was paid and who waits, after each turn of the loop.      *)
Turns(q) ==
    LET turn[n \in 0 .. Len(q.agents)] == IF n = 0 THEN [pool |-> q.pool, paid |-> {}, waiting |-> DOMAIN q.agents]
                                          ELSE Serve(q, turn[n - 1])
    IN  turn
Allocate(q) == Turns(q)[Len(q.agents)]
AllocateBudget(q) == advice' = [of |-> "fleet", ask |-> q, given |-> Allocate(q)]

-----------------------------------------------------------------------------
(* payment-intent-compiler.ts over suite-catalog.ts's default pipeline:    *)
(* a plan is the set of the pipeline's steps it holds, in their order.     *)
Steps == <<"pre-x402-guard", "api-router", "external-x402", "research-brief", "receipt-auditor">>
Prices(q) == <<5, 2, q.external, 20, 5>>
Pipeline(q) == {i \in DOMAIN Steps : /\ Steps[i] = "api-router" => q.router
                                     /\ Steps[i] = "external-x402" => q.external > 0
                                     /\ Steps[i] = "research-brief" => q.research}
Droppable == {"research-brief", "external-x402", "receipt-auditor", "api-router"}
Total(q, steps) == SumFunctionOnSet(Prices(q), steps)
DropOne(steps) ==
    LET droppable == {i \in steps : Steps[i] \in Droppable}
    IN  steps \ {IF droppable # {} THEN Min(droppable) ELSE Max(steps)}
Trim(q, steps) == IF Total(q, steps) > q.budget /\ Cardinality(steps) > 2 THEN DropOne(steps) ELSE steps
(* The loop stops at two steps of at most five: it runs three times.       *)
Trimmed(q) == Trim(q, Trim(q, Trim(q, Pipeline(q))))
CompilePlan(q) == advice' = [of |-> "plan", ask |-> q, steps |-> Trimmed(q),
                             allowed |-> Total(q, Trimmed(q)) <= q.budget]

-----------------------------------------------------------------------------
(* marketplace.ts: the facilitator catalog, else the lab's, else nothing.  *)
(* Of what it finds, the router takes the best scored.                     *)
SearchMarketplace(q) == IF q.primary # Nothing /\ q.primary # {} THEN q.primary
                        ELSE IF q.lab # Nothing THEN q.lab ELSE {}
Score(res) == 20 * res.quality - res.price + Points(res.near, 50)
PickBest(found) == CHOOSE res \in found : \A other \in found : Score(res) >= Score(other)

(* api-router.ts: a capability route, a curated or suite match, or the     *)
(* marketplace; the price told is the probe's where there is one.          *)
CapabilityPrices == <<8, 25, 5>>     \* proxy, pipeline, guard
Under(price, most) == most = Nothing \/ price <= most
Priced(q, list) == IF q.probed # Nothing THEN q.probed ELSE list
Routed(list, told) == [status |-> "ok", list |-> list, told |-> told]
NotFound == [status |-> "not_found", list |-> 0, told |-> 0]
Route(q) ==
    LET open == {i \in DOMAIN CapabilityPrices : Under(CapabilityPrices[i], q.most)}
        first == CapabilityPrices[Min(open)]
        found == SearchMarketplace(q) IN
    CASE q.kind = "capability" -> IF open = {} THEN NotFound ELSE Routed(first, Priced(q, first))
      [] q.kind = "curated" -> IF ~Under(5, q.most) THEN NotFound ELSE Routed(5, Priced(q, 5))
      [] q.kind = "suite" -> Routed(8, 8)          \* maxPriceUsdc is not looked at
      [] q.kind = "market" -> IF found = {} THEN NotFound
                              ELSE Routed(PickBest(found).price, PickBest(found).price)
FindRoute(q) == advice' = [of |-> "route", ask |-> q, answer |-> Route(q)]

-----------------------------------------------------------------------------
(* market-buy-advisor.ts: what to do with the best quote; for many calls   *)
(* also mpp-session-broker.ts's estimate, in hundredths of a cent.         *)
Action(q) == CASE q.best = Nothing -> "no_match"
               [] q.best # Nothing /\ q.best.external ->
                    IF q.best.bundle /\ 10 * q.best.cost >= 72 THEN "use_suite_proxy" ELSE "pay_external"
               [] q.best # Nothing /\ ~q.best.external -> "use_suite_guard_only"
PolicyVerdict(q) == IF q.guarded /\ Action(q) # "no_match" THEN q.guard ELSE Nothing
SessionTotal(calls) == 100 + 10 * calls
UseMpp(calls, price) == calls >= 10 /\ calls * 100 * price - SessionTotal(calls) > 500
AdviseBuy(q) ==
    advice' = [of |-> "buy", ask |-> q, action |-> Action(q),
               allowed |-> Action(q) # "no_match" /\ PolicyVerdict(q) # FALSE,
               mpp |-> q.calls >= 8 /\ UseMpp(q.calls, IF q.best = Nothing THEN 5 ELSE q.best.cost)]

-----------------------------------------------------------------------------
PlanningInit == advice = Nothing
PlanningNext == \/ \E q \in RailAsks : OptimizeRail(q)
                \/ \E q \in FleetAsks : AllocateBudget(q)
                \/ \E q \in PlanAsks : CompilePlan(q)
                \/ \E q \in RouteAsks : FindRoute(q)
                \/ \E q \in BuyAsks : AdviseBuy(q)
PlanningSpec == PlanningInit /\ [][PlanningNext]_advice
-----------------------------------------------------------------------------
RailAdviceSound(q, rail) ==
    (\E i \in Candidates(q) : Viable(Rails[i], q)) => Viable(rail, q)
Caps(q) == [i \in DOMAIN q.agents |-> Cap(q.agents[i])]
AllocationSound(q, given) ==
    /\ given.pool >= 0
    /\ SumFunctionOnSet(Caps(q), given.paid) = q.pool - given.pool
    /\ \A i \in DOMAIN q.agents \ given.paid : Cap(q.agents[i]) > 0 =>
         /\ Cap(q.agents[i]) > given.pool
         /\ \A j \in given.paid : ByPriority(q.agents, i, j) => Cap(q.agents[j]) < Cap(q.agents[i])
PlanSound(q, steps, allowed) ==
    /\ Steps[Min(steps)] = "pre-x402-guard"
    /\ allowed => Total(q, steps) <= q.budget
    /\ Total(q, steps) > q.budget => Cardinality(steps) <= 2

(* Penalties outweigh every bonus: a rail below its minimum amount is only *)
(* recommended where no supported rail is viable.  The allocator's pool    *)
(* is never overdrawn, its books balance, and who was refused could not be *)
(* paid from what is left, nor from what one of less priority was given.   *)
(* A trimmed plan keeps its guard first, and only stays over budget when   *)
(* two steps remain.  A capability or curated route is listed within the   *)
(* caller's maximum.  An advisor whose guard refused does not allow.       *)
AdviceSound ==
    advice # Nothing =>
        CASE advice.of = "rail" -> RailAdviceSound(advice.ask, advice.rail)
          [] advice.of = "fleet" -> AllocationSound(advice.ask, advice.given)
          [] advice.of = "plan" -> PlanSound(advice.ask, advice.steps, advice.allowed)
          [] advice.of = "route" -> advice.ask.kind \in {"capability", "curated"} /\ advice.answer.status = "ok"
                                    => Under(advice.answer.list, advice.ask.most)
          [] advice.of = "buy" -> advice.allowed /\ advice.ask.guarded => advice.ask.guard
=============================================================================
