# x402 Trust Layer: formal models

This directory holds TLA+ models of the parts of this repository that keep
state or decide about money, the TLC runs that check them on small instances,
and TLAPS proofs of the properties that matter most. Paths below are relative
to `src/` of the repository (`lib/...` is `src/lib/...`).

    tlc -config PaidRequest.cfg MCPaidRequest     # any row of the run table
    tlapm PaidRequestProofs.tla

## 1. The system

One Node process (Express) sells API calls. A client signs a USDC payment, a
facilitator verifies and settles it, and the handler of the route answers.
Node runs one callback at a time and `better-sqlite3` is synchronous, so the
code between two `await`s is atomic: that is the grain of an action in every
module. What interleaves is requests at their awaits (network, files, timers);
what survives a crash is SQLite and the JSON files under `data/`.

| Component | State | Operations | Interacts with | What is hard | What makes it correct |
|---|---|---|---|---|---|
| Paid request chain (`lib/idempotency.ts`, `lib/x402-paid.ts`, `lib/response-guard.ts`, `lib/x402-payment-replay.ts`, `lib/nonce-store.ts`, `routes/shared.ts`) | `idempotency_cache`, `idempotency_inflight`, `used_nonces`, the prune counter, the lock flag of each response | pre-check, claim, payment checks, settle, mark, capture, release, prune | facilitator and chain, core handlers, error handler, timer | a timer racing settlement, claims that outlive their request, pruning inside a lookup, crashes | one request per key in flight; one handler run per key; replays are faithful; everybody is answered |
| Admission chain (`lib/rate-limit.ts`, `lib/apply-verifier-body.ts`, `lib/replay-middleware.ts`, `protocol/replay-guard.ts`, `middleware/wallet-blocklist.ts`) | buckets in memory, bindings, nonces, the blocklist | limit, merge the example body, claim a binding, block, sweep | everything under `/api` | a check and a claim with an await between, ids that collide, bodies rewritten after they are bound | limits hold per window; a binding serves once; the wallet checked is the wallet served |
| Wallet sessions (`lib/wallet-sessions.ts`) | `wallet_sessions` | create, verify, revoke, info | session routes | three limits on one row | cap, expiry and revocation agree |
| Spend guard and its wrappers (`agents/spend-governor.ts`, `lib/ledger.ts`, `agents/pre-x402-guard.ts`, `agents/risk-gate.ts`, `agents/identity-gate.ts`, `lib/security.ts`, the proxy, pipeline, authorisation and advisor agents) | `spend_ledger` | guard, attest, proxy, pipeline | probes, trust registry | a spend recorded for calls that are then blocked or timed out; scores whose parts nearly cancel | the day's sum within the cap; pay is only said when every check passed |
| Alchemy policies (`agents/alchemy-policy.ts`, `agents/receipt-auditor.ts`, `agents/payload-sandbox.ts`) | `spend_ledger` | sponsor, simulate, notify | RPC node | throttled, refused and failing RPC calls, notifications delivered twice or half audited | safe means executed; acknowledged transfers are in the ledger |
| Mandates (`lib/mandate.ts`, compiler, diff) | `mandates` | compile, seed, import, verify, diff | planners | expiry between issue and use, forged legacy rows | what is allowed lies within a live, genuine mandate |
| Facilitators (`lib/facilitator-extra.ts`, `lib/facilitators.ts`, failover) | extras in memory, cache file | refresh, ensure, health | unpaid probes, a timer | outages, reboots, overlapping refreshes | extras never go back |
| Planners and routers (rail optimizer, budget allocator, intent compiler, API router, buy advisor, MPP broker) | none | one question, one plan | each other | arithmetic of penalties, bonuses and trims | the advice can be followed within its bounds |
| Metered escrow (`agents/metered-escrow.ts`) | one JSON file | open, charge, close | settlement routes | read-modify-write across awaits, torn files | never beyond budget, nothing invented, closed stays closed |
| Agent escrow (`lib/escrow-ledger.ts`, `lib/escrow-unified.ts`, `lib/db-persistence.ts`) | `escrow_records`, `escrows`, JSON mirror | create, release, status | settlement routes | two statements without a transaction, concurrent releases | one release; the record leads its shadows |
| Protocol escrow machine (`protocol/escrow-fsm.ts`, `protocol/store.ts`) | one `protocol_kv` row, `escrows`, `escrow_transitions` | create, transition | legacy file | statements cut short, first readers of the legacy file | the log tells the history |
| Seller bonds (`lib/certified-sellers.ts`, `agents/trust-network.ts`, `agents/merchant-trust.ts`) | one JSON file | certify, slash, gate, insure | quality escrow | a slash over a certification that came in between | bonds only shrink by what was slashed |
| Recourse (quality escrows, `lib/semantic-judge.ts`, dispute resolver, refund arbiter, compliance ledger, quality monitor) | none | one ruling per request | seller bonds | a later rule that overturns an earlier one, thresholds | nobody is paid for nothing; a refused buyer has recourse |
| Trust protocol v4 (`protocol/*.ts`) | five `protocol_kv` rows, credit rows | passport, receipt, audit, scan, trust, credit, pipeline | ERC-8004, guard | two requests that find no row and both write the first | what was vouched for verifies |
| MPP sessions (`agents/mpp-session-v2.ts`) | JSON file and `mpp_sessions` | open, voucher, close, status | db-persistence | two stores merged and saved whole; three ways to name a session | vouchers counted exactly, one settlement |
| Guarantee pool (`lib/guarantee-pool.ts`) | one JSON file | buy, claim, quote, stats | reputation network, growth routes | a reputation read between the pool's read and its write | solvent and balanced; a policy pays once |
| Database and migrations (`lib/db.ts`, `lib/migrations.ts`, `lib/db-persistence.ts`) | SQLite, or a JSON file that plays it | boot, migrate, prune, each statement | everything | a crash between a script and its version, a list that is not in order, a fallback that answers differently | migrations applied; the fallback answers alike |
| ERC-8004 trust (`lib/erc8004/*`, `agents/agent-verify.ts`, `agents/multichain-trust.ts`) | two caches | score by id or by wallet | chain RPC | a cache of caches, a timeout that loses to its own result | a score is not older than its window |
| Webhooks and trust events (`lib/webhooks.ts`, `lib/trust-events.ts`) | two subscription tables | register, deactivate, import, dispatch | legacy file | an import interrupted or overlapped | switched off stays off; nothing is lost |
| JSON books (`lib/reputation-network.ts`, `lib/partner-registry.ts`, `lib/attestation.ts`) | three JSON files | authenticate, guard, report, issue | growth and guard routes | read-modify-write across awaits, torn files | nothing counted that was not written |
| Settlement failures (`lib/settlement-failures.ts`), reputation store and anchors, evidence and report agents, cryptography and identity documents, outbound safety, HTTP surface and discovery, clients and scripts | append-only rows or none | | | little beyond strings and network | tested as functions |

`PROJECT.json` lists each component with its status, and under `hazards` every
place of this code where an order, a fault or a boundary bites, with the
properties that would notice.

## 2. The modules

### PaidRequest

The life of the paid POST requests of one route, in the order
`routes/shared.ts:createPost` chains the layers.

| State | Code |
|---|---|
| `req` | the headers and body of a request: signed or not, key and its header form, payment, whether its nonce is readable, body hash, trusted payTo and network |
| `pc` | `new`; `quote` (awaiting facilitator extras, unsigned); `verify` and `settled` (inside the x402 middleware, before and after the chain took the money); `handler`; `done`; `dead` |
| `claimed` | `req.idempotencyClaimKey` |
| `locked` | `lockResponse` was called |
| `cache`, `inflight`, `usedKeys`, `usedNonces`, `prunes` | the two idempotency tables, the two kinds of `used_nonces` rows, `_pruneCounter` |
| `marking` | `claimNonceKey` awaiting Redis |
| `chain`, `paid`, `ran` | external settlement, and what each request got out of it (history) |

Actions: `ArriveHit`, `ArriveBusy`, `ArriveClaim`, `ArriveUnguarded` (the four
ways through `idempotencyPreCheck`, each with the synchronous checks of
`paidHandler` that follow it in the same callback); `AnswerUnpaid`,
`ChainSettles`, `SettlementLost` (the x402 middleware, external);
`SettlementConfirmed`, `MarkLands`, `MarkFails` (`onSettlement`);
`BudgetExpires`; `HandlerReturns`, `HandlerFails` (capture included);
`Crash`, `HourPasses`, `DayPasses`.

Abstractions. The keys are taken as already prefixed with the route. A payment
is what the chain accepts once; `visible` says whether
`extractNonceFromPaymentHeader` finds its nonce. The second `loadHit` of the
busy path cannot hit in one process (nothing ran in between), so only its prune
count is kept. Ages are two-valued: a claim is fresh or older than the 3600 s
of `pruneInflight`, a row is within its 24 h or expired. `HourPasses` and
`DayPasses` are enabled only when no request is active: no request outlives the
facilitator timeout (90 s) and its handler by an hour. The horizon is the seven
days `used_nonces` rows are kept. `X402_BYPASS`, GET routes (no capture) and
several server instances are not modelled.

### RateLimit, Admission and WalletSession

`RateLimit` is `lib/rate-limit.ts`: one map of buckets per limiter, each bucket
counting the requests of a window that starts with the first of them, `Sweep`
the five-minute timer, `Restart` the loss of all maps. `passed` is history:
what was let through in each tick.

`Admission` composes it with the middleware of `index.ts`, in its order.
`Arrive` is one callback: the limiter of the request's kind, the merge of its
body with the route's example (`MergedBody`), and then either the rest of the
chain (`Onward`: blocklist, wallet limiter on guard routes, payment check) or,
when a binding is named, its checks up to the claim, which awaits.
`ClaimNonce` is the set-if-absent of the nonce and what follows it. `Bind`,
`BindReads`, `BindWrites` create bindings, with the two awaiting steps that
occur only while the store has no row; an id is made of the time and the agent,
so two binds of one tick collide. `Block` and `Unblock` are the admin routes.
A body is the three fields the chain tells apart (wallet, target, cost).

`WalletSession` has one row per session and a history `uses` of when each
verification was granted. `Verdict` is the order of checks in
`verifyWalletSession`; a token is its session, or `Forged`.

### SpendGuard, AlchemyPolicy and Mandates

`SpendGuard` follows a guarded call: `Begin` (the governor's sum of the day),
`Record` (its verdict on that sum and the insert), `Judge` (probe, identity and
trust answers are in; the wrapper answers) or `TimeOut`. `apart` says whether
another governor may run between sum and insert; URLs and wallets are given by
what the checks find in them. `Verdict` lists the wrappers: guard, attestation,
proxy, pipelines, authorisation, advisor.

`AlchemyPolicy` has three parts: `Sponsor` (every decoded sub-call is scanned by
itself); `Shield`, `RpcReply`, `FallBack`, `ConcludeShield` (the simulation, its
retries after a 429 and its way out through `eth_call`); `Deliver`, `Audit`,
`AuditThrows`, `AnswerDelivery` (a notification audited activity by activity,
answered 500 halfway, delivered again).

`Mandates` writes rows at compile time, at boot or by the import of the legacy
file, and judges a payment (`verify`) or a tool trace (`diff`) on a later day.
`ruling` is the last answer.

### Facilitators and Planning

`Facilitators` keeps the version of the extras in memory, in the cache file and
at the facilitator; a refresh is begun by the timer or by an unpaid probe
(which marks the cache fresh first), answered, and installed; a refused one
installs what the cache file holds, or the bundle. `oneRefresh` says whether
refreshes overlap. `newest` is history.

`Planning` states what each planner answers to a question, as operators over
integers (cents, or millionths of a dollar): fees, points, trims and the order in
which they are applied. The rails are ranked by their places in `RAILS`, which is
what a stable sort leaves of equals; the allocator's loop is the function
`Turns` of the agents served so far; a plan is the set of the pipeline's steps it
holds. `advice` is the last answer.

### MeteredEscrow and EscrowPromise

Every call of `agents/metered-escrow.ts` is read, edit, truncate, write, with
other calls in between; `writeFile` opens with O_TRUNC, so a reader may find an
empty file (`Torn`), and two overlapping writes may leave text that is not
JSON. `lanes`, chosen initially, says how many calls may overlap in the
behaviour, so serial and concurrent use are two halves of one run. `granted`,
`asked`, `charged` and `closed` record what clients were told. Amounts are
whole multiples of the 0.0001 USDC that `toFixed(4)` keeps; smaller charges,
which round to nothing, are outside the model. `EscrowPromise` is the promise
to buyer and merchant: a budget is granted once, charged within it, and never
after a close.

### EscrowLedger, OneShotRelease and EscrowFsm

`Persist` is the two synchronous statements of create and release: both, or
only the first when the second throws. `MirrorRead`, `MirrorTruncate`,
`MirrorWrite`, `MirrorFails` are the best-effort JSON mirror. `Crash` forgets
calls, never rows. `OneShotRelease` says that an escrow goes from none to
pending to released and that at most one caller is told it released it;
`Promise == INSTANCE OneShotRelease WITH status <- records` is the mapping.

`EscrowFsm` is the protocol's own machine: `root` (the store's row) holds the
history of each escrow, `shadow` and `log` the two tables. `CreateProtocol` and
`Transition` run their statements in order, and `CutShort` loses those after
one that throws. While there is no row, `ReadLegacy` and `FoundLegacy` let
every handler go on with the legacy file it read, so that the later of two
writes wins.

### SellerBonds and Recourse

`SellerBonds` keeps the register file, one call per lane with its copy of it
(`Certify`, `Slash`, `ReadRegister`, `OpenRegister`, `FillRegister`), the date
and `RegisterCrash`; `posted` and `slashed` record what was posted with each
badge and written off it. `queued` behaviours run one call at a time. The
merchant score, the buyer gate and the insurance test are operators.

`Recourse` rules on deliveries: the two quality escrows, the dispute resolver,
the refund arbiter, the compliance ledger and the quality monitor, each a
function of what it is told, `ruled` the last ruling. A group of the ledger is
the set of records with one key (`SpendAt`). Its properties relate the agents to
each other: what one refuses the next accepts.

### TrustProtocol

Five stores, each one row, and a credit row per agent. A request is a list of
steps (`Steps`), the full pipeline being the longest; `UseStore` edits a row in
one go when it is there, or starts to look for the legacy file, and `FoundFile`
goes on with what that held. `raced` records the stores two requests looked for
at once, the only way a store forgets. Scores, tiers, bands and gates are
operators in hundredths of a point. A store is in `stores` once its row is
written; a lane that looks for the legacy file of a store without a row is
`looking`.

### MppSession

Two stores and one whole-list save. A call brings the
latest `ListRows` rows the table holds of its agentId (`listMppByAgent`; `open`
passes no agent and brings none, and two chains of one agentId, `SameId`, share
their rows). `Merged` is the Map merge of `loadSessions` (file order, table
version, then the table's other rows, newest first), `Kept` the `slice(-200)` of
`saveSessions`: with the file full, the rows that the merge appended push others
out, and a row that was just edited may be among them (`cut`). Sessions are
named by id, by agent or by both; `EditDetached` is the branch where
`findSession` returned an object that is not one of the rows. An agent stands
for an (agentId, chain) pair. Not modelled: process crashes, the monetary
fields, `status` (it writes nothing).

### GuaranteePool

`Quote`, `ReadBuy`, `ReadClaim` and `Judge` are the stretches of
`buyGuarantee` and `claimGuarantee` between two awaits: a purchase awaits the
reputation first and the file second, a claim the other way round, so the copy a
claim edits in `Judge` may be old. `Truncate` and `Write` are `writeFile`; the
bytes of two overlapping writes may mix. `Observe` is another subsystem moving
the subject's tier, `Expire` the clock. `taken`, `paid` and `pays` are what
callers handed in and were told. One subject stands for all (each call looks at
one policy's subject only); a price is any of a set of pairs, since the score it
is computed from is any.

### Store, Erc8004 and Registries

`Store` boots one of three engines: SQLite with its migrations (`ExecMigration`,
`RecordMigration`, `StoreCrash` between them), the JSON fallback, or none. Every
statement of the persistence layer is given to the mirror and to the tables
SQLite would hold, so that the answers of the two can be compared; a write of
the fallback's file may fail or be torn.

`Erc8004` reads its sources one by one (`ReadCached`, `AskChain`, `HearChain`)
through a cache per read, under a cache per score, in a race with the timeout;
a calculation that lost the race goes on (`LateEnds`) and still stores its
result. `Shift` changes a registry behind the caches. A reading is a number of
points.

`Registries` holds the two subscription tables, with the one-time import of the
legacy file that runs while a call awaits (`AskHooks`, `HearLegacy`,
`MigrationCut`), and three JSON books edited by jobs of several entries, each
entry a read and a write of a whole file (`ReadBook`, `BeginWrite`, `EndWrite`,
`BookCrash`).

### Composition

`Admission` composes the limiters with the rest of the chain, over shared
state. The other components meet by calls: each paid operation is a core
handler of `PaidRequest`, which treats it as one step that returns or throws,
and the tables are disjoint. `MCSpending`, `MCEscrows`, `MCAdmission` and
`MCRegistries` therefore put several modules side by side in one state: a
variable `focus`, chosen initially, says which of them moves in the behaviour,
and the others stay in their initial states. A run of such a module is the
union of the checks of its parts, with one set of lanes that is symmetric for
all of them.


## 3. The runs

| Run | Config | Expectation | Shows |
|---|---|---|---|
| paid_request | PaidRequest.cfg | pass, 518,835 states | `TypeOK`, `OneInFlightPerKey`, `HandlerRunsOncePerKey`, `ReplayIsFaithful`, `CacheIsStable` |
| paid_request_live | PaidRequestLive.cfg | pass, 38,295 states | `CacheHoldsResults`, `EveryRequestAnswered` when no budget timer fires, with Redis marks |
| spending | Spending.cfg | pass, 717,647 states | metered escrow: `RowsWithinBudget`, `NeverOverbilled`, `SerialFileIsExact`, `SerialCallsKeepPromise` (refinement); guard: `SpendWithinCaps`, `VerdictsEarned`; Alchemy: `SafeMeansExecuted`, `NotifiedSpendKept`; `AllowedWithinMandate`; `ExtrasNeverGoBack`; `AdviceSound` |
| escrows | Escrows.cfg | pass, 1,134,053 states | agent ledger: `TypeOK`, `RecordsLead`, `TablesAgree`, `KeepsPromise` (refinement); protocol escrows: `LogTellsHistory`; `BondsKept`; `RecourseSound`; `TrustKept` |
| admission | Admission.cfg | pass, 957,628 states | MPP: `TypeOK`, `NeverOvercounted`, `SerialByAgentIsExact`; `SessionAccounts`; limiters: `WindowsHold`; chain: `BindingServesOnce`, `BlockedStaysOut` |
| registries | Registries.cfg | pass, 951,033 states | pool: `TypeOK`, `Solvent`, `BooksBalance`, `SerialPoolNeverOverpays`; `StoreKeepsItsWord`; `ScoresAreRecent`; `RegistersKept` |
| paid_request_budget | PaidRequestBudget.cfg | violation | after the budget timer the client is never answered |
| paid_request_cached_error | PaidRequestCachedError.cfg | violation | a handler's error is cached and replayed as 200 |
| paid_request_retry | PaidRequestRetry.cfg | violation | a paid retry is refused instead of replayed |
| metered_overdraft | MeteredOverdraft.cfg | violation | overlapping charges are acknowledged beyond the budget |
| callers_body | CallersBody.cfg | violation | a complete paid body is changed by the verifier example |
| mpp_settle_twice | MppSettleTwice.cfg | violation | closing twice by sessionId settles twice |

Each property is violated by the mutant `PROJECT.json` gives for it, a
plausible bug in the code it is about, under the run's own configuration.

Bounds, and why they are enough:

- `PaidRequest`: three requests make every pairwise race with a third party
  (claimant, competitor, later retry); two keys, two bodies and three payments
  make every equality and difference a check could look at. The shapes are
  listed in `MCPaidRequest`. `PruneEvery = 2` makes pruning happen at any
  lookup (1000 in the code). One timeout and one crash: each disturbs the
  tables independently. `Reqs` is symmetric: shapes are assigned to requests
  freely.
- `MeteredEscrow`: one budget of 2 and charges of 1 and 2 make a charge fit
  exactly, fit twice, or not fit; five calls are open, two overlapping charges,
  close and a late charge; two ids show that saving one session keeps another.
- `SpendGuard`: two checks overlap; each request differs from a clean one in a
  fact or two (`GuardAsks`), each with a penalty of its own; a cap of
  5 takes one cost of 3 and not two; two days show that the sum starts again.
- `AlchemyPolicy`: one shield call with one retry of a throttled request; three
  deliveries of two notices, so that one is delivered twice and one overlaps.
- `Mandates`: asked terms 2 and 3 against a longest term of 2, four days, one
  legacy row with a forged signature.
- `Facilitators`: two refreshes overlap, two versions, a cache life of 1.
- `Planning`: each question on the grid of `Given...Asks`, around the
  thresholds of its arithmetic (a rail amount on, and just below, every minimum
  and every bonus, and none at all).
- `EscrowLedger`: three callers, three escrows, two faults.
- `EscrowFsm`: two new escrows and a legacy one, two callers, one statement
  lost, six moves: a whole life of an escrow and a contested second one.
- `SellerBonds`: two hosts, two badges, a bond of 5 and slashes of 3: the first
  slash leaves a bond, the second takes what is left.
- `Recourse`: evidence around every threshold (`Given...`); a ruling depends on
  nothing else. The schemas of the routes refuse an empty ledger and an empty
  list of targets.
- `TrustProtocol`: two requests in flight and two served, histories kept to two
  (`KeepTrust`, `KeepCredit`) so that the limits drop a row.
- `MppSession`: five calls one at a time, or four that overlap; three sessions,
  two agents, `KeepRows = 2` and `ListRows = 2` so that both limits drop a row
  and an edit is lost to the first. `SerialByAgentIsExact` excepts those rows
  (`cut`): with more than 200 rows in the two stores, `saveSessions` keeps the
  last 200, and a row that stood early in the file goes although its voucher
  was just acknowledged.
- `WalletSession`: two sessions, lives of 1 and 3 against a longest of 2, caps
  of 1 and 2, three uses, three ticks.
- `RateLimit`: limits of 1 and 2 in windows of 2 ticks, five ticks: two windows
  and a restart. The maps of the limiters share nothing, so one limiter and one
  key are looked at by themselves.
- `Admission`: two visits race for one binding (two integer forms of one price, so
  that the ids may or may not collide), two wallets, and the blocklist may be
  edited between any two steps.
- `GuaranteePool`: two policies, one priced 2 for a cover of 3 (the pool is
  underfunded and the cap bites), one priced 1 for a cover of 1; five calls are
  two purchases and three claims, enough to claim one policy twice.
- `Store`: one nonce, one session and one escrow key with three writes: each
  migration is a step, and each may be the last before a crash.
- `Erc8004`: one calculation at a time is asked for while the late one of an
  earlier timeout may still run; one registry changes once, at any time.
- `Registries`: three subscriptions, two of them in the legacy file, two clerks;
  four jobs over the books, each book cut to two rows (`KeepRows`).

`CHECK_DEADLOCK FALSE` everywhere: requests, calls and clocks are bounded, so
behaviours end. `Registries.cfg` uses no symmetry (its lanes and hooks play
different parts); the others permute only values no definition names.

### Fairness

Only `FairSpec` of `PaidRequest` has any: weak fairness of `Progress(r)` for
each request, the steps that settle, lose, confirm or answer it. The facilitator
client has an HTTP timeout and the core handlers settle their promise (each
fetch has a timeout; `asyncRoute` passes a rejection to the error handler), so a
request that has entered moves on. Nothing is assumed of arrivals, of timers,
of Redis, or of the crash. The other modules promise nothing about what must
happen: their operations return when their awaits do, and the interesting
question is what they leave behind.

### What the violations mean

1. `lib/x402-paid.ts:66` locks the response and line 67 sends the 504 through
   the guard that drops writes to a locked response: nobody is answered.
   `EveryRequestAnswered` passes when no timer fires, so the timer is the cause.
   The facilitator timeout (90 s) exceeds the default budget (70 s), so the
   timer does fire.
2. `lib/idempotency.ts:163` reads `statusCode` after `status()` has become a
   no-op: a failing handler's error is stored as a 200.
3. `public/skill.md:131` promises that a retry replays; a request whose 402 came
   after the settlement keeps its claim, and one whose handler failed has its
   key consumed: both retries get 409.
4. `README.md:145` says charges check overdrafts; overlapping ones do not.
5. `agents/mpp-session-v2.ts:245`: a session closed by id is never saved closed.
6. `lib/apply-verifier-body.ts:34` says that the example fills a body "when
   required keys are missing". Lines 173-186 merge every body that is an object,
   and the keys of lines 4-11 are always the example's: a complete body that
   names its own wallet or target is answered for another.

## 4. The proofs

Each theorem holds for every value of the constants that the named assumptions
allow: any sets of requests, calls, keys, agents and amounts, any overlap, any
number of faults. Eight modules hold them; `SumTheorems` has no system in it.

### Paid requests (`PaidRequestProofs`)

| Theorem | States | Inductive invariant |
|---|---|---|
| `Typing` | `Spec => []TypeOK` | `TypeOK` |
| `SingleFlight` | `Spec => []OneInFlightPerKey` | `ClaimInv` |
| `FaithfulReplay` | `Spec => []ReplayIsFaithful` | `CacheInv` |
| `StableCache` | `Spec => CacheIsStable` | `CacheInv` |
| `OneRunPerKey` | `AsyncMarks = FALSE` implies `Spec => []HandlerRunsOncePerKey` | `RunInv` |
| `OnlyTimeoutsStoreErrors` | `Spec => []ErrorsWereLocked` | itself, with `TypeOK` |
| `ResultsAreStored` | `MaxTimeouts = 0` implies `Spec => []CacheHoldsResults` | from the last, as nothing is locked |

- `ClaimInv` adds to `OneInFlightPerKey` that a guarded active request carries
  its claim and that its key's in-flight row is fresh. Without it a pruned row
  could belong to an active request. The row stays fresh because hours pass only
  when nothing is active.
- `CacheInv` adds that an active guarded request's key has no live cached
  answer, that requests past settlement paid, and that every stored row was
  produced by a paid, run request with that key and body.
- `RunInv` adds to `ClaimInv` that a request whose handler ran consumed its key,
  and that no request in verification or settlement shares its key with one
  whose handler ran; the claim keeps two such requests apart until then. It
  needs marks that land with the settlement (`AsyncMarks = FALSE`). With Redis
  configured the mark is asynchronous and may fail, and the property does not
  hold: a crash, or a Redis failure, between handler and mark leaves the key
  open to a second run.
- `OnlyTimeoutsStoreErrors` says what run `paid_request_cached_error` shows one
  case of: a stored error always comes from a response the timer had locked.

### Money of one agent (`SpendingProofs`, `MeteredEscrowProofs`)

| Theorem | States | Inductive invariant |
|---|---|---|
| `PayIsEarned` | `GuardSpec => []VerdictsEarned` | `GuardInv` |
| `SpendIsCapped` | `GuardSpec => []SpendWithinCaps` | `GuardInv`, `BookInv` |
| `PaymentsWithinMandate` | `MandateSpec => []AllowedWithinMandate` | `MandateInv` |
| `SafeOnlyWhenExecuted` | `AlchemySpec => []SafeMeansExecuted` | `ShieldInv` |
| `NotifiedIsKept` | `AlchemySpec => []NotifiedSpendKept` | `NotifyInv` |
| `ExtrasAdvance` | `FacilitatorSpec => []ExtrasNeverGoBack` | `FacilitatorInv` |
| `AdviceIsSound` | `PlanningSpec => []AdviceSound` | itself |
| `WithinBudget` | `Spec => []RowsWithinBudget` | `RowsInv` |
| `NobodyOverbilled` | `Spec => []NeverOverbilled` | `RowsInv`, `BillInv` |
| `SerialExactness` | `Spec => []SerialFileIsExact` | `Inv` |
| `SerialPromise` | `Spec => SerialCallsKeepPromise` (refinement) | `Inv` |

- `GuardInv`: a call under way carries its request and, if its spend passed, that
  spend is in the ledger. The lemmas on scores (`UrlClean`, `RiskClean`,
  `IdentityClean`) say that each passing score leaves no room for any finding;
  the ledger only grows, so what was recorded stays.
- `BookInv`: the day's sum is the sum of the calls recorded in it, and when
  governors stay apart a call between its sum and its insert is alone there and
  summed at least what the ledger holds. Where they overlap no cap is claimed.
- `ShieldInv`: a simulation under way has asked nothing but its legs, and an
  untraced chain has its `eth_call` from the start, so an answer of "safe"
  always has a result behind it.
- `NotifyInv`: what was notified is at least all acknowledged notices together
  with what each delivery under way has audited so far; a delivery that is
  answered 500 gives its part up, and the same notice counts again later.
- `MandateInv` needs only types beside the property: issue, import and expiry
  are one row each.
- `FacilitatorInv`: one refresh is under way at most, what it carries is not
  older than what is installed, and the file holds the newest until a write
  fails. Where refreshes overlap, the property is not claimed: a slow one may
  install an older answer.
- `AdviceSound` says something of the last answer only, so each planner's answer
  is shown sound from its question. A viable rail scores 12 at least from its
  protection alone; one below its minimum loses 60, keeps 6 at most, and so is
  never ranked first while a viable one is a candidate (`ViableTenths`,
  `UnviableTenths`). The allocator's loop is well defined (`TurnsAre`), and each
  turn keeps what holds of those served so far (`TurnKept`): the pool and what
  was given add up to what there was, and whoever was refused asked for more than
  is left and than anyone served after him got. A trim takes out one step and
  never the guard (`TrimsOne`), and three of them bring five steps to two.
- `RowsInv`, for any overlap and any crashes: every copy of a metered escrow,
  in a call's hands or in the file, has spent at most its budget. `BillInv`:
  what a row shows and what charges are still to be read, together, was asked
  for; each unread charge is added once, to the copy of its own call. What
  callers were told is another matter (run `metered_overdraft`), so the exact
  properties are about one call at a time: `Inv` adds that, with one lane and no
  crash, at most one call is under way, the file tells what clients were told,
  and the call's copy tells that and its own edit. The step that answers then
  takes file and promise together.

### Escrows, bonds and trust (`EscrowsProofs`)

| Theorem | States | Inductive invariant |
|---|---|---|
| `Typing` | `Spec => []TypeOK` | `PromiseInv` |
| `Refinement` | `Spec => KeepsPromise` (refinement) | `PromiseInv` |
| `RecordsAlwaysLead` | `Spec => []RecordsLead` | `LedgerInv` |
| `TablesInStep` | `Spec => []TablesAgree` | `LedgerInv` |
| `LogTells` | `FsmSpec => []LogTellsHistory` | `FsmInv` |
| `BondsAreKept` | `SellerSpec => []BondsKept` | `BondsInv`, `QueuedInv` |
| `TrustIsKept` | `TrustSpec => []TrustKept` | `TrustInv` |
| `RecourseIsSound` | `RecourseSpec => []RecourseSound` | itself |

- `PromiseInv`: a call that wrote "released" is about an escrow that is released
  and untold, and at most one call is. An answer is then a step of
  `OneShotRelease`, and everything else a stutter. `LedgerInv` adds that a
  settled shadow's record is released (`Settles`) and that the mirror and every
  copy of it a call holds trail the records (`Trailing`): a stale copy may be
  written over a newer mirror, but never says more than the record.
- `FsmInv`: per escrow, nothing is logged after an end, each entry starts where
  the one before it led while no statement is lost, and the store's history is
  the log entry by entry (`IsHistory`); a lane that makes an escrow has an id
  no row holds (`IdsApart`).
- `BondsInv`: each row of the register, and of each copy a call edits, shows a
  badge that was posted, with no more left than its bond and no less than the
  bond less all that was slashed off it. With calls queued, `QueuedInv` adds
  that the register is exact and complete but for the edit of the one call
  under way.
- `TrustInv`: each lane follows its plan and has learnt in order (`OnPlan`); who
  looks for a legacy file looks alone and finds no row, until two do
  (`LooksAlone`); what was vouched for is in its store (`StoreVouches`); the
  fraud graph counts every scan (`GraphCounts`). The bounds on what a pipeline
  has learnt are what make its answer depend on the guard and the oracles only.
- `RecourseSound` too is about one ruling at a time, for any evidence. Both scores
  of a semantic settle stay within 0 to 100, and its weights are such that the
  threshold of 72 needs more than 35 of one judge and more than 45 of the other,
  which an empty body never has. The ledger's breakdowns add up because the
  records are cut into the groups of their keys and a sum over a set is the sum
  over the parts of any cut (`SumOfParts`); a total of groups within a cap is
  within the cap times their number.

### Admission and sessions (`AdmissionProofs`, `WalletSessionProofs`)

| Theorem | States | Inductive invariant |
|---|---|---|
| `OneCallPerBinding` | `AdmissionSpec => []BindingServesOnce` | `AdmissionInv` |
| `BlockedWalletsStayOut` | `AdmissionSpec => []BlockedStaysOut` | `AdmissionInv` |
| `WindowsAreKept` | `RateSpec => []WindowsHold` | `RateInv` |
| `ChainKeepsWindows` | `AdmissionSpec => []WindowsHold` | `RateInv` |
| `RowsAreWellFormed` | `Spec => []TypeOK` of `MppSession` | `MppInv` |
| `NothingInvented` | `Spec => []NeverOvercounted` | `MppInv` |
| `SerialByAgent` | `Spec => []SerialByAgentIsExact` | `SerialInv` |
| `AccountsAgree` | `SessionSpec => []SessionAccounts` | `SessionInv` |

- `AdmissionInv`: the two properties are inductive together with the types. The
  claim of a binding is a set-if-absent, so a call that has one knows nobody
  else has; the wallet the blocklist judged is the one the merged body names.
  `OneMoves` is the step both rest on.
- `RateInv`: an open bucket's count is what passed since it began, capped at
  the limit, and what passed in the window before it began is at most the
  limit; any stretch of one window therefore meets two buckets at most.
- `MppInv`: the rows a call brought are rows of the table at or before now, and
  a row it is about to save is at most one voucher ahead, its own. Calls only
  ever write rows they read, so no overlap invents a voucher.
- `SerialInv`: one call at a time, each row of the file is the table's
  (`FileIsTable`), sessions no call is answering for are exact
  (`OthersExact`), the call under way holds its session one edit ahead and all
  others as they are (`CallsAhead`), and an edit can be cut only with more
  than `KeepRows` sessions (`CutFits`). Proving it found the rows that
  `saveSessions` cuts: without `cut` the property is false beyond 200 rows.
- `SessionInv` strengthens the accounts of a session by types, by "nothing is
  dated later than now", which makes the next use the latest one, and by "a
  session that does not exist has granted nothing".

### What is kept and looked up (`RegistriesProofs`)

| Theorem | States | Inductive invariant |
|---|---|---|
| `PoolTyping` | `Spec => []TypeOK` of `GuaranteePool` | `PoolInv` |
| `PoolSolvency` | `Spec => []Solvent` | `PoolInv` |
| `PoolBalance` | `Spec => []BooksBalance` | `BooksInv` |
| `OneCallerIsSafe` | `Spec => []SerialPoolNeverOverpays` | `SerialInv` |
| `StoreIsKept` | `StoreSpec => []StoreKeepsItsWord` | `StoreInv` |
| `ScoresStayRecent` | `ErcSpec => []ScoresAreRecent` | `ErcInv` |
| `RegistersAreKept` | `RegistrySpec => []RegistersKept` | `HooksInv`, `FilesInv` |

- `PoolInv` holds for any overlap and any number of crashes; it adds that a call
  under way is about a policy. The lemmas say that each edit of a copy
  (`Insured`, a change of status, `Claimed`) keeps it well formed and solvent,
  and `LaneStep` that a step which moves one call and leaves it a sound copy
  keeps the invariant. Solvency is a property of each version, not of the
  callers together: two overlapping claims of one policy are both told they were
  paid, from two copies that are each solvent, which is why
  `SerialPoolNeverOverpays` is stated for one call at a time.
- `BooksInv`: every version adds up and lists no policy nobody paid for; two
  calls never buy one policy. `SerialInv`: with one lane, what a version holds
  covers what its call is about to pay, and a policy that paid is active in no
  version.
- `StoreInv`: what has not been migrated lies above everything recorded, except
  version 8, and is still to run in this boot; while its writes succeed the
  JSON file holds what SQLite would, but for escrows it never sees released.
- `ErcInv`: each cached reading was held when its call was sent, at most one
  trip before it was cached; what a calculation has gathered was held at most a
  trip and one life of a cache before it began; it is in the race for at most
  the timeout, and whatever is cached comes from there. The window is the sum. The
  tier of the multi-chain average never exceeds the score's, since no factor
  exceeds 100 and the weights add to at most ten (`AverageBelow`).
- `HooksInv`: what was switched off is off, a call that awaits the legacy file to
  register an id is alone with it, and until a crash cuts an import a table with
  a row has the whole file. So a second call behind its own await finds every id
  of the file taken and adds nothing (`WholeImport`, `NothingImported`).
- `FilesInv`: for any overlap and any crash, each book and each copy of one a
  request holds tells of no more than the entries written (`Warranted`). One job
  at a time and with no file torn, at most one request is at work, a half
  written file is its own, and every other file and its copy tell exactly what
  was written (`Exact`): the counts of the reputation book *are* the reports, so
  the tiers agree whatever the weights. A torn file ends this for good: it reads
  as empty and the next write loses the rest.

`SumTheorems` shows that a sum of naturals over a finite set is the number of
its units, which turns facts about sums (a term taken out, put in, edited; sums
compared term by term, a sum over the parts of a set, one value many times) into
facts about cardinalities: the community modules define sums by folds, which the
provers cannot unfold in general. It also has the least member of a set of
naturals (`LeastNatural`), which `Min` chooses.

### Assumptions

Those the modules name. Reserved values differ from data (`NamesAssumption`,
`NoIdAssumption`, `AbsentAssumption`, `TornAssumption`, `BlankAssumption`,
`EntryAssumption`); sets that are summed or counted are finite
(`CallsAssumption`, `FiniteAssumption`); bounds, limits, lives, costs and scores
are numbers of the kind the code has (`BoundsAssumption`, `FaultsAssumption`,
`QuotesAssumption`, `AmountsAssumption`, `LimitAssumption`, `SessionAssumption`,
`TermsAssumption`); requests, notices, questions and legacy rows have the fields
the code reads (`ShapesAssumption`, `AsksAssumption`, `AlchemyAssumption`,
`IncomingAssumption`, `FsmAssumption`, `TrustAssumption`, and
`PlanningAssumption` and `RecourseAssumption`, which are what the schemas of the
routes let through), and each source of a
trust score has a best reading (`ErcAssumption`). `RegistryAssumption` says that
ids drawn at random differ: no two rows of the legacy file, which
`registerWebhook` once wrote, share one, and a new partner or attestation is a
job of its own. TLC evaluates each in the passing runs.

### Only model-checked

`EveryRequestAnswered`: liveness under fairness is out of the prover's reach.
Every safety invariant and action property of the passing runs is a theorem.
The runs that expect a violation show single behaviours and have nothing to prove.

## 5. The plan

Done: the modules, runs, findings and theorems above.

Left:

1. One hazard has no property: with Redis configured the nonce and key marks
   land after the handler has begun (`lib/x402-paid.ts:172`). The runs with
   `AsyncMarks` explore the order; no document promises anything of it.
2. Several server processes over one database.

### Not modelled

- Settlement failures (`lib/settlement-failures.ts`): an append-only log whose
  breaker raises an alert and blocks nothing.
- Reputation store and anchors: append-only history rows, hashes and signed
  summaries of what the other modules decide.
- Evidence and report agents: the formatting of one request's data and of
  third-party answers; no state is kept.
- Cryptography and identity documents: taken as unforgeable where a module
  meets them.
- Outbound safety: functions over strings and URLs, which the repository unit
  tests; `SpendGuard` takes their verdicts as inputs.
- HTTP surface and discovery: route tables, pages and catalog documents. The
  middleware order, the error handler and the shutdown of `index.ts` enter
  `Admission` and `PaidRequest`.
- Clients, packages and scripts: callers of the API.

What a partly modelled component leaves out is in its note in `PROJECT.json`.
