------------------------------ MODULE Erc8004 -------------------------------
(***************************************************************************)
(* The trust score of a wallet, read from the ERC-8004 registries on Base: *)
(* lib/erc8004/trust-score.ts over resolve-agent.ts, registry.ts,          *)
(* agent-card.ts and cache.ts, and its callers agents/agent-verify.ts and  *)
(* agents/multichain-trust.ts.                                             *)
(*                                                                         *)
(* Two caches lie on top of each other: every chain read is cached on its  *)
(* own, and so is the sum.  A read is a round trip; the whole calculation  *)
(* races a timeout, and goes on in the background after losing it.         *)
(***************************************************************************)
EXTENDS Integers, Sequences, FiniteSets, FiniteSetsExt, Functions

CONSTANTS
    Scorings,       \* calculations that can be under way
    Readings,       \* for each source, what it can hold
    ScoreTtl,       \* TRUSTSCORE_CACHE_TTL_SEC, of both caches
    RpcTimeout,     \* TRUSTSCORE_RPC_TIMEOUT_MS
    LongestTrip,    \* the longest an HTTP reply is waited for
    LastTick,       \* bound on the clock
    MaxShifts,      \* bound on the changes of the registries
    NoReading

VARIABLES
    tick, shifts,
    chain,      \* what each source holds now
    lastHeld,   \* history: when a source last held a reading
    partCache,  \* erc8004Cache: source -> [reading, until]
    scoreCache, \* store of cache.ts: ask -> [parts, until]
    scoring     \* each calculation

ercVars == <<tick, shifts, chain, lastHeld, partCache, scoreCache, scoring>>

\* The sources, in the order a calculation reads them.
Sources == {"balance", "index", "owner", "wallet", "reputation", "uri", "card"}
CachedSources == {"balance", "owner", "wallet", "reputation", "uri"}
AskKinds == {"by id", "by wallet"}
NotCached == [value |-> NoReading, until |-> 0]

ASSUME ErcAssumption ==
    /\ ScoreTtl \in Nat /\ RpcTimeout \in Nat /\ LongestTrip \in Nat
    /\ \A s \in Sources : Readings[s] \subseteq Nat /\ \E r \in Readings[s] : \A q \in Readings[s] : r >= q
    /\ NoReading \notin Nat

Resting == [phase |-> "idle", ask |-> "by id", todo |-> <<>>, parts |-> <<>>, since |-> 0, asked |-> 0, seen |-> NoReading]

ErcInit ==
    /\ tick = 0 /\ shifts = 0
    /\ chain = [s \in Sources |-> Max(Readings[s])]    \* a complete agent
    /\ lastHeld = [s \in Sources |-> [r \in Readings[s] |-> IF chain[s] = r THEN 0 ELSE -100]]
    /\ partCache = [s \in CachedSources |-> NotCached]
    /\ scoreCache = [a \in AskKinds |-> NotCached]
    /\ scoring = [k \in Scorings |-> Resting]

-----------------------------------------------------------------------------
(* Points.  A reading is a number: 0 is nothing (or a failed read).        *)
Rounded(n, d) == (2 * n + d) \div (2 * d)

\* ownerOf: 1 is another wallet, 2 is this one.  A failed read leaves all 30.
OwnerPoints(r) == IF r = 1 THEN 15 ELSE 30
\* getSummary: the count in the tens, the average in the units (0 to 9 tenths).
ReputationPoints(r) == Rounded(25 * (r % 10) * (IF r >= 50 THEN 5 ELSE r \div 10), 50)
\* The card and its domain: name, services, x402 support and active for
\* fifteen points (tens), the .well-known file for ten (units).
CardPoints(r) == Rounded(15 * (r \div 10), 4) + 10 * (r % 10)

Points(s, r) ==
    CASE s = "owner" -> OwnerPoints(r)
      [] s = "wallet" -> IF r = 1 THEN 15 ELSE 0
      [] s = "reputation" -> ReputationPoints(r)
      [] s = "card" -> CardPoints(r)
      [] OTHER -> 0

ScoreOf(parts) == SumFunction([s \in DOMAIN parts |-> Points(s, parts[s])])

Ranks == <<30, 50, 70, 85>>
ScoreTier(score) == Cardinality({i \in DOMAIN Ranks : score >= Ranks[i]})

\* multichain-trust.ts: the same score four times, weighted; a failed chain
\* never looks failed, because computeTrustScore turns errors into a zero.
ChainFactors == [base |-> <<100, 4>>, ethereum |-> <<92, 3>>, polygon |-> <<88, 2>>, arbitrum |-> <<90, 1>>]
Aggregated(score, chains) ==
    LET weights == [c \in chains |-> ChainFactors[c][2]]
        weighted == [c \in chains |-> Rounded(score * ChainFactors[c][1], 100) * ChainFactors[c][2]]
    IN  Rounded(SumFunction(weighted), SumFunction(weights))

-----------------------------------------------------------------------------
(* A calculation.                                                          *)
\* Both caches keep milliseconds, one from a life in seconds.
UntilTwiceScaled == tick + 1000 * ScoreTtl
Until == tick + ScoreTtl
Unexpired(entry) == entry # NotCached /\ tick < entry.until

\* With an id only its owner is read; without one, the balance and Alchemy.
FirstReads(ask) == IF ask = "by id" THEN <<"owner">> ELSE <<"balance">>
OtherReads == <<"wallet", "reputation", "uri">>

\* An EVM address whose score is not cached, or a caller that skips the cache.
Compute(k, ask, skipCache) ==
    /\ scoring[k] = Resting
    /\ skipCache \/ ~Unexpired(scoreCache[ask])
    /\ scoring' = [scoring EXCEPT ![k] = [Resting EXCEPT !.phase = "racing", !.ask = ask,
                                           !.todo = FirstReads(ask), !.since = tick]]
    /\ UNCHANGED <<tick, shifts, chain, lastHeld, partCache, scoreCache>>

\* What follows from a reading: the agent may be unknown, or has no URI.
Continued(s, r, ask, rest) ==
    CASE s = "balance" -> IF r = 0 THEN <<>> ELSE <<"index">>
      [] s = "index" -> IF r = 0 THEN <<>> ELSE <<"owner">>
      [] s = "owner" -> IF ask = "by id" /\ r # 2 THEN <<>> ELSE OtherReads
      [] s = "uri" -> IF r = 0 THEN <<>> ELSE <<"card">>
      [] OTHER -> rest

\* By id, a wallet that does not own the agent gets nothing for the owner read.
Kept(s, r, ask, parts) ==
    IF s \in {"balance", "index", "uri"} \/ (s = "owner" /\ ask = "by id" /\ r # 2)
    THEN parts ELSE [x \in DOMAIN parts \cup {s} |-> IF x = s THEN r ELSE parts[x]]

\* The calculation goes on from reading r of source s.
After(k, s, r) ==
    [scoring[k] EXCEPT !.todo = Continued(s, r, scoring[k].ask, Tail(scoring[k].todo)),
                       !.parts = Kept(s, r, scoring[k].ask, scoring[k].parts),
                       !.seen = NoReading]

Reading(k) == scoring[k].phase \in {"racing", "late"} /\ scoring[k].todo # <<>>

ReadCached(k) ==
    /\ Reading(k) /\ scoring[k].seen = NoReading
    /\ LET s == Head(scoring[k].todo)
       IN  /\ s \in CachedSources /\ Unexpired(partCache[s])
           /\ scoring' = [scoring EXCEPT ![k] = After(k, s, partCache[s].value)]
    /\ UNCHANGED <<tick, shifts, chain, lastHeld, partCache, scoreCache>>

\* The node answers with what the registry holds, or with an HTTP or RPC
\* error, which reads as nothing.
AskChain(k) ==
    /\ Reading(k) /\ scoring[k].seen = NoReading
    /\ LET s == Head(scoring[k].todo)
       IN  /\ ~(s \in CachedSources /\ Unexpired(partCache[s]))
           /\ \E r \in {chain[s]} \cup ({0} \cap Readings[s]) :
                 scoring' = [scoring EXCEPT ![k] = [@ EXCEPT !.seen = r, !.asked = tick]]
    /\ UNCHANGED <<tick, shifts, chain, lastHeld, partCache, scoreCache>>

HearChain(k) ==
    /\ Reading(k) /\ scoring[k].seen # NoReading
    /\ LET s == Head(scoring[k].todo)
           r == scoring[k].seen
       IN  /\ partCache' = IF s \in CachedSources
                           THEN [partCache EXCEPT ![s] = [value |-> r, until |-> Until]]
                           ELSE partCache
           /\ scoring' = [scoring EXCEPT ![k] = After(k, s, r)]
    /\ UNCHANGED <<tick, shifts, chain, lastHeld, scoreCache>>

Settle(k, parts) ==
    scoreCache' = [scoreCache EXCEPT ![scoring[k].ask] = [value |-> parts, until |-> Until]]

FinishScore(k) ==
    /\ scoring[k].phase = "racing" /\ scoring[k].todo = <<>>
    /\ Settle(k, scoring[k].parts)
    /\ scoring' = [scoring EXCEPT ![k] = Resting]
    /\ UNCHANGED <<tick, shifts, chain, lastHeld, partCache>>

\* The timeout answers zero and caches it, even over a better score another
\* request has just stored; the reads go on.
RpcTimesOut(k) ==
    /\ scoring[k].phase = "racing" /\ tick >= scoring[k].since + RpcTimeout
    /\ Settle(k, <<>>)
    /\ scoring' = [scoring EXCEPT ![k].phase = "late"]
    /\ UNCHANGED <<tick, shifts, chain, lastHeld, partCache>>

\* The connection fails: zero as well, and the reads end.
RpcFails(k) ==
    /\ Reading(k) /\ scoring[k].seen # NoReading
    /\ IF scoring[k].phase = "racing" THEN Settle(k, <<>>) ELSE UNCHANGED scoreCache
    /\ scoring' = [scoring EXCEPT ![k] = Resting]
    /\ UNCHANGED <<tick, shifts, chain, lastHeld, partCache>>

LateEnds(k) ==
    /\ scoring[k].phase = "late" /\ scoring[k].todo = <<>>
    /\ scoring' = [scoring EXCEPT ![k] = Resting]
    /\ UNCHANGED <<tick, shifts, chain, lastHeld, partCache, scoreCache>>

-----------------------------------------------------------------------------
(* The registries change; timers and connections keep their limits.        *)
Shift(s) ==
    /\ shifts < MaxShifts /\ shifts' = shifts + 1
    /\ \E r \in Readings[s] \ {chain[s]} :
          /\ chain' = [chain EXCEPT ![s] = r]
          /\ lastHeld' = [lastHeld EXCEPT ![s][r] = tick]
    /\ UNCHANGED <<tick, partCache, scoreCache, scoring>>

\* An entry out of date is never served again: as good as dropped.
StillCached(entry) == IF entry # NotCached /\ tick' < entry.until THEN entry ELSE NotCached

TickErc ==
    /\ tick < LastTick /\ tick' = tick + 1
    /\ \A k \in Scorings :
          /\ scoring[k].phase = "racing" => tick < scoring[k].since + RpcTimeout
          /\ scoring[k].seen # NoReading => tick < scoring[k].asked + LongestTrip
    /\ lastHeld' = [s \in Sources |-> [r \in Readings[s] |-> IF chain[s] = r THEN tick' ELSE lastHeld[s][r]]]
    /\ partCache' = [s \in CachedSources |-> StillCached(partCache[s])]
    /\ scoreCache' = [a \in AskKinds |-> StillCached(scoreCache[a])]
    /\ UNCHANGED <<shifts, chain, scoring>>

ErcNext ==
    \/ TickErc
    \/ \E s \in Sources : Shift(s)
    \/ \E k \in Scorings :
          \/ \E ask \in AskKinds, skip \in BOOLEAN : Compute(k, ask, skip)
          \/ ReadCached(k) \/ AskChain(k) \/ HearChain(k)
          \/ FinishScore(k) \/ RpcTimesOut(k) \/ RpcFails(k) \/ LateEnds(k)

ErcSpec == ErcInit /\ [][ErcNext]_ercVars

-----------------------------------------------------------------------------
\* What a caller is told: the cached score, which a finished calculation has
\* just stored.  Everything it gives points for was in the registries not
\* longer ago than a reply takes, plus the race, plus what one life of each
\* cache adds: skipCache and a calculation that lost its race add no more.
\* Only an owner that could not be read counts although nobody saw it.  And
\* the multi-chain average never names a better tier than the score it is
\* made of (trust-score.ts computeTrustScore, registry.ts getCached and
\* setCached, cache.ts, multichain-trust.ts).
Window == LongestTrip + RpcTimeout + 2 * (ScoreTtl - 1)
ScoresAreRecent ==
    \A ask \in AskKinds : Unexpired(scoreCache[ask]) =>
        LET parts == scoreCache[ask].value
            score == ScoreOf(parts)
        IN  /\ \A s \in DOMAIN parts : parts[s] # 0 => tick - lastHeld[s][parts[s]] <= Window
            /\ \A chains \in (SUBSET DOMAIN ChainFactors) \ {{}} :
                  ScoreTier(Aggregated(score, chains)) <= ScoreTier(score)
=============================================================================
