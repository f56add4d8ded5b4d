---------------------------- MODULE Facilitators ----------------------------
(***************************************************************************)
(* What the suite knows of its facilitators: the extras it adds to a 402   *)
(* (lib/facilitator-extra.ts), refreshed by a timer and by unpaid probes,  *)
(* kept in memory and in a cache file; and their health and ranking        *)
(* (lib/facilitators.ts, agents/facilitator-failover.ts).                  *)
(***************************************************************************)
EXTENDS Integers, FiniteSets, FiniteSetsExt

CONSTANTS Refreshes,   \* refreshes that may be under way
          MaxVersion,  \* bound: the latest /supported answer, 1 .. n
          MaxMoment,   \* bound: time, in seconds of the model
          CacheTtl     \* CACHE_TTL_MS

VARIABLES oneRefresh, moment, version, cacheFile, extras, loadedAt,
          refresh, writeFailed, newest, ranking

facilitatorVars == <<oneRefresh, moment, version, cacheFile, extras, loadedAt,
                     refresh, writeFailed, newest, ranking>>
known == <<cacheFile, extras, loadedAt, writeFailed, newest>>

NoExtras == -1                    \* an empty map, or no cache file
Bundled == 0                      \* public/data/facilitator-supported-fallback.json
LongAgo == 0 - CacheTtl           \* cacheLoadedAt = 0
NotRunning == -4                  \* a refresh: not running, asked, failed, or
Asked == -3                       \* the version it was answered
Refused == -2

FacilitatorInit ==
    /\ oneRefresh \in BOOLEAN        \* whether refreshes never overlap
    /\ moment = 0 /\ version = 1
    /\ cacheFile = NoExtras /\ extras = NoExtras /\ loadedAt = LongAgo
    /\ refresh = [r \in Refreshes |-> NotRunning]
    /\ writeFailed = FALSE /\ newest = NoExtras
    /\ ranking = "none"

-----------------------------------------------------------------------------
Begins(r) == /\ refresh[r] = NotRunning
             /\ oneRefresh => \A q \in Refreshes : refresh[q] = NotRunning
             /\ refresh' = [refresh EXCEPT ![r] = Asked]

(* At boot, and every CACHE_TTL_MS after that.                             *)
TimerRefresh(r) == Begins(r) /\ UNCHANGED <<oneRefresh, moment, version, known, ranking>>

(* ensureFacilitatorExtras marks the cache fresh before it refreshes: an   *)
(* unpaid probe that comes meanwhile is answered with what is there.       *)
Ensure(r) == /\ moment - loadedAt >= CacheTtl
             /\ Begins(r)
             /\ loadedAt' = moment
             /\ UNCHANGED <<oneRefresh, moment, version, cacheFile, extras, writeFailed, newest, ranking>>

(* The facilitator answers with what it supports now, or fails in time.    *)
Reply(r, up) == /\ refresh[r] = Asked
                /\ refresh' = [refresh EXCEPT ![r] = IF up THEN version ELSE Refused]
                /\ UNCHANGED <<oneRefresh, moment, version, known, ranking>>

(* A good answer goes to the file, if it can be written, and to memory.    *)
Install(r, written) ==
    /\ refresh[r] \in 0 .. MaxVersion
    /\ extras' = refresh[r] /\ loadedAt' = moment
    /\ cacheFile' = IF written THEN refresh[r] ELSE cacheFile
    /\ writeFailed' = (writeFailed \/ ~written)
    /\ newest' = Max({newest, refresh[r]})
    /\ refresh' = [refresh EXCEPT ![r] = NotRunning]
    /\ UNCHANGED <<oneRefresh, moment, version, ranking>>

(* Otherwise the cache file replaces what is in memory, or the bundle.     *)
BundledFirst == Bundled                                                 \* mutant
LastKnown == IF cacheFile # NoExtras THEN cacheFile ELSE Bundled
InstallLastKnown(r) ==
    /\ refresh[r] = Refused
    /\ extras' = LastKnown /\ loadedAt' = moment
    /\ refresh' = [refresh EXCEPT ![r] = NotRunning]
    /\ UNCHANGED <<oneRefresh, moment, version, cacheFile, writeFailed, newest, ranking>>

-----------------------------------------------------------------------------
(* checkFacilitatorHealth asks through the patched fetch, which answers    *)
(* for Dexter from the cache file or the bundle; Coinbase is really asked. *)
LooksHealthy(f, coinbaseUp) == f = "dexter" \/ coinbaseUp

(* Health first; network preference and latency decide among the healthy.  *)
Rank(best, coinbaseUp) == /\ LooksHealthy(best, coinbaseUp)
                          /\ ranking' = best
                          /\ UNCHANGED <<oneRefresh, moment, version, known, refresh>>

-----------------------------------------------------------------------------
Change == /\ version < MaxVersion /\ version' = version + 1
          /\ UNCHANGED <<oneRefresh, moment, known, refresh, ranking>>
Pass == /\ moment < MaxMoment /\ moment' = moment + 1
        /\ UNCHANGED <<oneRefresh, version, known, refresh, ranking>>
Reboot == /\ extras' = NoExtras /\ loadedAt' = LongAgo
          /\ refresh' = [r \in Refreshes |-> NotRunning]
          /\ UNCHANGED <<oneRefresh, moment, version, cacheFile, writeFailed, newest, ranking>>

FacilitatorNext ==
    \/ \E r \in Refreshes : TimerRefresh(r) \/ Ensure(r) \/ InstallLastKnown(r)
    \/ \E r \in Refreshes, up \in BOOLEAN : Reply(r, up)
    \/ \E r \in Refreshes, written \in BOOLEAN : Install(r, written)
    \/ \E f \in {"dexter", "coinbase"}, coinbaseUp \in BOOLEAN : Rank(f, coinbaseUp)
    \/ Change \/ Pass \/ Reboot

FacilitatorSpec == FacilitatorInit /\ [][FacilitatorNext]_facilitatorVars
-----------------------------------------------------------------------------
(* Through outages, reboots and newer answers, the extras put into a 402   *)
(* are never older than the newest the suite has been given, provided      *)
(* refreshes do not overlap and the cache file could be written.           *)
ExtrasNeverGoBack ==
    oneRefresh /\ ~writeFailed /\ extras # NoExtras => extras >= newest
=============================================================================
