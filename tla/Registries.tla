----------------------------- MODULE Registries -----------------------------
(***************************************************************************)
(* The small registers kept beside the payments.                           *)
(*                                                                         *)
(* Subscriptions: lib/webhooks.ts (a table filled once from a legacy       *)
(* file), the trust webhooks of lib/trust-events.ts and their routes in    *)
(* lib/webhook-routes.ts.                                                  *)
(*                                                                         *)
(* Books: lib/reputation-network.ts, lib/partner-registry.ts and           *)
(* lib/attestation.ts keep one JSON file each, read and rewritten whole    *)
(* with an await between, for the routes of routes/growth-routes.ts,       *)
(* routes/guard-routes.ts and agents/attestation-registry.ts.              *)
(***************************************************************************)
EXTENDS Integers, Sequences, FiniteSets, FiniteSetsExt, SequencesExt

CONSTANTS
    Clerks,         \* requests that can be under way
    LegacyHooks,    \* sequence of [id, active]: data/webhooks.json
    HookIds,        \* ids of all subscriptions, the legacy ones included
    Urls,           \* of trust webhooks
    Jobs,           \* what a request does to the books: sequences of entries
    KeepRows,       \* attestations kept: 500 in the code
    MaxJobs,        \* bound on the jobs of a behaviour
    HalfWritten, Nobody

VARIABLES
    hooks,      \* webhook_subscriptions: id -> "none", "on", "off"
    waiting,    \* clerk -> the call that awaits the legacy file
    ended,      \* deactivations answered with success
    interrupted,\* a crash has cut a migration short
    trustHooks, \* trust_webhook_subscriptions: url -> "none", "on", "off"
    promised,   \* urls answered with a subscription
    dropped,    \* urls ever deactivated
    book,       \* the files
    clerk,      \* clerk -> what is left of its job and what it has read
    serial,     \* one job at a time
    tally,      \* history: entries a clerk has finished writing
    begun,      \* jobs begun
    burnt       \* a file was left half written by a crash

hookVars == <<hooks, waiting, ended, interrupted, trustHooks, promised, dropped>>
bookVars == <<book, clerk, serial, tally, begun, burnt>>
registryVars == <<hookVars, bookVars>>

LegacyIds == {LegacyHooks[i].id : i \in DOMAIN LegacyHooks}
Books == {"reputation", "partners", "attestations"}
EmptyBooks == [reputation |-> <<>>, partners |-> <<>>, attestations |-> <<>>]
OffDuty == [job |-> <<>>, copy |-> Nobody, writing |-> FALSE]

RegistryInit ==
    /\ hooks = [h \in HookIds |-> "none"]
    /\ waiting = [k \in Clerks |-> Nobody]
    /\ ended = {} /\ interrupted = FALSE
    /\ trustHooks = [u \in Urls |-> "none"] /\ promised = {} /\ dropped = {}
    /\ book = EmptyBooks
    /\ clerk = [k \in Clerks |-> OffDuty]
    /\ serial \in BOOLEAN
    /\ tally = <<>> /\ begun = 0 /\ burnt = FALSE

-----------------------------------------------------------------------------
(* Subscriptions.  Every call first migrates the legacy file if the table  *)
(* is empty, and the file is read behind an await.                         *)
NoHooks == \A h \in HookIds : hooks[h] = "none"
HookCall(do, id) == [do |-> do, id |-> id]
HookCalls == [do : {"register"}, id : HookIds \ LegacyIds] \cup [do : {"deactivate"}, id : HookIds]
             \cup {HookCall("list", Nobody)}

\* The call itself, on the rows that the migration left.
Performed(rows, call) ==
    CASE call.do = "register" -> [rows EXCEPT ![call.id] = "on"]
      [] call.do = "deactivate" /\ rows[call.id] # "none" -> [rows EXCEPT ![call.id] = "off"]
      [] OTHER -> rows

Perform(rows, call) ==
    /\ hooks' = Performed(rows, call)
    /\ ended' = IF call.do = "deactivate" /\ rows[call.id] # "none" THEN ended \cup {call.id} ELSE ended

AskHooks(k, call) ==
    /\ waiting[k] = Nobody
    /\ call.do = "register" => hooks[call.id] = "none" /\ \A j \in Clerks : waiting[j] # call   \* a random id
    /\ IF NoHooks THEN waiting' = [waiting EXCEPT ![k] = call] /\ UNCHANGED <<hooks, ended>>
                  ELSE Perform(hooks, call) /\ UNCHANGED waiting
    /\ UNCHANGED <<interrupted, trustHooks, promised, dropped, bookVars>>

\* INSERT fails on an id that is there; the error ends the loop and is
\* swallowed.  A row that is not active is inserted active, then switched off.
Inserted(rows, n) == {i \in 1 .. n : \A j \in 1 .. i : rows[LegacyHooks[j].id] = "none"}
MigratedRows(rows, n) ==
    [h \in HookIds |-> IF \E i \in Inserted(rows, n) : LegacyHooks[i].id = h
                       THEN IF \E i \in Inserted(rows, n) : LegacyHooks[i] = [id |-> h, active |-> TRUE] THEN "on" ELSE "off"
                       ELSE rows[h]]

HearLegacy(k) ==
    /\ waiting[k] # Nobody
    /\ Perform(MigratedRows(hooks, Len(LegacyHooks)), waiting[k])
    /\ waiting' = [waiting EXCEPT ![k] = Nobody]
    /\ UNCHANGED <<interrupted, trustHooks, promised, dropped, bookVars>>

\* The process dies after some of the rows, perhaps before switching one off.
MigrationCut(k) ==
    /\ waiting[k] # Nobody
    /\ \E n \in 0 .. Len(LegacyHooks) :
          \/ hooks' = MigratedRows(hooks, n)
          \/ n \in Inserted(hooks, n) /\ hooks' = [MigratedRows(hooks, n) EXCEPT ![LegacyHooks[n].id] = "on"]
    /\ interrupted' = TRUE
    /\ waiting' = [j \in Clerks |-> Nobody]
    /\ UNCHANGED <<ended, trustHooks, promised, dropped, bookVars>>

\* dispatchWebhooks posts to these.
Receivers == {h \in HookIds : hooks[h] = "on"}

\* INSERT OR IGNORE on a unique url: a deactivated row stays as it is, and the
\* caller is given an id and a secret nobody stores.
RegisterTrust(u) ==
    /\ trustHooks' = [trustHooks EXCEPT ![u] = IF @ = "none" THEN "on" ELSE @]
    /\ promised' = promised \cup {u}
    /\ UNCHANGED <<hooks, waiting, ended, interrupted, dropped, bookVars>>

DeactivateTrust(u) ==
    /\ trustHooks[u] # "none"
    /\ trustHooks' = [trustHooks EXCEPT ![u] = "off"]
    /\ dropped' = dropped \cup {u}
    /\ UNCHANGED <<hooks, waiting, ended, interrupted, promised, bookVars>>

HookNext ==
    \/ \E k \in Clerks : (\E call \in HookCalls : AskHooks(k, call)) \/ HearLegacy(k) \/ MigrationCut(k)
    \/ \E u \in Urls : RegisterTrust(u) \/ DeactivateTrust(u)

-----------------------------------------------------------------------------
(* Books.  An entry is [book, do, who, blocked]; the reputation and the    *)
(* partners book map <<who, what>> to a count, the third lists ids.        *)
Weights == [guard_pass |-> 2, guard_block |-> -6, kym_pay |-> 3, kym_caution |-> -2, kym_avoid |-> -8,
            fraud_clean |-> 2, fraud_flag |-> -10, settlement_ok |-> 2, settlement_fail |-> -3,
            delivery_good |-> 3, delivery_bad |-> -5]
BookOf(do) == IF do \in DOMAIN Weights THEN "reputation" ELSE IF do = "issue" THEN "attestations" ELSE "partners"
Filed == UNION {ToSet(job) : job \in Jobs}
Whos == {e.who : e \in Filed}
CountKeys == {<<e.who, e.do>> : e \in {x \in Filed : x.do \in DOMAIN Weights}}
             \cup {<<e.who, c>> : e \in {x \in Filed : x.do \in {"create", "guard"}}, c \in {"calls", "blocked"}}

\* The ids in the legacy file were drawn at random, so no two are the same;
\* new partners and attestations are jobs of their own, under a random id;
\* what marks a file half written is no contents of a file.
ASSUME RegistryAssumption ==
    /\ LegacyHooks \in Seq([id : HookIds, active : BOOLEAN])
    /\ \A i, j \in DOMAIN LegacyHooks : LegacyHooks[i].id = LegacyHooks[j].id => i = j
    /\ Nobody \notin HookCalls
    /\ KeepRows \in Nat
    /\ \A job \in Jobs : job \in Seq(ToSet(job))
                        /\ (Len(job) > 1 => \A e \in ToSet(job) : e.do \notin {"create", "issue"})
    /\ \A e \in Filed : /\ e = [book |-> BookOf(e.do), do |-> e.do, who |-> e.who, blocked |-> e.blocked]
                        /\ e.do \in DOMAIN Weights \cup {"authenticate", "create", "guard", "issue"}
                        /\ e.blocked \in BOOLEAN /\ (e.blocked => e.do = "guard")
    /\ \A D \in SUBSET CountKeys : {HalfWritten, Nobody} \cap [D -> Nat] = {}
    /\ {HalfWritten, Nobody} \cap Seq(Whos) = {}

CountOf(f, x) == IF x \in DOMAIN f THEN f[x] ELSE 0
PlusOne(f, x) == [y \in DOMAIN f \cup {x} |-> IF y = x THEN CountOf(f, x) + 1 ELSE f[y]]
NewPartner(f, p) == [y \in DOMAIN f \cup {<<p, "calls">>, <<p, "blocked">>} |-> IF y[1] = p THEN 0 ELSE f[y]]
IsPartner(f, p) == <<p, "calls">> \in DOMAIN f

\* loadStore, read: a file that does not parse is an empty one.
Legible(b) == IF book[b] = HalfWritten THEN <<>> ELSE book[b]

LastRows(rows) == SubSeq(rows, IF Len(rows) > KeepRows THEN Len(rows) - KeepRows + 1 ELSE 1, Len(rows))

\* createPartner, recordPartnerGuard, issueAttestation, recordObservation.
CountedTwice(rows, e) ==
    IF e.do = "guard" THEN PlusOne(PlusOne(rows, <<e.who, "calls">>), <<e.who, IF e.blocked THEN "blocked" ELSE "calls">>)
    ELSE IF e.do = "create" THEN NewPartner(rows, e.who)
    ELSE IF e.do = "issue" THEN LastRows(Append(rows, e.who)) ELSE PlusOne(rows, <<e.who, e.do>>)
Entered(rows, e) ==
    CASE e.do = "create" -> NewPartner(rows, e.who)
      [] e.do = "guard" /\ e.blocked -> PlusOne(PlusOne(rows, <<e.who, "calls">>), <<e.who, "blocked">>)
      [] e.do = "guard" /\ ~e.blocked -> PlusOne(rows, <<e.who, "calls">>)
      [] e.do = "issue" -> LastRows(Append(rows, e.who))
      [] OTHER -> PlusOne(rows, <<e.who, e.do>>)

\* A paid guard or report, a partner's guard call, an attestation: each is a
\* sequence of entries, the partner's behind a look into the partners book.
BeginJob(k, job) ==
    /\ clerk[k] = OffDuty /\ begun < MaxJobs
    /\ serial => \A j \in Clerks : clerk[j] = OffDuty
    /\ \A e \in ToSet(job) : e.do \in {"create", "issue"} =>     \* ids are random
          /\ <<e.who, e.do, FALSE>> \notin DOMAIN tally
          /\ \A j \in Clerks : e \notin ToSet(clerk[j].job)
    /\ begun' = begun + 1
    /\ clerk' = [clerk EXCEPT ![k] = [OffDuty EXCEPT !.job = job]]
    /\ UNCHANGED <<hookVars, book, serial, tally, burnt>>

NextEntry(k) == Head(clerk[k].job)
OnDuty(k) == clerk[k].job # <<>>

\* An unknown key answers 401; an unknown partner is not counted.
LookUp(k) ==
    /\ OnDuty(k) /\ NextEntry(k).do = "authenticate"
    /\ clerk' = [clerk EXCEPT ![k].job = IF IsPartner(Legible("partners"), NextEntry(k).who) THEN Tail(@) ELSE <<>>]
    /\ UNCHANGED <<hookVars, book, serial, tally, begun, burnt>>

ReadBook(k) ==
    /\ OnDuty(k) /\ NextEntry(k).do # "authenticate" /\ clerk[k].copy = Nobody
    /\ LET rows == Legible(NextEntry(k).book)
       IN  clerk' = IF NextEntry(k).do = "guard" /\ ~IsPartner(rows, NextEntry(k).who)
                    THEN [clerk EXCEPT ![k].job = Tail(@)]
                    ELSE [clerk EXCEPT ![k].copy = rows]
    /\ UNCHANGED <<hookVars, book, serial, tally, begun, burnt>>

\* writeFile truncates the file first: who reads it now finds it empty.
BeginWrite(k) ==
    /\ OnDuty(k) /\ clerk[k].copy # Nobody /\ ~clerk[k].writing
    /\ book' = [book EXCEPT ![NextEntry(k).book] = HalfWritten]
    /\ clerk' = [clerk EXCEPT ![k].writing = TRUE]
    /\ UNCHANGED <<hookVars, serial, tally, begun, burnt>>

EndWrite(k) ==
    /\ clerk[k].writing
    /\ LET e == NextEntry(k)
       IN  /\ book' = [book EXCEPT ![e.book] = Entered(clerk[k].copy, e)]
           /\ tally' = PlusOne(tally, <<e.who, e.do, e.blocked>>)
           /\ clerk' = [clerk EXCEPT ![k] = [OffDuty EXCEPT !.job = Tail(clerk[k].job)]]
    /\ UNCHANGED <<hookVars, serial, begun, burnt>>

BookCrash ==
    /\ \E k \in Clerks : OnDuty(k)
    /\ clerk' = [k \in Clerks |-> OffDuty]
    /\ burnt' = (burnt \/ \E b \in Books : book[b] = HalfWritten)
    /\ UNCHANGED <<hookVars, book, serial, tally, begun>>

BookNext ==
    \/ \E k \in Clerks : \/ \E job \in Jobs : BeginJob(k, job)
                          \/ LookUp(k) \/ ReadBook(k) \/ BeginWrite(k) \/ EndWrite(k)
    \/ BookCrash

RegistryNext == HookNext \/ BookNext
RegistrySpec == RegistryInit /\ [][RegistryNext]_registryVars

-----------------------------------------------------------------------------
(* reputation-network.ts reads a subject's tier off its counts: weights,   *)
(* then 50 + 50 tanh(raw / 40), whose bands these sums bound.              *)
NetworkTier(counts, who) ==
    LET seen == {x \in DOMAIN counts : x[1] = who}
        raw == FoldSet(LAMBDA x, n : n + Weights[x[2]] * counts[x], 0, seen)
    IN  CASE seen = {} -> "UNKNOWN"
          [] raw >= 22 -> "TRUSTED"
          [] raw \in 4 .. 21 -> "NEUTRAL"
          [] raw \in -12 .. 3 -> "WATCH"
          [] OTHER -> "HIGH_RISK"

Written(who, do) == CountOf(tally, <<who, do, TRUE>>) + CountOf(tally, <<who, do, FALSE>>)
Due(x) == CASE x[2] = "calls" -> Written(x[1], "guard")
            [] x[2] = "blocked" -> CountOf(tally, <<x[1], "guard", TRUE>>)
            [] OTHER -> Written(x[1], x[2])
Observed == [x \in {<<y[1], y[2]>> : y \in {z \in DOMAIN tally : z[2] \in DOMAIN Weights}} |-> Written(x[1], x[2])]
Issued == {x[1] : x \in {y \in DOMAIN tally : y[2] = "issue"}}

\* A subscription once switched off is never posted to again, and once the
\* table has a row every legacy subscription is in it as the file had it,
\* unless a crash cut the migration; who was promised a trust webhook has one,
\* unless the url was ever deactivated (webhooks.ts, trust-events.ts).
HooksKept ==
    /\ ended \cap Receivers = {}
    /\ ~NoHooks /\ ~interrupted =>
          \A i \in DOMAIN LegacyHooks :
             LET h == LegacyHooks[i].id
             IN  h \in Receivers \/ (hooks[h] = "off" /\ (h \in ended \/ ~LegacyHooks[i].active))
    /\ \A u \in promised \ dropped : trustHooks[u] = "on"

\* No book ever counts more than was written to it, whatever overlaps; one
\* job at a time, and no file torn by a crash, it counts exactly that, each
\* subject has the tier its reports give, and the last attestations are all in
\* their file (reputation-network.ts,
\* partner-registry.ts, attestation.ts).
BooksKept ==
    /\ \A b \in {"reputation", "partners"} : \A x \in DOMAIN Legible(b) : Legible(b)[x] <= Due(x)
    /\ ToSet(Legible("attestations")) \subseteq Issued
    /\ serial /\ ~burnt =>
          /\ book["partners"] # HalfWritten => \A x \in DOMAIN book["partners"] : book["partners"][x] = Due(x)
          /\ book["reputation"] # HalfWritten =>
                \A who \in {x[1] : x \in DOMAIN Observed} :
                   NetworkTier(book["reputation"], who) = NetworkTier(Observed, who)
          /\ book["attestations"] # HalfWritten =>
                Len(book["attestations"]) = (IF Cardinality(Issued) > KeepRows THEN KeepRows ELSE Cardinality(Issued))

\* Both registers keep faith with what their callers were told.
RegistersKept == HooksKept /\ BooksKept
=============================================================================
