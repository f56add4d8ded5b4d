------------------------------ MODULE Mandates ------------------------------
(***************************************************************************)
(* Signed mandates (lib/mandate.ts), their compiler and the diff of a tool *)
(* trace against one (agents/mandate-compiler.ts, mandate-diff.ts).  Rows  *)
(* are written once, at compile time, at boot or by the legacy migration,  *)
(* and are judged later, when they may have expired.                       *)
(***************************************************************************)
EXTENDS Integers, Sequences, FiniteSets

CONSTANTS Mandate,      \* ids compile can draw
          ProbeMandate, \* VERIFIER_PROBE_MANDATE_ID
          LegacyRows,   \* data/mandates.json: id -> row
          Scopes,       \* records: perTx, merchants, categories, rails (allow lists)
          Terms,        \* validities asked for, in days
          Proposals,    \* payments a verification proposes: records, or Unset
          Traces,       \* tool call traces a diff is given, sequences of calls
          LongestTerm,  \* 30 days, beyond which compile throws
          ProbeTerm,    \* 365 days
          MaxDay,       \* bound: the last day looked at
          Unset         \* an optional field left out

(* Terms are whole days, and every stored row says when it runs out.       *)
ASSUME TermsAssumption == /\ Terms \subseteq Int /\ ProbeTerm \in Int
                          /\ \A i \in DOMAIN LegacyRows : LegacyRows[i].until \in Int

VARIABLES day, mandates,
          ruling      \* the last answer, until anything else happens

mandateVars == <<day, mandates, ruling>>

MandateInit == day = 0 /\ mandates = <<>> /\ ruling = Unset

-----------------------------------------------------------------------------
(* runMandateCompile: a mandate beyond 30 days is refused.                 *)
Insert(i, m) == [j \in DOMAIN mandates \cup {i} |-> IF j = i THEN m ELSE mandates[j]]
Compile(i, scope, term) ==
    /\ i \notin DOMAIN mandates /\ term <= LongestTerm
    /\ mandates' = Insert(i, [scope |-> scope, until |-> day + term, genuine |-> TRUE])
    /\ UNCHANGED day /\ ruling' = Unset

(* At boot, and when it is asked for, the probe mandate gets a year.       *)
ProbeRow(scope) == [scope |-> scope, until |-> day + ProbeTerm, genuine |-> TRUE]
SeedProbe(scope) == /\ ProbeMandate \notin DOMAIN mandates
                    /\ mandates' = Insert(ProbeMandate, ProbeRow(scope))
                    /\ UNCHANGED day /\ ruling' = Unset

(* migrateLegacyJsonOnce, run by every verification, only fills an empty   *)
(* table; a row signed under another secret stays what it is.              *)
Migrated == IF mandates = <<>> THEN LegacyRows ELSE mandates

-----------------------------------------------------------------------------
In(v, list) == v # Unset /\ list # {} => v \in list
WithinTerms(p, scope) == /\ p.amount # Unset => p.amount <= scope.perTx
                  /\ In(p.merchant, scope.merchants)
                  /\ In(p.category, scope.categories)
                  /\ In(p.rail, scope.rails)

(* What verifyMandate finds: reasons it is invalid, expired, or violated.  *)
Expired(m) == m.until < day
Genuine(rows, i) == i \in DOMAIN rows /\ rows[i].genuine
WithinScope(m, p) == ~Expired(m) /\ (p # Unset => WithinTerms(p, m.scope))

Ruling(how, i, p, trace, drift, allowed) ==
    [how |-> how, mandate |-> i, proposed |-> p, trace |-> trace, drift |-> drift, day |-> day, allowed |-> allowed]

Verify(i, p) ==
    /\ mandates' = Migrated
    /\ ruling' = Ruling("verify", i, p, <<>>, FALSE,
                        Genuine(Migrated, i) /\ WithinScope(Migrated[i], p))
    /\ UNCHANGED day

(* Each call of the trace is held against the scope; affiliate links and a *)
(* task far from the intent ask for a step up, anything else blocks.       *)
CallBlocked(call, scope) == call.suspicious \/ call.tampered \/ ~WithinTerms(call, scope)
TierOfLast(trace, scope, drift) ==                                      \* mutant
    IF trace # <<>> /\ CallBlocked(trace[Len(trace)], scope) THEN "block"
    ELSE IF drift THEN "step_up" ELSE "allow"
TierOf(trace, scope, drift) ==
    CASE \E k \in DOMAIN trace : CallBlocked(trace[k], scope) -> "block"
      [] \A k \in DOMAIN trace : ~CallBlocked(trace[k], scope) ->
            IF drift \/ \E k \in DOMAIN trace : trace[k].affiliate THEN "step_up" ELSE "allow"

(* Without a proposal nothing of verifyMandate but its validity counts, so *)
(* an expired mandate still lets a trace through.                          *)
Diff(i, p, trace, drift) ==
    LET rows == Migrated
        blocked == ~Genuine(rows, i) \/ (p # Unset /\ ~WithinScope(rows[i], p)) IN
    /\ mandates' = rows
    /\ ruling' = Ruling("diff", i, p, trace, drift,
                        ~blocked /\ TierOf(trace, rows[i].scope, drift) = "allow")
    /\ UNCHANGED day

DayPasses == day < MaxDay /\ day' = day + 1 /\ UNCHANGED mandates /\ ruling' = Unset

MandateNext ==
    \/ \E i \in Mandate, scope \in Scopes, term \in Terms : Compile(i, scope, term)
    \/ \E scope \in Scopes : SeedProbe(scope)
    \/ \E i \in Mandate \cup {ProbeMandate} \cup DOMAIN LegacyRows, p \in Proposals : Verify(i, p)
    \/ \E i \in Mandate \cup DOMAIN LegacyRows, p \in Proposals, trace \in Traces, drift \in BOOLEAN :
          Diff(i, p, trace, drift)
    \/ DayPasses

MandateSpec == MandateInit /\ [][MandateNext]_mandateVars
-----------------------------------------------------------------------------
(* A payment that verify or diff lets through was proposed under a mandate *)
(* this service signed and that had not run out on that day; amount,       *)
(* merchant, category and rail were within its scope, and so was every     *)
(* call of the trace, not only the last.                                   *)
AllowedWithinMandate ==
    ruling # Unset /\ ruling.allowed =>
        LET m == mandates[ruling.mandate] IN
        /\ m.genuine
        /\ ruling.how = "verify" \/ ruling.proposed # Unset => ruling.day <= m.until
        /\ ruling.proposed # Unset => WithinTerms(ruling.proposed, m.scope)
        /\ \A k \in DOMAIN ruling.trace :
              /\ WithinTerms(ruling.trace[k], m.scope)
              /\ ~ruling.trace[k].suspicious /\ ~ruling.trace[k].tampered /\ ~ruling.trace[k].affiliate
=============================================================================
