--------------------------- MODULE EscrowLedger ---------------------------
(***************************************************************************)
(* Agent escrows (agents/agent-escrow.ts over lib/escrow-ledger.ts): the   *)
(* authoritative row in escrow_records, its shadow in the unified escrows  *)
(* table, and a best-effort JSON mirror.  The two SQLite writes of a call  *)
(* run in one callback, so only a crash or a failing statement comes       *)
(* between them; the mirror is a file read and a file write, with awaits.  *)
(***************************************************************************)
EXTENDS Naturals, FiniteSets

CONSTANTS
  Calls,     \* lanes a client may have a call in
  Ids,       \* escrow ids randomUUID can give
  Torn,      \* the mirror while, or after, it cannot be parsed
  NoId,
  MaxFaults  \* bound: crashes and failing statements in a behaviour

ASSUME FaultsAssumption == MaxFaults \in Nat
ASSUME NoIdAssumption   == NoId \notin Ids

VARIABLES
  records,  \* escrow_records: id -> status
  unified,  \* escrows: id -> state
  mirror,   \* data/escrow-ledger.json: id -> status, or Torn
  known,    \* ids a create has told its client
  pc,       \* where each call is; "mixed" writes over another's bytes
  subject,  \* the escrow each call is about
  wrote,    \* the status each call gave it
  copy,     \* the mirror's rows each call has read and edited
  told,     \* per id, callers told that they released it
  faults

vars == <<records, unified, mirror, known, pc, subject, wrote, copy, told, faults>>

Statuses == {"none", "pending", "released"}
IsRows(x) == DOMAIN x \subseteq Ids /\ x \in [DOMAIN x -> Statuses]
NoRows    == [i \in {} |-> "none"]
Put(rows, i, s) == [j \in DOMAIN rows \cup {i} |-> IF j = i THEN s ELSE rows[j]]

(* syncLedgerEscrow's state for a record's status. *)
UnifiedStuck(s) == "LOCKED"                                           \* mutant
UnifiedEager(s) == "SETTLED"                                          \* mutant
Unified(s) == IF s = "released" THEN "SETTLED" ELSE "LOCKED"

-----------------------------------------------------------------------------
Init ==
  /\ records = [i \in Ids |-> "none"] /\ unified = [i \in Ids |-> "none"]
  /\ mirror = NoRows /\ known = {}
  /\ pc = [c \in Calls |-> "idle"] /\ subject = [c \in Calls |-> NoId]
  /\ wrote = [c \in Calls |-> "none"] /\ copy = [c \in Calls |-> NoRows]
  /\ told = [i \in Ids |-> 0]
  /\ faults = 0

(* Both tables take the new status, or the second statement throws (or the *)
(* process dies, see Crash) once the first is committed: a 500, no mirror. *)
Persist(c, i, s) ==
  /\ records' = [records EXCEPT ![i] = s]
  /\ \/ /\ unified' = [unified EXCEPT ![i] = Unified(s)]
        /\ pc' = [pc EXCEPT ![c] = "read"]
        /\ subject' = [subject EXCEPT ![c] = i] /\ wrote' = [wrote EXCEPT ![c] = s]
        /\ UNCHANGED faults
     \/ /\ faults < MaxFaults /\ faults' = faults + 1
        /\ UNCHANGED <<unified, pc, subject, wrote>>
  /\ UNCHANGED <<mirror, known, copy, told>>

Create(c, i) ==
  /\ pc[c] = "idle" /\ records[i] = "none"
  /\ Persist(c, i, "pending")

(* UPDATE ... WHERE status = 'pending'; every other caller gets null. *)
ReleasableAgain(i) == records[i] # "none"                             \* mutant
Releasable(i) == records[i] = "pending"

Release(c, i) ==
  /\ pc[c] = "idle" /\ i \in known /\ Releasable(i)
  /\ Persist(c, i, "released")

(* readStore: an unreadable mirror counts as empty. *)
MirrorRead(c) ==
  /\ pc[c] = "read" /\ pc' = [pc EXCEPT ![c] = "edited"]
  /\ copy' = [copy EXCEPT ![c] =
       Put(IF mirror = Torn THEN NoRows ELSE mirror, subject[c], wrote[c])]
  /\ UNCHANGED <<records, unified, mirror, known, subject, wrote, told, faults>>

MirrorTruncate(c) ==
  /\ pc[c] = "edited" /\ pc' = [pc EXCEPT ![c] = "writing"]
  /\ mirror' = Torn
  /\ UNCHANGED <<records, unified, known, subject, wrote, copy, told, faults>>

(* A call stops writing; bytes it left may stick out behind another's. *)
StopsWriting(c) ==
  pc' = [d \in Calls |-> IF d = c THEN "idle"
                         ELSE IF pc[d] = "writing" THEN "mixed" ELSE pc[d]]

(* The caller is answered whether the mirror was written or not. *)
Answer(c) ==
  /\ known' = IF wrote[c] = "pending" THEN known \cup {subject[c]} ELSE known
  /\ told' = IF wrote[c] = "released" THEN [told EXCEPT ![subject[c]] = @ + 1] ELSE told
  /\ subject' = [subject EXCEPT ![c] = NoId] /\ wrote' = [wrote EXCEPT ![c] = "none"]
  /\ copy' = [copy EXCEPT ![c] = NoRows]

MirrorWrite(c) ==
  /\ pc[c] \in {"writing", "mixed"}
  /\ mirror' \in {copy[c]} \cup (IF pc[c] = "mixed" THEN {Torn} ELSE {})
  /\ StopsWriting(c) /\ Answer(c)
  /\ UNCHANGED <<records, unified, faults>>

(* mkdir, readFile or writeFile rejects; mirrorToJson swallows it. *)
MirrorFails(c) ==
  /\ pc[c] # "idle" /\ faults < MaxFaults /\ faults' = faults + 1
  /\ StopsWriting(c) /\ Answer(c)
  /\ UNCHANGED <<records, unified, mirror>>

(* Nothing repairs the tables on restart. *)
Crash ==
  /\ faults < MaxFaults /\ faults' = faults + 1
  /\ pc' = [c \in Calls |-> "idle"] /\ subject' = [c \in Calls |-> NoId]
  /\ wrote' = [c \in Calls |-> "none"] /\ copy' = [c \in Calls |-> NoRows]
  /\ UNCHANGED <<records, unified, mirror, known, told>>

Next ==
  \/ \E c \in Calls : \/ \E i \in Ids : Create(c, i) \/ Release(c, i)
                      \/ MirrorRead(c) \/ MirrorTruncate(c)
                      \/ MirrorWrite(c) \/ MirrorFails(c)
  \/ Crash

Spec == Init /\ [][Next]_vars

-----------------------------------------------------------------------------
TypeOK ==
  /\ records \in [Ids -> Statuses]
  /\ unified \in [Ids -> {"none", "LOCKED", "SETTLED"}]
  /\ mirror = Torn \/ IsRows(mirror)
  /\ known \subseteq Ids
  /\ pc \in [Calls -> {"idle", "read", "edited", "writing", "mixed"}]
  /\ subject \in [Calls -> Ids \cup {NoId}]
  /\ wrote \in [Calls -> Statuses]
  /\ DOMAIN copy = Calls /\ \A c \in Calls : IsRows(copy[c])
  /\ told \in [Ids -> 0 .. 1]
  /\ faults \in 0 .. MaxFaults

(* The authoritative table leads: neither the unified table nor the mirror *)
(* ever shows a release escrow_records does not hold, however the mirror's *)
(* stale copies overwrite one another.                                     *)
RecordsLead ==
  \A i \in Ids :
    /\ unified[i] = "SETTLED" => records[i] = "released"
    /\ mirror # Torn /\ i \in DOMAIN mirror => mirror[i] \in {"pending", records[i]}

(* With no crash and no failing statement the two tables agree. *)
TablesAgree ==
  faults = 0 =>
    \A i \in Ids : <<records[i], unified[i]>> \in
      {<<"none", "none">>, <<"pending", "LOCKED">>, <<"released", "SETTLED">>}

(* The ledger keeps the promise of OneShotRelease: one caller at most is   *)
(* told it released an escrow, under concurrent releases, retries after a  *)
(* 500 and restarts (releaseEscrowInDb, "only one concurrent caller wins").*)
Promise == INSTANCE OneShotRelease WITH status <- records
KeepsPromise == Promise!Spec
=============================================================================
