--------------------------- MODULE EscrowsProofs ---------------------------
(***************************************************************************)
(* Theorems of EscrowLedger, for any calls, escrows and faults, of         *)
(* EscrowFsm, for any lanes, ids and legacy file, of SellerBonds, for any  *)
(* lanes, hosts, bonds and crashes, of TrustProtocol, for any requests,    *)
(* verdicts and legacy files, and of Recourse, for any deliveries, claims, *)
(* signals, ledgers and watches.                                           *)
(***************************************************************************)
EXTENDS EscrowLedger, EscrowFsm, SellerBonds, TrustProtocol, Recourse, SumTheorems,
  SequenceTheorems, TLAPS

LEMMA PutRows ==
  ASSUME NEW rows, IsRows(rows), NEW i \in Ids, NEW s \in Statuses
  PROVE  IsRows(Put(rows, i, s))
  BY DEF IsRows, Put

LEMMA NoRowsIsRows == IsRows(NoRows)
  BY DEF IsRows, NoRows

(* A call that is under way is about an escrow it created or released, and *)
(* the authoritative row has stayed where the call put it, or gone on from *)
(* there.  The one that released it is the only one, and nobody has been   *)
(* told yet: the inductive part of the promise.                            *)
Underway ==
  \A c \in Calls :
    /\ pc[c] # "idle" => subject[c] \in Ids /\ wrote[c] \in {"pending", "released"}
    /\ pc[c] = "idle" => wrote[c] = "none"
Winner ==
  /\ \A c \in Calls : wrote[c] = "released" =>
       records[subject[c]] = "released" /\ told[subject[c]] = 0
  /\ \A c, d \in Calls :
       wrote[c] = "released" /\ wrote[d] = "released" /\ subject[c] = subject[d] => c = d
  /\ \A i \in Ids : told[i] # 0 => records[i] = "released"

PromiseInv == TypeOK /\ Underway /\ Winner

LEMMA InitPromise == Init => PromiseInv
<1> SUFFICES ASSUME Init PROVE PromiseInv
  OBVIOUS
<1>1. TypeOK
  BY NoRowsIsRows, FaultsAssumption DEF Init, TypeOK, Statuses
<1>2. Underway /\ Winner
  BY DEF Init, Underway, Winner
<1> QED  BY <1>1, <1>2 DEF PromiseInv

(* The answer a call gets once its mirror was written, or was not. *)
LEMMA AnswerStep ==
  ASSUME PromiseInv, NEW c \in Calls, pc[c] # "idle", StopsWriting(c), Answer(c),
         UNCHANGED records
  PROVE  /\ known' \subseteq Ids /\ told' \in [Ids -> 0 .. 1]
         /\ pc' \in [Calls -> {"idle", "read", "edited", "writing", "mixed"}]
         /\ subject' \in [Calls -> Ids \cup {NoId}] /\ wrote' \in [Calls -> Statuses]
         /\ DOMAIN copy' = Calls /\ \A d \in Calls : IsRows(copy'[d])
         /\ Underway' /\ Winner'
<1> USE DEF PromiseInv
<1>1. subject[c] \in Ids /\ wrote[c] \in {"pending", "released"}
  BY DEF Underway
<1>2. /\ known' \subseteq Ids
      /\ pc' \in [Calls -> {"idle", "read", "edited", "writing", "mixed"}]
      /\ subject' \in [Calls -> Ids \cup {NoId}] /\ wrote' \in [Calls -> Statuses]
  BY <1>1 DEF TypeOK, Answer, StopsWriting, Statuses
<1>3. DOMAIN copy' = Calls /\ \A d \in Calls : IsRows(copy'[d])
  BY NoRowsIsRows DEF TypeOK, Answer
<1>4. told' \in [Ids -> 0 .. 1]
  BY <1>1 DEF TypeOK, Answer, Winner
<1>5. /\ pc'[c] = "idle" /\ wrote'[c] = "none"
      /\ \A d \in Calls \ {c} : /\ wrote'[d] = wrote[d] /\ subject'[d] = subject[d]
                                /\ pc'[d] = "idle" <=> pc[d] = "idle"
  BY DEF TypeOK, Answer, StopsWriting
<1>6. Underway'
  BY <1>5 DEF Underway
<1>7. Winner'
  <2>1. CASE wrote[c] = "released"
    <3>1. told' = [told EXCEPT ![subject[c]] = @ + 1]
      BY <2>1 DEF Answer
    <3>2. \A d \in Calls : wrote'[d] = "released" => subject[d] # subject[c]
      BY <1>5, <2>1 DEF Winner
    <3>3. \A d \in Calls : wrote'[d] = "released" =>
            records'[subject'[d]] = "released" /\ told'[subject'[d]] = 0
      <4> SUFFICES ASSUME NEW d \in Calls, wrote'[d] = "released"
                   PROVE  records'[subject'[d]] = "released" /\ told'[subject'[d]] = 0
        OBVIOUS
      <4>1. d # c /\ wrote[d] = "released" /\ subject'[d] = subject[d]
        BY <1>5
      <4>2. subject[d] \in Ids
        BY <4>1 DEF Underway
      <4> QED  BY <3>1, <3>2, <4>1, <4>2 DEF Winner, TypeOK
    <3>4. \A i \in Ids : told'[i] # 0 => records'[i] = "released"
      BY <1>1, <2>1, <3>1 DEF Winner, TypeOK
    <3> QED  BY <1>5, <3>3, <3>4 DEF Winner
  <2>2. CASE wrote[c] # "released"
    <3>1. told' = told
      BY <2>2 DEF Answer
    <3> QED  BY <1>5, <3>1 DEF Winner
  <2> QED  BY <2>1, <2>2
<1> QED  BY <1>2, <1>3, <1>4, <1>6, <1>7

LEMMA PromiseStep == PromiseInv /\ [Next]_vars => PromiseInv'
<1> SUFFICES ASSUME PromiseInv, [Next]_vars PROVE PromiseInv'
  OBVIOUS
<1> USE FaultsAssumption DEF PromiseInv
<1>1. ASSUME NEW c \in Calls, NEW i \in Ids, NEW s \in {"pending", "released"},
             pc[c] = "idle", Persist(c, i, s),
             \/ s = "pending" /\ records[i] = "none"
             \/ s = "released" /\ records[i] = "pending"
      PROVE  PromiseInv'
  <2>1. \A d \in Calls : wrote[d] = "released" => subject[d] \in Ids /\ subject[d] # i
    BY <1>1 DEF Winner, Underway
  <2>2. told[i] = 0 /\ wrote[c] = "none"
    BY <1>1 DEF Winner, Underway
  <2>3. TypeOK'
    <3>1. records' \in [Ids -> Statuses] /\ UNCHANGED <<mirror, known, copy, told>>
      BY <1>1 DEF Persist, TypeOK, Statuses
    <3>2. /\ unified' \in [Ids -> {"none", "LOCKED", "SETTLED"}]
          /\ pc' \in [Calls -> {"idle", "read", "edited", "writing", "mixed"}]
          /\ subject' \in [Calls -> Ids \cup {NoId}] /\ wrote' \in [Calls -> Statuses]
          /\ faults' \in 0 .. MaxFaults
      BY <1>1 DEF Persist, TypeOK, Statuses, Unified
    <3> QED  BY <3>1, <3>2 DEF TypeOK
  <2>4. Underway'
    BY <1>1 DEF Persist, TypeOK, Underway
  <2>5. /\ told' = told /\ records'[i] = s
        /\ \A j \in Ids \ {i} : records'[j] = records[j]
    BY <1>1 DEF Persist, TypeOK
  <2>6. \A j \in Ids : told'[j] # 0 => records'[j] = "released"
    BY <2>2, <2>5 DEF Winner
  <2>7. CASE UNCHANGED <<subject, wrote>>
    <3>1. \A d \in Calls : wrote'[d] = "released" =>
            records'[subject'[d]] = "released" /\ told'[subject'[d]] = 0
      BY <2>1, <2>5, <2>7 DEF Winner
    <3>2. \A d, e \in Calls :
            wrote'[d] = "released" /\ wrote'[e] = "released" /\ subject'[d] = subject'[e]
              => d = e
      BY <2>7 DEF Winner
    <3> QED  BY <2>3, <2>4, <2>6, <3>1, <3>2 DEF Winner
  <2>8. CASE subject' = [subject EXCEPT ![c] = i] /\ wrote' = [wrote EXCEPT ![c] = s]
    <3>1. /\ subject'[c] = i /\ wrote'[c] = s
          /\ \A d \in Calls \ {c} : subject'[d] = subject[d] /\ wrote'[d] = wrote[d]
      BY <2>8 DEF TypeOK
    <3>2. \A d \in Calls : wrote'[d] = "released" =>
            records'[subject'[d]] = "released" /\ told'[subject'[d]] = 0
      BY <2>1, <2>2, <2>5, <3>1 DEF Winner
    <3>3. \A d, e \in Calls :
            wrote'[d] = "released" /\ wrote'[e] = "released" /\ subject'[d] = subject'[e]
              => d = e
      BY <2>1, <3>1 DEF Winner
    <3> QED  BY <2>3, <2>4, <2>6, <3>2, <3>3 DEF Winner
  <2>9. \/ UNCHANGED <<subject, wrote>>
        \/ subject' = [subject EXCEPT ![c] = i] /\ wrote' = [wrote EXCEPT ![c] = s]
    BY <1>1 DEF Persist
  <2> QED  BY <2>7, <2>8, <2>9
<1>2. ASSUME NEW c \in Calls, NEW i \in Ids, Create(c, i) PROVE PromiseInv'
  BY <1>1, <1>2 DEF Create
<1>3. ASSUME NEW c \in Calls, NEW i \in Ids, Release(c, i) PROVE PromiseInv'
  BY <1>1, <1>3 DEF Release, Releasable
<1>4. ASSUME NEW c \in Calls, MirrorRead(c) PROVE PromiseInv'
  <2>1. subject[c] \in Ids /\ wrote[c] \in Statuses
    BY <1>4 DEF MirrorRead, Underway, Statuses
  <2>2. IsRows(Put(IF mirror = Torn THEN NoRows ELSE mirror, subject[c], wrote[c]))
    BY <2>1, PutRows, NoRowsIsRows DEF TypeOK
  <2>3. DOMAIN copy' = Calls /\ \A d \in Calls : IsRows(copy'[d])
    BY <1>4, <2>2 DEF MirrorRead, TypeOK
  <2>4. TypeOK'
    BY <1>4, <2>3 DEF MirrorRead, TypeOK
  <2> QED  BY <1>4, <2>4 DEF MirrorRead, Underway, Winner, TypeOK
<1>5. ASSUME NEW c \in Calls, MirrorTruncate(c) PROVE PromiseInv'
  BY <1>5 DEF MirrorTruncate, TypeOK, Underway, Winner
<1>6. ASSUME NEW c \in Calls, MirrorWrite(c) PROVE PromiseInv'
  <2>1. mirror' = Torn \/ IsRows(mirror')
    BY <1>6 DEF MirrorWrite, TypeOK
  <2>2. pc[c] # "idle" /\ StopsWriting(c) /\ Answer(c) /\ UNCHANGED <<records, unified, faults>>
    BY <1>6 DEF MirrorWrite
  <2> QED  BY <2>1, <2>2, AnswerStep DEF TypeOK
<1>7. ASSUME NEW c \in Calls, MirrorFails(c) PROVE PromiseInv'
  <2>1. /\ pc[c] # "idle" /\ StopsWriting(c) /\ Answer(c)
        /\ UNCHANGED <<records, unified, mirror>> /\ faults' \in 0 .. MaxFaults
    BY <1>7 DEF MirrorFails, TypeOK
  <2> QED  BY <2>1, AnswerStep DEF TypeOK
<1>8. CASE Crash
  <2>1. TypeOK'
    BY <1>8, NoRowsIsRows DEF Crash, TypeOK, Statuses
  <2> QED  BY <1>8, <2>1 DEF Crash, Underway, Winner
<1>9. CASE UNCHANGED vars
  BY <1>9 DEF vars, TypeOK, Underway, Winner
<1> QED  BY <1>2, <1>3, <1>4, <1>5, <1>6, <1>7, <1>8, <1>9 DEF Next

LEMMA PromiseInvHolds == Spec => []PromiseInv
  BY InitPromise, PromiseStep, PTL DEF Spec

(* Every variable keeps its type; in particular nobody is told twice.      *)
THEOREM Typing == Spec => []TypeOK
<1>1. PromiseInv => TypeOK
  BY DEF PromiseInv
<1> QED  BY <1>1, PromiseInvHolds, PTL

(* The ledger implements OneShotRelease: each of its steps is a step of    *)
(* the promise or changes nothing the promise speaks of.                   *)
LEMMA StepRefines ==
  ASSUME PromiseInv, [Next]_vars
  PROVE  [Promise!Next]_<<records, told>>
<1> USE DEF PromiseInv
<1>1. ASSUME NEW c \in Calls, NEW i \in Ids, Create(c, i) PROVE Promise!Create(i)
  BY <1>1 DEF Create, Persist, Promise!Create
<1>2. ASSUME NEW c \in Calls, NEW i \in Ids, Release(c, i) PROVE Promise!Release(i)
  BY <1>2 DEF Release, Releasable, Persist, Promise!Release
<1>3. ASSUME NEW c \in Calls, pc[c] # "idle", Answer(c), UNCHANGED records
      PROVE  UNCHANGED <<records, told>> \/ \E i \in Ids : Promise!Tell(i)
  <2>1. CASE wrote[c] = "released"
    <3>1. subject[c] \in Ids /\ records[subject[c]] = "released" /\ told[subject[c]] = 0
      BY <1>3, <2>1 DEF Underway, Winner
    <3>2. told' = [told EXCEPT ![subject[c]] = 1]
      BY <1>3, <2>1, <3>1 DEF Answer, TypeOK
    <3> QED  BY <1>3, <3>1, <3>2 DEF Promise!Tell
  <2>2. CASE wrote[c] # "released"
    BY <1>3, <2>2 DEF Answer
  <2> QED  BY <2>1, <2>2
<1>4. ASSUME NEW c \in Calls, MirrorWrite(c) \/ MirrorFails(c)
      PROVE  UNCHANGED <<records, told>> \/ \E i \in Ids : Promise!Tell(i)
  BY <1>3, <1>4 DEF MirrorWrite, MirrorFails
<1>5. ASSUME NEW c \in Calls, MirrorRead(c) \/ MirrorTruncate(c)
      PROVE  UNCHANGED <<records, told>>
  BY <1>5 DEF MirrorRead, MirrorTruncate
<1>6. CASE Crash \/ UNCHANGED vars
  BY <1>6 DEF Crash, vars
<1> QED  BY <1>1, <1>2, <1>4, <1>5, <1>6 DEF Next, Promise!Next

(* KeepsPromise: an escrow is released once and one caller at most is told *)
(* so, however calls, failing statements and crashes interleave.           *)
THEOREM Refinement == Spec => KeepsPromise
<1>1. Init => Promise!Init
  BY DEF Init, Promise!Init
<1>2. PromiseInv /\ [Next]_vars => [Promise!Next]_<<records, told>>
  BY StepRefines
<1> QED  BY <1>1, <1>2, PromiseInvHolds, PTL DEF Spec, KeepsPromise, Promise!Spec
(* Every version of the mirror, on disk or in a call's hands, trails the   *)
(* authoritative table: a pending row may be old, a released one is not.   *)
Trails(rows) ==
  \A i \in DOMAIN rows :
    rows[i] = "pending" \/ (rows[i] = "released" /\ records[i] = "released")
Settles == \A i \in Ids : unified[i] = "SETTLED" => records[i] = "released"
Trailing == /\ mirror # Torn => Trails(mirror)
            /\ \A c \in Calls : Trails(copy[c])

LedgerInv == PromiseInv /\ Settles /\ Trailing /\ TablesAgree

LEMMA InitLedger == Init => LedgerInv
<1> SUFFICES ASSUME Init PROVE LedgerInv
  OBVIOUS
<1>1. Trails(NoRows)
  BY DEF Trails, NoRows
<1>2. Settles /\ Trailing /\ TablesAgree
  BY <1>1 DEF Init, Settles, Trailing, TablesAgree
<1> QED  BY <1>2, InitPromise DEF LedgerInv

(* Where the records only move on to "released", what trailed them trails. *)
LEMMA TrailsOn ==
  ASSUME TypeOK, NEW rows, Trails(rows),
         \A i \in DOMAIN records : records[i] = "released" => records'[i] = "released",
         DOMAIN rows \subseteq Ids
  PROVE  \A i \in DOMAIN rows :
           rows[i] = "pending" \/ (rows[i] = "released" /\ records'[i] = "released")
  BY DEF Trails, TypeOK

LEMMA LedgerStep == LedgerInv /\ [Next]_vars => LedgerInv'
<1> SUFFICES ASSUME LedgerInv, [Next]_vars PROVE LedgerInv'
  OBVIOUS
<1> USE FaultsAssumption DEF LedgerInv
<1>0. PromiseInv' /\ TypeOK
  BY PromiseStep DEF PromiseInv
<1>1. ASSUME NEW c \in Calls, NEW i \in Ids, NEW s \in {"pending", "released"},
             Persist(c, i, s),
             \/ s = "pending" /\ records[i] = "none"
             \/ s = "released" /\ records[i] = "pending"
      PROVE  LedgerInv'
  <2>1. /\ records' = [records EXCEPT ![i] = s] /\ UNCHANGED <<mirror, copy>>
        /\ unified' = [unified EXCEPT ![i] = Unified(s)] \/ UNCHANGED unified
    BY <1>1 DEF Persist
  <2>2. \A j \in DOMAIN records : records[j] = "released" => records'[j] = "released"
    BY <1>1, <2>1
  <2>3. Trailing'
    <3>1. mirror # Torn => Trails(mirror)'
      BY <1>0, <2>1, <2>2, TrailsOn DEF Trailing, Trails, TypeOK, IsRows
    <3>2. ASSUME NEW d \in Calls PROVE Trails(copy[d])'
      BY <1>0, <2>1, <2>2, TrailsOn DEF Trailing, Trails, TypeOK, IsRows
    <3> QED  BY <2>1, <3>1, <3>2 DEF Trailing
  <2>4. Settles'
    BY <1>0, <1>1, <2>1 DEF Settles, TypeOK, Unified
  <2>5. TablesAgree'
    <3>1. CASE faults' = 0
      <4>1. faults = 0 /\ unified' = [unified EXCEPT ![i] = Unified(s)]
        BY <1>0, <1>1, <3>1 DEF Persist, TypeOK
      <4> QED  BY <1>0, <1>1, <2>1, <4>1 DEF TablesAgree, TypeOK, Unified
    <3> QED  BY <3>1 DEF TablesAgree
  <2> QED  BY <1>0, <2>3, <2>4, <2>5
<1>2. ASSUME NEW c \in Calls, NEW i \in Ids, Create(c, i) PROVE LedgerInv'
  BY <1>1, <1>2 DEF Create
<1>3. ASSUME NEW c \in Calls, NEW i \in Ids, Release(c, i) PROVE LedgerInv'
  BY <1>1, <1>3 DEF Release, Releasable
<1>4. ASSUME UNCHANGED <<records, unified>>, faults' = faults \/ faults' = faults + 1
      PROVE  Settles' /\ TablesAgree'
  BY <1>0, <1>4 DEF Settles, TablesAgree, TypeOK
<1>5. ASSUME NEW c \in Calls, MirrorRead(c) PROVE LedgerInv'
  <2>1. /\ wrote[c] \in {"pending", "released"} /\ subject[c] \in Ids
        /\ wrote[c] = "released" => records[subject[c]] = "released"
    BY <1>5 DEF MirrorRead, PromiseInv, Underway, Winner
  <2> DEFINE seen == IF mirror = Torn THEN NoRows ELSE mirror
  <2>2. Trails(seen)
    BY DEF Trailing, Trails, NoRows
  <2>3. Trails(Put(seen, subject[c], wrote[c]))
    BY <2>1, <2>2 DEF Trails, Put
  <2>4. /\ UNCHANGED <<records, unified, mirror, faults>>
        /\ copy' = [copy EXCEPT ![c] = Put(seen, subject[c], wrote[c])]
    BY <1>5 DEF MirrorRead
  <2>5. \A d \in Calls : Trails(copy'[d])
    BY <1>0, <2>3, <2>4 DEF Trailing, TypeOK
  <2>6. Trailing'
    BY <2>4, <2>5 DEF Trailing, Trails
  <2> QED  BY <1>0, <1>4, <2>4, <2>6
<1>6. ASSUME NEW c \in Calls, MirrorTruncate(c) PROVE LedgerInv'
  <2>1. UNCHANGED <<records, unified, copy, faults>> /\ mirror' = Torn
    BY <1>6 DEF MirrorTruncate
  <2>2. Trailing'
    BY <2>1 DEF Trailing, Trails
  <2> QED  BY <1>0, <1>4, <2>1, <2>2
<1>7. ASSUME NEW c \in Calls, MirrorWrite(c) \/ MirrorFails(c) PROVE LedgerInv'
  <2>1. /\ UNCHANGED <<records, unified>> /\ copy' = [copy EXCEPT ![c] = NoRows]
        /\ mirror' \in {mirror, copy[c], Torn}
        /\ faults' = faults \/ faults' = faults + 1
    BY <1>7 DEF MirrorWrite, MirrorFails, Answer
  <2>2. Trails(NoRows)
    BY DEF Trails, NoRows
  <2>3. (mirror' # Torn => Trails(mirror')) /\ \A d \in Calls : Trails(copy'[d])
    BY <1>0, <2>1, <2>2 DEF Trailing, TypeOK
  <2>4. Trailing'
    BY <2>1, <2>3 DEF Trailing, Trails
  <2> QED  BY <1>0, <1>4, <2>1, <2>4
<1>8. CASE Crash
  <2>1. /\ UNCHANGED <<records, unified, mirror>> /\ faults' = faults + 1
        /\ copy' = [c \in Calls |-> NoRows]
    BY <1>8 DEF Crash
  <2>2. Trails(NoRows)
    BY DEF Trails, NoRows
  <2>3. Trailing'
    BY <2>1, <2>2 DEF Trailing, Trails
  <2> QED  BY <1>0, <1>4, <2>1, <2>3
<1>9. CASE UNCHANGED vars
  BY <1>0, <1>9 DEF vars, Settles, Trailing, Trails, TablesAgree
<1> QED  BY <1>2, <1>3, <1>5, <1>6, <1>7, <1>8, <1>9 DEF Next

LEMMA LedgerInvHolds == Spec => []LedgerInv
  BY InitLedger, LedgerStep, PTL DEF Spec

(* RecordsLead: no table and no version of the mirror shows a release that *)
(* escrow_records does not hold, whatever stale copies are written back.   *)
THEOREM RecordsAlwaysLead == Spec => []RecordsLead
<1>1. LedgerInv => RecordsLead
  BY DEF LedgerInv, PromiseInv, RecordsLead, Settles, Trailing, Trails, TypeOK
<1> QED  BY <1>1, LedgerInvHolds, PTL

(* TablesAgree: without a fault the two tables tell the same, at each step.*)
THEOREM TablesInStep == Spec => []TablesAgree
<1>1. LedgerInv => TablesAgree
  BY DEF LedgerInv
<1> QED  BY <1>1, LedgerInvHolds, PTL

-----------------------------------------------------------------------------
(* The register.  A row counts against the badge it was certified with:    *)
(* what is left of it is at least what was posted less what was slashed.   *)
Registers == UNION {[H -> Records] : H \in SUBSET Hosts}
Badge     == [host : Hosts, bond : Nat, until : Nat]
Calling   == [does : {"nothing", "certify", "slash"},
              pc : {"idle", "reads", "opens", "fills", "mixes"},
              host : Hosts \cup {Blank}, amount : Nat,
              seen : {Blank} \cup Grades \cup Records, rows : Registers]

SellerTypes ==
  /\ queued \in BOOLEAN /\ date \in Nat
  /\ sellers = Blank \/ sellers \in Registers
  /\ teller \in [Tellers -> Calling]
  /\ posted \in [DOMAIN posted -> Badge] /\ DOMAIN posted \subseteq Badges
  /\ slashed \in [DOMAIN posted -> Nat]
  /\ \A b \in DOMAIN posted : slashed[b] <= posted[b].bond

(* What the row of host h tells, n being slashed off it but not yet noted. *)
Owed(r, n, p, w) == p[r.badge].bond - w[r.badge] - n
Told(r, h, p) == /\ r.badge \in DOMAIN p /\ p[r.badge].host = h
                 /\ r.bond = p[r.badge].bond /\ r.until = p[r.badge].until /\ r.left <= r.bond
Floor(r, n, p, w) == Owed(r, n, p, w) <= r.left

(* What a call has slashed in its copy of a row, and not yet noted.        *)
Due(call, h) == IF call.does = "slash" /\ call.host = h THEN WrittenOff(call) ELSE 0
Version(rows, p, w) == \A h \in DOMAIN rows : Told(rows[h], h, p) /\ Floor(rows[h], 0, p, w)
Editing(call) == call.pc \in {"opens", "fills", "mixes"}
Copy(call, p, w) ==
  /\ call.does \in {"certify", "slash"} /\ call.host \in DOMAIN call.rows
  /\ \A h \in DOMAIN call.rows : Told(call.rows[h], h, p)
  /\ \A h \in DOMAIN call.rows :
       (call.does = "slash" => h # call.host) => Floor(call.rows[h], 0, p, w)
  /\ call.does = "slash" =>
       /\ call.seen \in Records /\ Told(call.seen, call.host, p) /\ Floor(call.seen, 0, p, w)
       /\ call.rows[call.host].badge = call.seen.badge
       /\ call.rows[call.host].left = call.seen.left - WrittenOff(call)

Asking(call) ==
  /\ call.pc = "idle" <=> call = Off
  /\ call.pc = "reads" => /\ call.host \in Hosts /\ call.does \in {"certify", "slash"}
                          /\ call.does = "certify" => call.seen \in Grades

BondsInv == /\ SellerTypes
            /\ Version(Rows(sellers), posted, slashed)
            /\ \A t \in Tellers : Asking(teller[t])
                                  /\ (Editing(teller[t]) => Copy(teller[t], posted, slashed))

(* One call at a time: the register tells exactly what is left, and every  *)
(* host that ever posted a bond is in it until its last badge expires.     *)
Exact(rows, call, p, w) ==
  \A h \in DOMAIN rows : rows[h].left = Owed(rows[h], Due(call, h), p, w)
Complete(rows, p) ==
  \A b \in DOMAIN p : p[b].host \in DOMAIN rows /\ p[b].until <= rows[p[b].host].until

QueuedBonds ==
  /\ \A t, u \in Tellers : teller[t] # Off /\ teller[u] # Off => t = u
  /\ \A t \in Tellers : teller[t].pc # "mixes"
  /\ Exact(Rows(sellers), Off, posted, slashed)
  /\ (\A t \in Tellers : teller[t].pc # "fills") => sellers # Blank
  /\ sellers # Blank /\ (\A t \in Tellers : ~Editing(teller[t])) => Complete(sellers, posted)
  /\ \A t \in Tellers : Editing(teller[t]) =>
       Exact(teller[t].rows, teller[t], posted, slashed) /\ Complete(teller[t].rows, posted)
  /\ \A b \in DOMAIN posted : posted[b].until <= date + TermOfBadge

QueuedInv == queued => QueuedBonds

LEMMA NoSellersTyped == NoSellers \in Registers /\ DOMAIN NoSellers = {}
  BY DEF NoSellers, Registers

LEMMA RegistersTyped ==
  ASSUME NEW rows \in Registers
  PROVE  /\ rows # Blank /\ DOMAIN rows \subseteq Hosts
         /\ rows = [h \in DOMAIN rows |-> rows[h]]
         /\ \A h \in DOMAIN rows : rows[h] \in Records
  BY BlankAssumption DEF Registers

LEMMA RowsTyped == SellerTypes => Rows(sellers) \in Registers
  BY NoSellersTyped DEF SellerTypes, Rows

LEMMA SetRowTyped ==
  ASSUME NEW rows \in Registers, NEW h \in Hosts, NEW r \in Records
  PROVE  /\ SetRow(rows, h, r) \in Registers
         /\ DOMAIN SetRow(rows, h, r) = DOMAIN rows \cup {h}
         /\ SetRow(rows, h, r)[h] = r
         /\ \A g \in DOMAIN rows \ {h} : SetRow(rows, h, r)[g] = rows[g]
<1> DEFINE D == DOMAIN rows \cup {h}
           f == SetRow(rows, h, r)
<1>1. D \in SUBSET Hosts /\ \A g \in DOMAIN rows : rows[g] \in Records
  BY RegistersTyped
<1>2. f \in [D -> Records]
  BY <1>1 DEF SetRow
<1> QED  BY <1>1, <1>2 DEF Registers, SetRow

LEMMA OffTyped == Off \in Calling
  BY NoSellersTyped DEF Off, Calling

LEMMA GradesTyped == \A n : KymGrade(n) \in Grades
  BY DEF KymGrade, Grades

(* Slashing a row takes off it what the call will note.                    *)
LEMMA SlashedTyped ==
  ASSUME NEW r \in Records, NEW n \in Nat
  PROVE  /\ Slashing(r, n) \in Records
         /\ Slashing(r, n).badge = r.badge /\ Slashing(r, n).bond = r.bond
         /\ Slashing(r, n).until = r.until
         /\ Slashing(r, n).left = r.left - Least(n, r.left)
         /\ Least(n, r.left) \in Nat /\ Least(n, r.left) <= r.left
<1>1. Most(0, r.left - n) = r.left - Least(n, r.left) /\ Most(0, r.left - n) \in Nat
  BY DEF Most, Least, Records
<1>2. Least(n, r.left) \in Nat /\ Least(n, r.left) <= r.left
  BY DEF Least, Records
<1> QED  BY <1>1, <1>2 DEF Slashing, SlashedRow, Records

(* More slashed, or more posted, lowers no floor.                          *)
LEMMA FloorHolds ==
  ASSUME NEW r \in Records, NEW p, NEW q, NEW w, NEW x, NEW h, Told(r, h, p), Floor(r, 0, p, w),
         p \in [DOMAIN p -> Badge], \A b \in DOMAIN p : b \in DOMAIN q /\ q[b] = p[b],
         \A b \in DOMAIN p : w[b] \in Nat /\ x[b] \in Nat /\ w[b] <= x[b]
  PROVE  Told(r, h, q) /\ Floor(r, 0, q, x)
<1>1. r.badge \in DOMAIN p /\ p[r.badge].bond \in Nat /\ r.left \in Nat
  BY DEF Told, Badge, Records
<1> QED  BY <1>1 DEF Told, Floor, Owed

LEMMA VersionHolds ==
  ASSUME NEW rows \in Registers, NEW p, NEW q, NEW w, NEW x, Version(rows, p, w),
         p \in [DOMAIN p -> Badge], \A b \in DOMAIN p : b \in DOMAIN q /\ q[b] = p[b],
         \A b \in DOMAIN p : w[b] \in Nat /\ x[b] \in Nat /\ w[b] <= x[b]
  PROVE  Version(rows, q, x)
<1> SUFFICES ASSUME NEW h \in DOMAIN rows PROVE Told(rows[h], h, q) /\ Floor(rows[h], 0, q, x)
  BY DEF Version
<1>1. rows[h] \in Records /\ Told(rows[h], h, p) /\ Floor(rows[h], 0, p, w)
  BY RegistersTyped DEF Version
<1> QED  BY <1>1, FloorHolds

LEMMA CopyHolds ==
  ASSUME NEW call \in Calling, NEW p, NEW q, NEW w, NEW x, Copy(call, p, w),
         p \in [DOMAIN p -> Badge], \A b \in DOMAIN p : b \in DOMAIN q /\ q[b] = p[b],
         \A b \in DOMAIN p : w[b] \in Nat /\ x[b] \in Nat /\ w[b] <= x[b]
  PROVE  Copy(call, q, x)
<1>1. call.rows \in Registers /\ \A h \in DOMAIN call.rows : call.rows[h] \in Records
  BY RegistersTyped DEF Calling
<1>2. ASSUME NEW h \in DOMAIN call.rows PROVE Told(call.rows[h], h, q)
  BY <1>2 DEF Copy, Told
<1>3. ASSUME NEW h \in DOMAIN call.rows, call.does = "slash" => h # call.host
      PROVE  Floor(call.rows[h], 0, q, x)
  <2>1. Told(call.rows[h], h, p) /\ Floor(call.rows[h], 0, p, w)
    BY <1>3 DEF Copy
  <2> QED  BY <1>1, <2>1, FloorHolds
<1>4. call.does = "slash" => Told(call.seen, call.host, q) /\ Floor(call.seen, 0, q, x)
  BY FloorHolds DEF Copy
<1> QED  BY <1>2, <1>3, <1>4 DEF Copy

LEMMA InitBonds == SellerInit => BondsInv /\ QueuedInv
<1> SUFFICES ASSUME SellerInit PROVE BondsInv /\ QueuedBonds
  BY DEF QueuedInv
<1>1. /\ DOMAIN posted = {} /\ DOMAIN slashed = {} /\ sellers = NoSellers
      /\ Rows(sellers) = NoSellers /\ \A t \in Tellers : teller[t] = Off
  BY DEF SellerInit, Rows, NoSellers
<1>2. SellerTypes
  BY <1>1, OffTyped, NoSellersTyped DEF SellerInit, SellerTypes
<1>3. Off.pc = "idle"
  BY DEF Off
<1>4. Version(Rows(sellers), posted, slashed) /\ Exact(Rows(sellers), Off, posted, slashed)
  BY <1>1, NoSellersTyped DEF Version, Exact
<1>5. Complete(sellers, posted)
  BY <1>1 DEF Complete
<1> QED
  BY <1>1, <1>2, <1>3, <1>4, <1>5, NoSellersTyped, RegistersTyped
     DEF BondsInv, QueuedBonds, Asking, Editing

LEMMA BlankVersion == \A p, w : Version(Rows(Blank), p, w) /\ DOMAIN Rows(Blank) = {}
  BY NoSellersTyped DEF Version, Rows

(* One lane's call changes; badges are only added, and nothing is unslashed. *)
LEMMA ServeStep ==
  ASSUME BondsInv, NEW t \in Tellers, NEW call \in Calling, Serve(t, call), Asking(call),
         SellerTypes', \A b \in DOMAIN posted : b \in DOMAIN posted' /\ posted'[b] = posted[b],
         \A b \in DOMAIN posted : slashed[b] <= slashed'[b],
         Editing(call) => Copy(call, posted', slashed'),
         \/ sellers' \in {sellers, Blank}
         \/ sellers' \in Registers /\ Version(sellers', posted', slashed')
  PROVE  BondsInv'
<1>0. /\ posted \in [DOMAIN posted -> Badge]
      /\ \A b \in DOMAIN posted : slashed[b] \in Nat /\ slashed'[b] \in Nat /\ slashed[b] <= slashed'[b]
  BY DEF BondsInv, SellerTypes
<1>1. Version(Rows(sellers'), posted', slashed')
  <2>1. CASE sellers' = Blank
    BY <2>1, BlankVersion
  <2>2. CASE sellers' = sellers
    <3>1. Rows(sellers) \in Registers /\ Version(Rows(sellers), posted, slashed)
      BY RowsTyped DEF BondsInv
    <3> QED  BY <1>0, <2>2, <3>1, VersionHolds
  <2>3. CASE sellers' \in Registers /\ Version(sellers', posted', slashed')
    BY <2>3, RegistersTyped DEF Rows
  <2> QED  BY <2>1, <2>2, <2>3
<1>2. ASSUME NEW u \in Tellers
      PROVE  Asking(teller'[u]) /\ (Editing(teller'[u]) => Copy(teller'[u], posted', slashed'))
  <2>1. CASE u = t
    BY <2>1 DEF Serve, BondsInv, SellerTypes
  <2>2. CASE u # t
    <3>1. teller'[u] = teller[u] /\ teller[u] \in Calling
      BY <2>2 DEF Serve, BondsInv, SellerTypes
    <3>2. Asking(teller[u]) /\ (Editing(teller[u]) => Copy(teller[u], posted, slashed))
      BY DEF BondsInv
    <3> QED  BY <1>0, <3>1, <3>2, CopyHolds
  <2> QED  BY <2>1, <2>2
<1>3. Version(Rows(sellers), posted, slashed)'
  BY <1>1
<1>4. \A u \in Tellers : (Asking(teller[u]) /\ (Editing(teller[u]) => Copy(teller[u], posted, slashed)))'
  BY <1>2
<1> QED  BY <1>3, <1>4 DEF BondsInv

LEMMA ServeTypes ==
  ASSUME SellerTypes, NEW t \in Tellers, NEW call \in Calling, Serve(t, call), Keeps,
         sellers' \in {sellers, Blank}
  PROVE  SellerTypes'
  BY DEF SellerTypes, Serve, Keeps

LEMMA CertifiedTyped ==
  ASSUME SellerTypes, NEW h, Bonded(Certified(sellers, h))
  PROVE  Certified(sellers, h) \in Records
<1>1. h \in DOMAIN Rows(sellers) /\ Certified(sellers, h) = sellers[h] /\ sellers # Blank
  BY NoSellersTyped DEF Certified, Bonded, Rows
<1> QED  BY <1>1, RegistersTyped DEF SellerTypes, Rows

(* A call that only starts to ask, when nobody else is served.             *)
LEMMA QueuedAsks ==
  ASSUME SellerTypes, QueuedInv, NEW t \in Tellers, NEW call, Serve(t, call), MayStart(t), Keeps,
         sellers' = sellers, call.pc = "reads"
  PROVE  QueuedInv'
<1> SUFFICES ASSUME queued PROVE QueuedBonds'
  BY DEF QueuedInv, Keeps
<1>1. /\ QueuedBonds /\ UNCHANGED <<sellers, posted, slashed, date>>
      /\ \A u \in Tellers : teller[u] = Off
      /\ teller'[t] = call /\ \A u \in Tellers \ {t} : teller'[u] = Off
  BY DEF QueuedInv, Keeps, MayStart, Serve, SellerTypes
<1>2. \A u \in Tellers : /\ ~Editing(teller[u]) /\ ~Editing(teller'[u])
                         /\ teller'[u].pc \notin {"fills", "mixes"}
                         /\ teller[u].pc \notin {"fills", "mixes"}
  BY <1>1 DEF Editing, Off
<1> QED  BY <1>1, <1>2 DEF QueuedBonds

LEMMA CertifyBonds ==
  ASSUME BondsInv, NEW t \in Tellers, NEW h \in Hosts, NEW m \in Merchants, NEW n \in Bonds,
         Certify(t, h, m, n)
  PROVE  BondsInv' /\ (QueuedInv => QueuedInv')
<1> DEFINE g == KymGrade(KymScore(m))
           call == [Off EXCEPT !.does = "certify", !.pc = "reads", !.host = h, !.amount = n, !.seen = g]
<1>1. g \in Grades
  BY GradesTyped
<1>2. /\ Serve(t, call) /\ Keeps /\ sellers' = sellers /\ MayStart(t)
  BY DEF Certify
<1> HIDE DEF g
<1>3. /\ call \in Calling /\ Asking(call) /\ ~Editing(call) /\ call.pc = "reads" /\ call # Off
  BY <1>1, OffTyped, AmountsAssumption DEF Calling, Off, Asking, Editing
<1> HIDE DEF call
<1>4. SellerTypes'
  BY <1>2, <1>3, ServeTypes DEF BondsInv
<1>5. BondsInv'
  BY <1>2, <1>3, <1>4, ServeStep DEF Keeps, BondsInv, SellerTypes
<1>6. ASSUME QueuedInv PROVE QueuedInv'
  BY <1>2, <1>3, <1>6, QueuedAsks DEF BondsInv
<1> QED  BY <1>5, <1>6

LEMMA SlashBonds ==
  ASSUME BondsInv, NEW t \in Tellers, NEW h \in Hosts, NEW n \in Slashes, NEW semantic \in BOOLEAN,
         Slash(t, h, n, semantic)
  PROVE  BondsInv' /\ (QueuedInv => QueuedInv')
<1> DEFINE x == IF semantic THEN Least(n, Certified(sellers, h).left) ELSE n
           call == [Off EXCEPT !.does = "slash", !.pc = "reads", !.host = h, !.amount = x]
<1>1. x \in Nat
  <2>1. Certified(sellers, h) \in Records
    BY CertifiedTyped DEF Slash, BondsInv
  <2> QED  BY <2>1, AmountsAssumption DEF Least, Records
<1>2. /\ Serve(t, call) /\ Keeps /\ sellers' = sellers /\ MayStart(t)
  BY DEF Slash
<1> HIDE DEF x
<1>3. /\ call \in Calling /\ Asking(call) /\ ~Editing(call) /\ call.pc = "reads"
  BY <1>1, OffTyped DEF Calling, Off, Asking, Editing
<1> HIDE DEF call
<1>4. SellerTypes'
  BY <1>2, <1>3, ServeTypes DEF BondsInv
<1>5. BondsInv'
  BY <1>2, <1>3, <1>4, ServeStep DEF Keeps, BondsInv, SellerTypes
<1>6. ASSUME QueuedInv PROVE QueuedInv'
  BY <1>2, <1>3, <1>6, QueuedAsks DEF BondsInv
<1> QED  BY <1>5, <1>6

(* One lane goes on alone, and its edited copy is exact and complete.      *)
LEMMA QueuedEdits ==
  ASSUME SellerTypes, BondsInv, QueuedInv, NEW t \in Tellers, teller[t] # Off, NEW call, Serve(t, call),
         queued' = queued, date' = date,
         queued => /\ call.pc \in {"idle", "reads", "opens", "fills"}
                   /\ Exact(Rows(sellers'), Off, posted', slashed')
                   /\ call.pc = "fills" \/ sellers' # Blank
                   /\ ~Editing(call) => Complete(sellers', posted')
                   /\ Editing(call) => Exact(call.rows, call, posted', slashed') /\ Complete(call.rows, posted')
                   /\ \A b \in DOMAIN posted' : posted'[b].until <= date + TermOfBadge
  PROVE  QueuedInv'
<1> SUFFICES ASSUME queued PROVE QueuedBonds'
  BY DEF QueuedInv
<1>1. /\ QueuedBonds /\ \A u \in Tellers \ {t} : teller[u] = Off
      /\ teller'[t] = call /\ \A u \in Tellers \ {t} : teller'[u] = Off
  BY DEF QueuedInv, QueuedBonds, Serve, SellerTypes
<1>2. Off.pc = "idle"
  BY DEF Off
<1>3. /\ \A u, v \in Tellers : teller'[u] # Off /\ teller'[v] # Off => u = v
      /\ \A u \in Tellers : teller'[u].pc # "mixes"
      /\ Exact(Rows(sellers'), Off, posted', slashed')
      /\ (\A u \in Tellers : teller'[u].pc # "fills") => sellers' # Blank
      /\ \A b \in DOMAIN posted' : posted'[b].until <= date' + TermOfBadge
  BY <1>1, <1>2
<1>4. sellers' # Blank /\ (\A u \in Tellers : ~Editing(teller'[u])) => Complete(sellers', posted')
  BY <1>1
<1>5. ASSUME NEW u \in Tellers, Editing(teller'[u])
      PROVE  Exact(teller'[u].rows, teller'[u], posted', slashed') /\ Complete(teller'[u].rows, posted')
  BY <1>1, <1>2, <1>5 DEF Editing
<1> QED
  <2>1. Exact(Rows(sellers), Off, posted, slashed)'
    BY <1>3
  <2>2. (sellers # Blank /\ (\A u \in Tellers : ~Editing(teller[u])) => Complete(sellers, posted))'
    BY <1>4
  <2>3. (\A u \in Tellers : Editing(teller[u]) =>
           Exact(teller[u].rows, teller[u], posted, slashed) /\ Complete(teller[u].rows, posted))'
    BY <1>5
  <2> QED  BY <1>3, <2>1, <2>2, <2>3 DEF QueuedBonds

(* Who reads is alone and finds a complete and exact register.             *)
LEMMA QueuedFinds ==
  ASSUME SellerTypes, QueuedInv, queued, NEW t \in Tellers, teller[t].pc = "reads"
  PROVE  /\ sellers # Blank /\ Rows(sellers) = sellers /\ sellers \in Registers
         /\ Exact(sellers, Off, posted, slashed) /\ Complete(sellers, posted)
         /\ \A b \in DOMAIN posted : posted[b].until <= date + TermOfBadge
<1>1. QueuedBonds /\ \A u \in Tellers : teller[u] # Off => u = t
  BY DEF QueuedInv, QueuedBonds, Off
<1>2. \A u \in Tellers : teller[u].pc # "fills" /\ ~Editing(teller[u])
  BY <1>1 DEF Off, Editing
<1> QED  BY <1>1, <1>2 DEF QueuedBonds, Rows, SellerTypes

(* A certification adds a badge nobody has, and its row to the copy.       *)
LEMMA ReadCertify ==
  ASSUME BondsInv, NEW t \in Tellers, teller[t].pc = "reads", teller[t].does = "certify",
         NEW b \in Badges \ DOMAIN posted, NEW p, NEW w, NEW call,
         p = [c \in DOMAIN posted \cup {b} |->
                IF c = b THEN [host |-> teller[t].host, bond |-> teller[t].amount, until |-> date + TermOfBadge]
                         ELSE posted[c]],
         w = [c \in DOMAIN p |-> IF c = b THEN 0 ELSE slashed[c]],
         call = [teller[t] EXCEPT !.pc = "opens",
                   !.rows = SetRow(Rows(sellers), teller[t].host, NewRow(b, teller[t].seen, teller[t].amount))],
         posted' = p, slashed' = w, Serve(t, call), UNCHANGED <<queued, date, sellers>>
  PROVE  BondsInv' /\ (QueuedInv => QueuedInv')
<1> DEFINE h == teller[t].host
           n == teller[t].amount
           g == teller[t].seen
           r == NewRow(b, g, n)
           rows == Rows(sellers)
           edited == SetRow(rows, h, r)
<1>1. /\ SellerTypes /\ h \in Hosts /\ n \in Nat /\ g \in Grades /\ date + TermOfBadge \in Nat
      /\ teller[t] \in Calling /\ teller[t] # Off
  BY AmountsAssumption DEF BondsInv, SellerTypes, Calling, Asking, Off
<1>2. /\ r \in Records /\ r.badge = b /\ r.bond = n /\ r.left = n /\ r.until = date + TermOfBadge
  BY <1>1 DEF NewRow, Records
<1>3. rows \in Registers /\ Version(rows, posted, slashed)
  BY <1>1, RowsTyped DEF BondsInv
<1> HIDE DEF r, rows, h, n, g
<1>4. /\ edited \in Registers /\ DOMAIN edited = DOMAIN rows \cup {h} /\ edited[h] = r
      /\ \A k \in DOMAIN rows \ {h} : edited[k] = rows[k]
  <2>1. h \in Hosts /\ r \in Records /\ rows \in Registers
    BY <1>1, <1>2, <1>3
  <2> QED  BY ONLY <2>1, SetRowTyped, ZenonT(60)
<1> HIDE DEF edited
<1>5. /\ call \in Calling /\ call.pc = "opens" /\ call.does = "certify" /\ call.host = h
      /\ call.rows = edited /\ call # Off
  BY <1>1, <1>4 DEF Calling, edited, r, rows, h, n, g, Off
<1>6. /\ DOMAIN p = DOMAIN posted \cup {b} /\ p[b] = [host |-> h, bond |-> n, until |-> date + TermOfBadge]
      /\ \A c \in DOMAIN posted : p[c] = posted[c] /\ w[c] = slashed[c] /\ c # b
      /\ w[b] = 0 /\ DOMAIN w = DOMAIN p
  BY DEF h, n
<1>7. SellerTypes'
  <2>1. p \in [DOMAIN p -> Badge] /\ DOMAIN p \subseteq Badges
    BY <1>1, <1>6 DEF SellerTypes, Badge
  <2>2. w \in [DOMAIN p -> Nat] /\ \A c \in DOMAIN p : w[c] <= p[c].bond
    BY <1>1, <1>6 DEF SellerTypes
  <2> QED  BY <1>1, <1>5, <2>1, <2>2 DEF SellerTypes, Serve
<1>8. \A k \in DOMAIN edited : Told(edited[k], k, p) /\ Floor(edited[k], 0, p, w)
  <2> SUFFICES ASSUME NEW k \in DOMAIN edited PROVE Told(edited[k], k, p) /\ Floor(edited[k], 0, p, w)
    OBVIOUS
  <2>1. CASE k = h
    BY <1>1, <1>2, <1>4, <1>6, <2>1 DEF Told, Floor, Owed
  <2>2. CASE k # h
    <3>1. k \in DOMAIN rows /\ edited[k] = rows[k] /\ rows[k] \in Records
      BY <1>3, <1>4, <2>2, RegistersTyped
    <3>2. Told(rows[k], k, posted) /\ Floor(rows[k], 0, posted, slashed)
      BY <1>3, <3>1 DEF Version
    <3> QED  BY <1>6, <3>1, <3>2 DEF Told, Floor, Owed
  <2> QED  BY <2>1, <2>2
<1>9. Copy(call, p, w) /\ Asking(call)
  BY <1>4, <1>5, <1>8 DEF Copy, Asking
<1>10. BondsInv'
  <2>1. \A c \in DOMAIN posted : c \in DOMAIN posted' /\ posted'[c] = posted[c]
    BY <1>6
  <2>2. \A c \in DOMAIN posted : slashed[c] <= slashed'[c]
    BY <1>1, <1>6 DEF SellerTypes
  <2>3. Copy(call, posted', slashed') /\ sellers' = sellers
    BY <1>9
  <2> QED  BY <1>5, <1>7, <1>9, <2>1, <2>2, <2>3, ServeStep, Zenon
<1>11. ASSUME QueuedInv PROVE QueuedInv'
  <2>1. ASSUME queued
        PROVE  /\ Exact(Rows(sellers), Off, p, w) /\ sellers # Blank
               /\ Exact(edited, call, p, w) /\ Complete(edited, p)
               /\ \A c \in DOMAIN p : p[c].until <= date + TermOfBadge
    <3>1. /\ sellers # Blank /\ rows = sellers
          /\ Exact(rows, Off, posted, slashed) /\ Complete(rows, posted)
          /\ \A c \in DOMAIN posted : posted[c].until <= date + TermOfBadge
      BY <1>1, <1>11, <2>1, QueuedFinds DEF rows
    <3>2. \A k \in DOMAIN rows : Due(Off, k) = 0 /\ rows[k].badge \in DOMAIN posted
      BY <1>3 DEF Due, Off, Version, Told
    <3>3. Exact(rows, Off, p, w)
      BY <1>6, <3>1, <3>2 DEF Exact, Owed
    <3>4. Exact(edited, call, p, w)
      <4>1. \A k : Due(call, k) = 0
        BY <1>5 DEF Due
      <4>2. r.left = Owed(r, 0, p, w)
        BY <1>1, <1>2, <1>6 DEF Owed
      <4>3. \A k \in DOMAIN rows : rows[k].left = Owed(rows[k], 0, p, w)
        BY <3>2, <3>3 DEF Exact
      <4> QED  BY <1>4, <4>1, <4>2, <4>3 DEF Exact
    <3>5. Complete(edited, p)
      <4> SUFFICES ASSUME NEW c \in DOMAIN p
                   PROVE  p[c].host \in DOMAIN edited /\ p[c].until <= edited[p[c].host].until
        BY DEF Complete
      <4>1. CASE c = b
        BY <1>1, <1>2, <1>4, <1>6, <4>1
      <4>2. CASE c # b
        <5>1. /\ c \in DOMAIN posted /\ p[c] = posted[c] /\ posted[c].host \in DOMAIN rows
              /\ posted[c].until <= rows[posted[c].host].until
              /\ posted[c].until <= date + TermOfBadge
          BY <1>6, <3>1, <4>2 DEF Complete
        <5> QED  BY <1>2, <1>4, <5>1
      <4> QED  BY <4>1, <4>2
    <3>6. \A c \in DOMAIN p : p[c].until <= date + TermOfBadge
      BY <1>1, <1>6, <3>1
    <3> QED  BY <3>1, <3>3, <3>4, <3>5, <3>6 DEF rows
  <2> QED  BY <1>1, <1>5, <1>11, <2>1, QueuedEdits DEF Editing
<1> QED  BY <1>10, <1>11

LEMMA ReadSlash ==
  ASSUME BondsInv, NEW t \in Tellers, teller[t].pc = "reads", teller[t].does = "slash",
         teller[t].host \in DOMAIN Rows(sellers), NEW call,
         call = [teller[t] EXCEPT !.pc = "opens", !.seen = Rows(sellers)[teller[t].host],
                   !.rows = SetRow(Rows(sellers), teller[t].host,
                                   Slashing(Rows(sellers)[teller[t].host], teller[t].amount))],
         Serve(t, call), UNCHANGED <<queued, date, sellers, posted, slashed>>
  PROVE  BondsInv' /\ (QueuedInv => QueuedInv')
<1> DEFINE h == teller[t].host
           n == teller[t].amount
           rows == Rows(sellers)
           s == rows[h]
           r == Slashing(s, n)
           edited == SetRow(rows, h, r)
<1>1. /\ SellerTypes /\ h \in Hosts /\ n \in Nat /\ h \in DOMAIN rows
      /\ teller[t] \in Calling /\ teller[t] # Off
  BY DEF BondsInv, SellerTypes, Calling, Asking, Off
<1>2. rows \in Registers /\ Version(rows, posted, slashed) /\ s \in Records
  BY <1>1, RowsTyped, RegistersTyped DEF BondsInv
<1>3. Told(s, h, posted) /\ Floor(s, 0, posted, slashed)
  BY <1>1, <1>2 DEF Version
<1> HIDE DEF s
<1>4. /\ r \in Records /\ r.badge = s.badge /\ r.bond = s.bond /\ r.until = s.until
      /\ r.left = s.left - Least(n, s.left) /\ Least(n, s.left) \in Nat /\ Least(n, s.left) <= s.left
  BY <1>1, <1>2, SlashedTyped
<1> HIDE DEF r, rows, h, n
<1>5. /\ edited \in Registers /\ DOMAIN edited = DOMAIN rows \cup {h} /\ edited[h] = r
      /\ \A k \in DOMAIN rows \ {h} : edited[k] = rows[k]
  BY <1>1, <1>2, <1>4, SetRowTyped
<1> HIDE DEF edited
<1>6. /\ call \in Calling /\ call.pc = "opens" /\ call.does = "slash" /\ call.host = h
      /\ call.rows = edited /\ call.seen = s /\ call.amount = n /\ call # Off
  BY <1>1, <1>2, <1>5 DEF Calling, edited, r, s, rows, h, n, Off
<1>7. SellerTypes'
  BY <1>1, <1>6 DEF SellerTypes, Serve
<1>8. WrittenOff(call) = Least(n, s.left)
  BY <1>6 DEF WrittenOff
<1>9. Copy(call, posted, slashed) /\ Asking(call)
  <2>1. Told(edited[h], h, posted)
    BY <1>2, <1>3, <1>4, <1>5 DEF Told, Records
  <2>2. \A k \in DOMAIN edited \ {h} : Told(edited[k], k, posted) /\ Floor(edited[k], 0, posted, slashed)
    BY <1>2, <1>5 DEF Version
  <2>3. \A k \in DOMAIN edited : Told(edited[k], k, posted)
    BY <2>1, <2>2
  <2>4. h \in DOMAIN edited /\ edited[h].badge = s.badge /\ edited[h].left = s.left - WrittenOff(call)
    BY <1>4, <1>5, <1>8
  <2> QED  BY <1>2, <1>3, <1>6, <2>2, <2>3, <2>4 DEF Copy, Asking, Off
<1>10. BondsInv'
  BY <1>1, <1>6, <1>7, <1>9, ServeStep DEF SellerTypes
<1>11. ASSUME QueuedInv PROVE QueuedInv'
  <2>1. ASSUME queued
        PROVE  /\ Exact(Rows(sellers), Off, posted, slashed) /\ sellers # Blank
               /\ Exact(edited, call, posted, slashed) /\ Complete(edited, posted)
               /\ \A c \in DOMAIN posted : posted[c].until <= date + TermOfBadge
    <3>1. /\ sellers # Blank /\ rows = sellers
          /\ Exact(rows, Off, posted, slashed) /\ Complete(rows, posted)
          /\ \A c \in DOMAIN posted : posted[c].until <= date + TermOfBadge
      BY <1>1, <1>11, <2>1, QueuedFinds DEF rows
    <3>2. \A k \in DOMAIN rows : rows[k].left = Owed(rows[k], 0, posted, slashed)
      BY <3>1 DEF Exact, Due, Off
    <3>3. /\ posted[s.badge].bond \in Nat /\ slashed[s.badge] \in Nat /\ s.left \in Nat
          /\ s.left = Owed(s, 0, posted, slashed)
      BY <1>1, <1>2, <1>3, <3>2 DEF SellerTypes, Badge, Told, Records, s
    <3>4. edited[h].left = Owed(edited[h], Due(call, h), posted, slashed)
      BY <1>4, <1>5, <1>6, <1>8, <3>3 DEF Owed, Due
    <3>5. \A k \in DOMAIN edited \ {h} : edited[k].left = Owed(edited[k], Due(call, k), posted, slashed)
      BY <1>5, <1>6, <3>2 DEF Due
    <3>6. Exact(edited, call, posted, slashed)
      BY <3>4, <3>5 DEF Exact
    <3>7. \A k \in DOMAIN rows : k \in DOMAIN edited /\ edited[k].until = rows[k].until
      BY <1>1, <1>4, <1>5 DEF s
    <3>8. Complete(edited, posted)
      BY <3>1, <3>7 DEF Complete
    <3> QED  BY <3>1, <3>6, <3>8 DEF rows
  <2> QED  BY <1>1, <1>6, <1>11, <2>1, QueuedEdits DEF Editing
<1> QED  BY <1>10, <1>11

(* Only the lane's place changes: its copy stays what it was.              *)
LEMMA CopyMoves ==
  ASSUME NEW call \in Calling, NEW place, NEW p, NEW w, Copy(call, p, w)
  PROVE  Copy([call EXCEPT !.pc = place], p, w)
<1> DEFINE c == [call EXCEPT !.pc = place]
<1>1. /\ c.does = call.does /\ c.host = call.host /\ c.amount = call.amount
      /\ c.seen = call.seen /\ c.rows = call.rows
  BY DEF Calling
<1>2. WrittenOff(c) = WrittenOff(call)
  BY <1>1 DEF WrittenOff
<1> HIDE DEF c
<1>3. Copy(c, p, w)
  BY <1>1, <1>2 DEF Copy
<1> QED  BY <1>3 DEF c

LEMMA ReadNothing ==
  ASSUME BondsInv, NEW t \in Tellers, teller[t].pc = "reads", Serve(t, Off),
         UNCHANGED <<queued, date, sellers, posted, slashed>>
  PROVE  BondsInv' /\ (QueuedInv => QueuedInv')
<1>1. SellerTypes /\ Asking(Off) /\ ~Editing(Off) /\ Off.pc = "idle" /\ teller[t] # Off /\ Off \in Calling
  BY OffTyped DEF Asking, Editing, Off, BondsInv
<1>2. SellerTypes'
  BY <1>1 DEF SellerTypes, Serve
<1>3. BondsInv'
  BY <1>1, <1>2, ServeStep DEF SellerTypes
<1>4. ASSUME QueuedInv PROVE QueuedInv'
  <2>1. ASSUME queued PROVE /\ Exact(Rows(sellers), Off, posted, slashed) /\ sellers # Blank
                            /\ Complete(sellers, posted)
                            /\ \A b \in DOMAIN posted : posted[b].until <= date + TermOfBadge
    BY <1>1, <1>4, <2>1, QueuedFinds
  <2> QED  BY <1>1, <1>4, <2>1, QueuedEdits
<1> QED  BY <1>3, <1>4

LEMMA OpenBonds ==
  ASSUME BondsInv, NEW t \in Tellers, OpenRegister(t)
  PROVE  BondsInv' /\ (QueuedInv => QueuedInv')
<1> DEFINE call == [teller[t] EXCEPT !.pc = "fills"]
<1>1. /\ SellerTypes /\ teller[t] \in Calling /\ teller[t].pc = "opens" /\ teller[t] # Off
      /\ Copy(teller[t], posted, slashed) /\ Serve(t, call) /\ sellers' = Blank /\ Keeps
  BY DEF BondsInv, SellerTypes, OpenRegister, Editing, Off
<1>2. /\ call \in Calling /\ call.pc = "fills" /\ Editing(call) /\ Asking(call)
      /\ call.rows = teller[t].rows /\ \A h : Due(call, h) = Due(teller[t], h)
  BY <1>1 DEF Calling, Editing, Asking, Off, Due, WrittenOff
<1>3. Copy(call, posted, slashed)
  BY <1>1, CopyMoves
<1> HIDE DEF call
<1>4. SellerTypes'
  BY <1>1, <1>2, ServeTypes
<1>5. BondsInv'
  BY <1>1, <1>2, <1>3, <1>4, ServeStep DEF SellerTypes, Keeps
<1>6. ASSUME QueuedInv PROVE QueuedInv'
  <2>1. ASSUME queued PROVE /\ Exact(Rows(Blank), Off, posted, slashed)
                            /\ Exact(call.rows, call, posted, slashed) /\ Complete(call.rows, posted)
                            /\ \A b \in DOMAIN posted : posted[b].until <= date + TermOfBadge
    <3>1. QueuedBonds /\ Editing(teller[t])
      BY <1>1, <1>6, <2>1 DEF QueuedInv, Editing
    <3>2. Exact(teller[t].rows, teller[t], posted, slashed) /\ Complete(teller[t].rows, posted)
      BY <3>1 DEF QueuedBonds
    <3> QED  BY <1>2, <3>1, <3>2, BlankVersion DEF Exact, QueuedBonds
  <2> QED  BY <1>1, <1>2, <1>6, <2>1, QueuedEdits DEF Keeps
<1> QED  BY <1>5, <1>6

(* What a slash writes off is noted against the badge it was taken from.   *)
LEMMA SlashNoted ==
  ASSUME SellerTypes, NEW call \in Calling, Copy(call, posted, slashed), NEW x,
         x = IF call.does = "slash"
             THEN [slashed EXCEPT ![call.seen.badge] = Least(call.seen.bond, @ + WrittenOff(call))]
             ELSE slashed
  PROVE  /\ x \in [DOMAIN posted -> Nat]
         /\ \A b \in DOMAIN posted : slashed[b] <= x[b] /\ x[b] <= posted[b].bond
         /\ call.does # "slash" => x = slashed
         /\ call.does = "slash" =>
              /\ call.seen \in Records /\ call.seen.badge \in DOMAIN posted
              /\ \A b \in DOMAIN posted \ {call.seen.badge} : x[b] = slashed[b]
              /\ x[call.seen.badge] = Least(posted[call.seen.badge].bond,
                                            slashed[call.seen.badge] + WrittenOff(call))
              /\ WrittenOff(call) \in Nat /\ WrittenOff(call) <= call.seen.left
<1>1. CASE call.does # "slash"
  BY <1>1 DEF SellerTypes, Badge
<1>2. CASE call.does = "slash"
  <2>1. /\ call.seen \in Records /\ call.seen.badge \in DOMAIN posted
        /\ call.seen.bond = posted[call.seen.badge].bond /\ call.amount \in Nat /\ call.seen.left \in Nat
    BY <1>2 DEF Copy, Told, Calling, Records
  <2>2. WrittenOff(call) \in Nat /\ WrittenOff(call) <= call.seen.left
    BY <2>1 DEF WrittenOff, Least
  <2> DEFINE y == Least(call.seen.bond, slashed[call.seen.badge] + WrittenOff(call))
  <2>3. /\ y \in Nat /\ slashed[call.seen.badge] <= y /\ y <= posted[call.seen.badge].bond
        /\ slashed \in [DOMAIN posted -> Nat]
    BY <2>1, <2>2 DEF Least, SellerTypes, Badge
  <2>4. x = [slashed EXCEPT ![call.seen.badge] = y]
    BY <1>2
  <2>5. y = Least(posted[call.seen.badge].bond, slashed[call.seen.badge] + WrittenOff(call))
    BY <2>1
  <2> HIDE DEF y
  <2>6. \A b \in DOMAIN posted : slashed[b] <= posted[b].bond /\ slashed[b] <= slashed[b]
    BY DEF SellerTypes
  <2> QED  BY <1>2, <2>1, <2>2, <2>3, <2>4, <2>5, <2>6
<1> QED  BY <1>1, <1>2

LEMMA FillBonds ==
  ASSUME BondsInv, NEW t \in Tellers, FillRegister(t)
  PROVE  BondsInv' /\ (QueuedInv => QueuedInv')
<1> DEFINE call == teller[t]
           others == {u \in Tellers \ {t} : teller[u].pc \in {"fills", "mixes"}}
           b0 == call.seen.badge
<1>1. /\ SellerTypes /\ call \in Calling /\ call.pc \in {"fills", "mixes"} /\ Editing(call) /\ call # Off
      /\ Copy(call, posted, slashed)
      /\ sellers' = call.rows \/ (call.pc = "mixes" /\ sellers' = Blank)
      /\ teller' = [u \in Tellers |-> IF u = t THEN Off
                                      ELSE IF u \in others THEN [teller[u] EXCEPT !.pc = "mixes"]
                                      ELSE teller[u]]
      /\ UNCHANGED <<queued, date, posted>>
  BY DEF BondsInv, SellerTypes, FillRegister, Editing, Off
<1>2. slashed' = IF call.does = "slash"
                 THEN [slashed EXCEPT ![call.seen.badge] = Least(call.seen.bond, @ + WrittenOff(call))]
                 ELSE slashed
  BY DEF FillRegister
<1> HIDE DEF call
<1>3. /\ slashed' \in [DOMAIN posted -> Nat]
      /\ \A b \in DOMAIN posted : slashed[b] <= slashed'[b] /\ slashed'[b] <= posted[b].bond
      /\ call.does # "slash" => slashed' = slashed
      /\ call.does = "slash" =>
           /\ call.seen \in Records /\ b0 \in DOMAIN posted
           /\ \A b \in DOMAIN posted \ {b0} : slashed'[b] = slashed[b]
           /\ slashed'[b0] = Least(posted[b0].bond, slashed[b0] + WrittenOff(call))
           /\ WrittenOff(call) \in Nat /\ WrittenOff(call) <= call.seen.left
  BY <1>1, <1>2, SlashNoted
<1>4. /\ posted \in [DOMAIN posted -> Badge]
      /\ \A b \in DOMAIN posted : slashed[b] \in Nat /\ slashed'[b] \in Nat /\ slashed[b] <= slashed'[b]
  BY <1>1, <1>3 DEF SellerTypes
<1>5. call.rows \in Registers /\ \A h \in DOMAIN call.rows : call.rows[h] \in Records
  BY <1>1, RegistersTyped DEF Calling
<1>6. \A u \in others : /\ teller[u] \in Calling /\ [teller[u] EXCEPT !.pc = "mixes"] \in Calling
                        /\ [teller[u] EXCEPT !.pc = "mixes"].pc = "mixes" /\ Editing(teller[u])
  BY <1>1 DEF SellerTypes, Calling, Editing
<1>7. SellerTypes'
  <2>1. teller' \in [Tellers -> Calling]
    BY <1>1, <1>6, OffTyped DEF SellerTypes
  <2> QED  BY <1>1, <1>3, <1>5, <2>1 DEF SellerTypes
<1>8. Version(call.rows, posted, slashed')
  <2> SUFFICES ASSUME NEW h \in DOMAIN call.rows
               PROVE  Told(call.rows[h], h, posted) /\ Floor(call.rows[h], 0, posted, slashed')
    BY DEF Version
  <2>1. Told(call.rows[h], h, posted) /\ call.rows[h] \in Records
    BY <1>1, <1>5 DEF Copy
  <2>2. CASE call.does = "slash" => h # call.host
    <3>1. Floor(call.rows[h], 0, posted, slashed)
      BY <1>1, <2>2 DEF Copy
    <3> QED  BY <1>4, <2>1, <3>1, FloorHolds
  <2>3. CASE call.does = "slash" /\ h = call.host
    <3>1. /\ Floor(call.seen, 0, posted, slashed) /\ call.rows[h].badge = b0
          /\ call.rows[h].left = call.seen.left - WrittenOff(call)
      BY <1>1, <2>3 DEF Copy
    <3>2. /\ posted[b0].bond \in Nat /\ slashed[b0] \in Nat /\ call.seen.left \in Nat
          /\ posted[b0].bond - slashed[b0] <= call.seen.left
      BY <1>3, <1>4, <2>3, <3>1 DEF Badge, Records, Floor, Owed
    <3>3. posted[b0].bond - slashed'[b0] <= call.rows[h].left
      BY <1>3, <2>3, <3>1, <3>2 DEF Least
    <3>4. slashed'[b0] \in Nat
      BY <1>3, <1>4, <2>3
    <3> QED  BY <2>1, <3>1, <3>2, <3>3, <3>4 DEF Floor, Owed
  <2> QED  BY <2>2, <2>3
<1>9. BondsInv'
  <2>1. Version(Rows(sellers'), posted', slashed')
    BY <1>1, <1>5, <1>8, BlankVersion, RegistersTyped DEF Rows
  <2>2. ASSUME NEW u \in Tellers
        PROVE  Asking(teller'[u]) /\ (Editing(teller'[u]) => Copy(teller'[u], posted', slashed'))
    <3>1. CASE u = t
      BY <1>1, <3>1 DEF Asking, Editing, Off
    <3>2. CASE u \in others
      <4>1. teller'[u] = [teller[u] EXCEPT !.pc = "mixes"] /\ Copy(teller[u], posted, slashed)
        BY <1>1, <1>6, <3>2 DEF BondsInv
      <4>2. Copy(teller[u], posted, slashed')
        BY <1>4, <1>6, <3>2, <4>1, CopyHolds
      <4>3. Copy(teller'[u], posted, slashed')
        BY <1>6, <3>2, <4>1, <4>2, CopyMoves
      <4>4. Asking(teller'[u])
        BY <1>6, <3>2, <4>1 DEF Asking, Off
      <4> QED  BY <1>1, <4>3, <4>4
    <3>3. CASE u # t /\ u \notin others
      <4>1. teller'[u] = teller[u] /\ teller[u] \in Calling
        BY <1>1, <3>3 DEF SellerTypes
      <4>2. Asking(teller[u]) /\ (Editing(teller[u]) => Copy(teller[u], posted, slashed))
        BY DEF BondsInv
      <4>3. Editing(teller[u]) => Copy(teller[u], posted, slashed')
        BY <1>4, <4>1, <4>2, CopyHolds
      <4> QED  BY <1>1, <4>1, <4>2, <4>3
    <3> QED  BY <3>1, <3>2, <3>3
  <2>3. Version(Rows(sellers), posted, slashed)'
    BY <2>1
  <2>4. \A u \in Tellers : (Asking(teller[u]) /\ (Editing(teller[u]) => Copy(teller[u], posted, slashed)))'
    BY <2>2
  <2> QED  BY <1>7, <2>3, <2>4 DEF BondsInv
<1>10. ASSUME QueuedInv PROVE QueuedInv'
  <2>1. CASE ~queued
    BY <1>1, <2>1 DEF QueuedInv
  <2>2. CASE queued
    <3>1. /\ QueuedBonds /\ \A u \in Tellers \ {t} : teller[u] = Off
      BY <1>1, <1>10, <2>2 DEF QueuedInv, QueuedBonds, call
    <3>2. others = {} /\ call.pc = "fills" /\ sellers' = call.rows
      BY <1>1, <3>1 DEF Off, QueuedBonds, call
    <3>3. Serve(t, Off)
      BY <1>1, <3>2 DEF Serve, SellerTypes
    <3>4. Exact(call.rows, call, posted, slashed) /\ Complete(call.rows, posted)
      BY <1>1, <3>1 DEF QueuedBonds, call
    <3>5. Exact(call.rows, Off, posted, slashed')
      <4> SUFFICES ASSUME NEW h \in DOMAIN call.rows
                   PROVE  call.rows[h].left = Owed(call.rows[h], 0, posted, slashed')
        BY DEF Exact, Due, Off
      <4>1. /\ Told(call.rows[h], h, posted) /\ call.rows[h].left \in Nat
            /\ call.rows[h].left = Owed(call.rows[h], Due(call, h), posted, slashed)
        BY <1>1, <1>5, <3>4 DEF Copy, Records, Exact
      <4>2. CASE call.does # "slash"
        BY <1>3, <4>1, <4>2 DEF Due
      <4>3. CASE call.does = "slash" /\ h # call.host
        <5>1. call.rows[h].badge \in DOMAIN posted \ {b0}
          BY <1>1, <4>1, <4>3 DEF Told, Copy
        <5> QED  BY <1>3, <4>1, <4>3, <5>1 DEF Due, Owed
      <4>4. CASE call.does = "slash" /\ h = call.host
        <5>1. /\ call.rows[h].badge = b0 /\ posted[b0].bond \in Nat /\ slashed[b0] \in Nat
              /\ call.rows[h].left = posted[b0].bond - slashed[b0] - WrittenOff(call)
          BY <1>1, <1>3, <1>4, <4>1, <4>4 DEF Due, Owed, Copy, Badge
        <5>2. slashed'[b0] = slashed[b0] + WrittenOff(call)
          BY <1>3, <4>1, <4>4, <5>1 DEF Least
        <5> QED  BY <1>3, <4>4, <5>1, <5>2 DEF Owed
      <4> QED  BY <4>2, <4>3, <4>4
    <3>6. /\ call.rows # Blank /\ Rows(call.rows) = call.rows
      BY <1>5, RegistersTyped DEF Rows
    <3>7. \A b \in DOMAIN posted : posted[b].until <= date + TermOfBadge
      BY <3>1 DEF QueuedBonds
    <3>8. Off.pc = "idle" /\ ~Editing(Off) /\ teller[t] # Off
      BY <1>1 DEF Off, Editing, call
    <3> QED  BY <1>1, <1>10, <3>2, <3>3, <3>4, <3>5, <3>6, <3>7, <3>8, QueuedEdits
  <2> QED  BY <2>1, <2>2
<1> QED  BY <1>9, <1>10

LEMMA BondsStep == BondsInv /\ QueuedInv /\ [SellerNext]_sellerVars => BondsInv' /\ QueuedInv'
<1> SUFFICES ASSUME BondsInv, QueuedInv, [SellerNext]_sellerVars PROVE BondsInv' /\ QueuedInv'
  OBVIOUS
<1>1. ASSUME NEW t \in Tellers, NEW h \in Hosts, NEW m \in Merchants, NEW n \in Bonds, Certify(t, h, m, n)
      PROVE  BondsInv' /\ QueuedInv'
  BY <1>1, CertifyBonds
<1>2. ASSUME NEW t \in Tellers, NEW h \in Hosts, NEW n \in Slashes, NEW semantic \in BOOLEAN,
             Slash(t, h, n, semantic)
      PROVE  BondsInv' /\ QueuedInv'
  BY <1>2, SlashBonds
<1>3. ASSUME NEW t \in Tellers, ReadRegister(t) PROVE BondsInv' /\ QueuedInv'
  <2>0. teller[t].pc = "reads" /\ UNCHANGED <<queued, date, sellers>>
    BY <1>3 DEF ReadRegister
  <2>1. CASE teller[t].does = "certify"
    <3>1. PICK b \in Badges \ DOMAIN posted :
            /\ posted' = [c \in DOMAIN posted \cup {b} |->
                            IF c = b THEN [host |-> teller[t].host, bond |-> teller[t].amount,
                                           until |-> date + TermOfBadge]
                                     ELSE posted[c]]
            /\ slashed' = [c \in DOMAIN posted' |-> IF c = b THEN 0 ELSE slashed[c]]
            /\ Serve(t, [teller[t] EXCEPT !.pc = "opens",
                           !.rows = SetRow(Rows(sellers), teller[t].host,
                                           NewRow(b, teller[t].seen, teller[t].amount))])
      BY <1>3, <2>1 DEF ReadRegister
    <3> QED  BY <2>0, <2>1, <3>1, ReadCertify
  <2>2. CASE teller[t].does = "slash" /\ teller[t].host \in DOMAIN Rows(sellers)
    <3>1. /\ Serve(t, [teller[t] EXCEPT !.pc = "opens", !.seen = Rows(sellers)[teller[t].host],
                   !.rows = SetRow(Rows(sellers), teller[t].host,
                                   Slashing(Rows(sellers)[teller[t].host], teller[t].amount))])
          /\ UNCHANGED <<posted, slashed>>
      BY <1>3, <2>2 DEF ReadRegister
    <3> QED  BY <2>0, <2>2, <3>1, ReadSlash
  <2>3. CASE teller[t].does = "slash" /\ teller[t].host \notin DOMAIN Rows(sellers)
    <3>1. Serve(t, Off) /\ UNCHANGED <<posted, slashed>>
      BY <1>3, <2>3 DEF ReadRegister
    <3> QED  BY <2>0, <3>1, ReadNothing
  <2>4. teller[t].does \in {"certify", "slash"}
    BY <2>0 DEF BondsInv, Asking
  <2> QED  BY <2>1, <2>2, <2>3, <2>4
<1>4. ASSUME NEW t \in Tellers, OpenRegister(t) PROVE BondsInv' /\ QueuedInv'
  BY <1>4, OpenBonds
<1>5. ASSUME NEW t \in Tellers, FillRegister(t) PROVE BondsInv' /\ QueuedInv'
  BY <1>5, FillBonds
<1>6. ASSUME DatePasses PROVE BondsInv' /\ QueuedInv'
  <2>1. /\ UNCHANGED <<queued, sellers, teller, posted, slashed>> /\ date' = date + 1
        /\ date \in Nat
    BY <1>6 DEF DatePasses, BondsInv, SellerTypes
  <2>2. SellerTypes'
    BY <2>1 DEF BondsInv, SellerTypes
  <2>3. BondsInv'
    <3>1. \A t \in Tellers : (Asking(teller[t]) /\ (Editing(teller[t]) => Copy(teller[t], posted, slashed)))'
      BY <2>1 DEF BondsInv
    <3>2. Version(Rows(sellers), posted, slashed)'
      BY <2>1 DEF BondsInv
    <3> QED  BY <2>2, <3>1, <3>2 DEF BondsInv
  <2>4. ASSUME queued PROVE QueuedBonds'
    <3>1. \A b \in DOMAIN posted : posted[b].until \in Nat /\ posted[b].until <= date + TermOfBadge
      BY <2>4 DEF QueuedInv, QueuedBonds, BondsInv, SellerTypes, Badge
    <3>2. \A b \in DOMAIN posted : posted[b].until <= date' + TermOfBadge
      BY <2>1, <3>1, AmountsAssumption
    <3> QED  BY <2>1, <2>4, <3>2 DEF QueuedInv, QueuedBonds
  <2> QED  BY <2>1, <2>3, <2>4 DEF QueuedInv
<1>7. ASSUME RegisterCrash PROVE BondsInv' /\ QueuedInv'
  <2>1. /\ ~queued /\ teller' = [t \in Tellers |-> Off] /\ UNCHANGED <<queued, date, posted, slashed, sellers>>
    BY <1>7 DEF RegisterCrash, Keeps
  <2>2. SellerTypes'
    BY <2>1, OffTyped DEF BondsInv, SellerTypes
  <2>3. \A t \in Tellers : (Asking(teller[t]) /\ (Editing(teller[t]) => Copy(teller[t], posted, slashed)))'
    BY <2>1 DEF Asking, Editing, Off
  <2>4. Version(Rows(sellers), posted, slashed)'
    BY <2>1 DEF BondsInv
  <2> QED  BY <2>1, <2>2, <2>3, <2>4 DEF QueuedInv, BondsInv
<1>8. CASE UNCHANGED sellerVars
  <2>1. UNCHANGED <<queued, date, sellers, teller, posted, slashed>>
    BY <1>8 DEF sellerVars
  <2>2. SellerTypes' /\ Version(Rows(sellers), posted, slashed)'
    BY <2>1 DEF BondsInv, SellerTypes
  <2>3. \A t \in Tellers : (Asking(teller[t]) /\ (Editing(teller[t]) => Copy(teller[t], posted, slashed)))'
    BY <2>1 DEF BondsInv
  <2>4. QueuedInv'
    BY <2>1 DEF QueuedInv, QueuedBonds
  <2> QED  BY <2>2, <2>3, <2>4 DEF BondsInv
<1> QED  BY <1>1, <1>2, <1>3, <1>4, <1>5, <1>6, <1>7, <1>8 DEF SellerNext

(* A bond only shrinks by slashes that were written, however calls overlap *)
(* on certified-sellers.json; one by one, the register tells what is left, *)
(* forgets no host, and insures nobody on a bond that is gone.             *)
THEOREM BondsAreKept == SellerSpec => []BondsKept
<1>1. BondsInv /\ QueuedInv => BondsKept
  <2> SUFFICES ASSUME BondsInv, QueuedInv PROVE BondsKept
    OBVIOUS
  <2>0. /\ SellerTypes /\ Rows(sellers) \in Registers /\ DOMAIN Rows(sellers) \subseteq Hosts
        /\ \A h \in DOMAIN Rows(sellers) : Rows(sellers)[h] \in Records
        /\ \A h \in DOMAIN Rows(sellers) : sellers[h] = Rows(sellers)[h]
    BY RowsTyped, RegistersTyped, NoSellersTyped DEF BondsInv, Rows
  <2>1. ASSUME NEW h \in DOMAIN Rows(sellers)
        PROVE  /\ posted[sellers[h].badge].bond - slashed[sellers[h].badge] <= sellers[h].left
               /\ sellers[h].left <= posted[sellers[h].badge].bond
               /\ queued => sellers[h].left = posted[sellers[h].badge].bond - slashed[sellers[h].badge]
    <3>1. /\ Told(sellers[h], h, posted) /\ Floor(sellers[h], 0, posted, slashed)
          /\ queued => sellers[h].left = Owed(sellers[h], 0, posted, slashed)
      BY <2>0, <2>1 DEF BondsInv, Version, QueuedInv, QueuedBonds, Exact, Due, Off
    <3>2. posted[sellers[h].badge].bond \in Nat /\ slashed[sellers[h].badge] \in Nat
      BY <2>0, <3>1 DEF SellerTypes, Told, Badge
    <3> QED  BY <3>1, <3>2 DEF Told, Floor, Owed
  <2>2. ASSUME queued, \A t \in Tellers : teller[t] = Off, NEW b \in DOMAIN posted
        PROVE  /\ posted[b].host \in DOMAIN Rows(sellers)
               /\ Insurable(posted[b].host) =>
                    \E c \in DOMAIN posted : /\ posted[c].host = posted[b].host
                                             /\ posted[c].bond - slashed[c] > 0
               /\ \A q \in Buyers :
                    date <= posted[b].until /\ q.attestation = "missing" => ~GateOpens(posted[b].host, q)
    <3> DEFINE h == posted[b].host
    <3>1. /\ sellers # Blank /\ Rows(sellers) = sellers /\ Complete(sellers, posted)
      BY <2>2 DEF QueuedInv, QueuedBonds, Off, Editing, Rows
    <3>2. /\ h \in DOMAIN sellers /\ posted[b].until <= sellers[h].until /\ sellers[h] \in Records
          /\ Told(sellers[h], h, posted) /\ posted[b].until \in Nat /\ date \in Nat
      BY <2>0, <3>1 DEF Complete, BondsInv, Version, SellerTypes, Badge
    <3>3. ASSUME Insurable(h)
          PROVE  \E c \in DOMAIN posted : posted[c].host = h /\ posted[c].bond - slashed[c] > 0
      <4>1. sellers[h].left > 0
        BY <3>3, <3>1, <3>2 DEF Insurable, Bonded, Certified
      <4>2. sellers[h].badge \in DOMAIN posted /\ posted[sellers[h].badge].host = h
        BY <3>2 DEF Told
      <4>3. posted[sellers[h].badge].bond - slashed[sellers[h].badge] > 0
        BY <2>1, <2>2, <3>1, <3>2, <4>1
      <4> QED  BY <4>2, <4>3
    <3>4. ASSUME NEW q \in Buyers, date <= posted[b].until, q.attestation = "missing"
          PROVE  ~GateOpens(h, q)
      <4>1. date <= sellers[h].until
        BY <3>2, <3>4 DEF Records
      <4>2. Certified(sellers, h) # Blank
        BY <3>1, <3>2, <4>1, BlankAssumption DEF Certified
      <4>3. GateViolated(q)
        BY <3>4 DEF GateViolated
      <4> QED  BY <4>2, <4>3 DEF GateOpens
    <3> QED  BY <3>1, <3>2, <3>3, <3>4
  <2> QED  BY <2>1, <2>2 DEF BondsKept
<1> QED  BY <1>1, InitBonds, BondsStep, PTL DEF SellerSpec

-----------------------------------------------------------------------------
(* Types of EscrowFsm's store and log.                                     *)
Stories == Seq(EscrowStates) \ {<<>>}
LogRows == FsmIds \X EscrowStates \X EscrowStates
IsStore(r) == DOMAIN r \subseteq FsmIds /\ r \in [DOMAIN r -> Stories]
Own == FsmIds \ DOMAIN LegacyEscrows

FsmTypes == /\ lost \in Nat
            /\ log \in Seq(LogRows)
            /\ making \in [Makers -> FsmIds \cup {NoFsmId, Looking}]
            /\ root # NoRow => IsStore(root)

(* A create holds an id that nothing else has.                             *)
IdsApart ==
    \A m \in Makers : making[m] \in FsmIds =>
        /\ making[m] \in Own /\ Entries(making[m]) = {}
        /\ root # NoRow => making[m] \notin DOMAIN root
        /\ \A n \in Makers \ {m} : making[n] # making[m]

InOrder(i) == \A j, k \in Entries(i) :
    j < k => /\ log[j][3] \notin Ended
             /\ lost = 0 /\ EntriesTo(i, k) \ EntriesTo(i, j) = {k} => log[k][2] = log[j][3]

Held(i) == root # NoRow /\ i \in DOMAIN root

(* Once the log ends an escrow, so does the store, as long as it holds it. *)
StaysEnded(i) == \A j \in Entries(i) : Held(i) /\ log[j][3] \in Ended => StateIn(root, i) \in Ended

IsHistory(i) ==
    /\ i \in DOMAIN shadow /\ shadow[i] = StateIn(root, i)
    /\ Len(root[i]) = Cardinality(Entries(i)) + 1
    /\ root[i][1] = "CREATED"
    /\ \A k \in Entries(i) : root[i][Cardinality(EntriesTo(i, k)) + 1] = log[k][3]

StoryKept == \A i \in Own : InOrder(i) /\ StaysEnded(i) /\ (lost = 0 /\ Held(i) => IsHistory(i))

FsmInv == FsmTypes /\ IdsApart /\ StoryKept

LEMMA StoreIsThere == \A r : IsStore(r) => r # NoRow
<1> SUFFICES ASSUME NEW r, IsStore(r) PROVE r # NoRow
  OBVIOUS
<1>1. r \in [DOMAIN r -> Seq(EscrowStates)] /\ DOMAIN r \in SUBSET FsmIds
  BY DEF IsStore, Stories
<1> QED  BY <1>1, FsmAssumption

LEMMA PlusStore ==
  ASSUME NEW r, IsStore(r), NEW i \in FsmIds, NEW x \in Stories
  PROVE  /\ IsStore(Plus(r, i, x)) /\ DOMAIN Plus(r, i, x) = DOMAIN r \cup {i}
         /\ Plus(r, i, x)[i] = x
         /\ \A j \in DOMAIN r \ {i} : Plus(r, i, x)[j] = r[j]
<1>1. DOMAIN r \subseteq FsmIds /\ \A j \in DOMAIN r : r[j] \in Stories
  BY DEF IsStore
<1> QED  BY <1>1 DEF IsStore, Plus

LEMMA LegacyStore == IsStore(LegacyRoot) /\ DOMAIN LegacyRoot = DOMAIN LegacyEscrows
<1>1. \A j \in DOMAIN LegacyEscrows : LegacyEscrows[j] \in EscrowStates /\ j \in FsmIds
  BY FsmAssumption
<1>2. \A s \in EscrowStates : <<s>> \in Stories
  BY DEF Stories
<1> QED  BY <1>1, <1>2 DEF IsStore, LegacyRoot

LEMMA Created == <<"CREATED">> \in Stories /\ Last(<<"CREATED">>) = "CREATED" /\ Len(<<"CREATED">>) = 1
BY DEF Stories, EscrowStates, Last

LEMMA EntriesFinite ==
  ASSUME log \in Seq(LogRows), NEW i
  PROVE  /\ Entries(i) \subseteq 1 .. Len(log)
         /\ IsFiniteSet(Entries(i)) /\ Cardinality(Entries(i)) \in Nat
         /\ \A k : IsFiniteSet(EntriesTo(i, k)) /\ Cardinality(EntriesTo(i, k)) \in Nat
<1>1. Entries(i) \subseteq 1 .. Len(log) /\ Len(log) \in Nat
  BY DEF Entries
<1>2. IsFiniteSet(1 .. Len(log))
  BY <1>1, FS_Interval
<1>3. \A k : EntriesTo(i, k) \subseteq Entries(i)
  BY DEF EntriesTo
<1>4. IsFiniteSet(Entries(i))
  BY <1>1, <1>2, FS_Subset
<1>5. \A k : IsFiniteSet(EntriesTo(i, k))
  BY <1>3, <1>4, FS_Subset
<1> QED  BY <1>1, <1>4, <1>5, FS_CardinalityType

(* What a row more does to what the log says of an escrow.                 *)
LEMMA OneRowMore ==
  ASSUME log \in Seq(LogRows), NEW row \in LogRows, log' = Append(log, row), NEW i
  PROVE  /\ log' \in Seq(LogRows)
         /\ \A k \in Entries(i) : log'[k] = log[k] /\ k \in 1 .. Len(log)
         /\ log'[Len(log) + 1] = row
         /\ Entries(i)' = IF row[1] = i THEN Entries(i) \cup {Len(log) + 1} ELSE Entries(i)
         /\ \A k \in Entries(i) : EntriesTo(i, k)' = EntriesTo(i, k)
         /\ \A k : row[1] = i /\ k = Len(log) + 1 => EntriesTo(i, k)' = Entries(i) \cup {k}
<1>1. /\ Len(log) \in Nat /\ DOMAIN log = 1 .. Len(log)
      /\ DOMAIN log' = 1 .. Len(log) + 1 /\ log' \in Seq(LogRows)
      /\ \A k \in 1 .. Len(log) : log'[k] = log[k]
      /\ log'[Len(log) + 1] = row
  OBVIOUS
<1>2. Entries(i)' = {k \in DOMAIN log' : log'[k][1] = i} /\ Entries(i) = {k \in DOMAIN log : log[k][1] = i}
  BY DEF Entries
<1>3. Entries(i)' = IF row[1] = i THEN Entries(i) \cup {Len(log) + 1} ELSE Entries(i)
  BY <1>1, <1>2
<1>4. \A k : EntriesTo(i, k)' = {j \in Entries(i)' : j <= k} /\ EntriesTo(i, k) = {j \in Entries(i) : j <= k}
  BY DEF EntriesTo
<1>5. Entries(i) \subseteq 1 .. Len(log)
  BY <1>1, <1>2
<1>6. \A k \in Entries(i) : EntriesTo(i, k)' = EntriesTo(i, k)
  BY <1>1, <1>3, <1>4, <1>5
<1>7. \A k : row[1] = i /\ k = Len(log) + 1 => EntriesTo(i, k)' = Entries(i) \cup {k}
  BY <1>1, <1>3, <1>4, <1>5
<1> QED  BY <1>1, <1>3, <1>5, <1>6, <1>7

-----------------------------------------------------------------------------
(* An escrow added to rows that say nothing new of any other.              *)
LEMMA MadeKeeps ==
  ASSUME FsmInv, NEW rows, IsStore(rows), NEW i \in Own, Entries(i) = {}, Made(rows, i),
         \A x \in DOMAIN rows \cap Own : Held(x) /\ rows[x] = root[x],
         making' \in [Makers -> FsmIds \cup {NoFsmId, Looking}],
         \A m \in Makers : making'[m] \in FsmIds =>
             making[m] = making'[m] /\ making'[m] \notin DOMAIN rows \cup {i}
  PROVE  FsmInv'
<1>1. /\ root' = Plus(rows, i, <<"CREATED">>) /\ log' = log
      /\ \/ lost' = lost /\ shadow' = Plus(shadow, i, "CREATED")
         \/ lost' = lost + 1 /\ shadow' = shadow
  BY DEF Made, AllRun, CutShort
<1>2. FsmTypes /\ i \in FsmIds
  BY DEF FsmInv, Own
<1>3. /\ IsStore(root') /\ DOMAIN root' = DOMAIN rows \cup {i}
      /\ root'[i] = <<"CREATED">> /\ \A j \in DOMAIN rows \ {i} : root'[j] = rows[j]
  <2> DEFINE x == <<"CREATED">>
             r == Plus(rows, i, x)
  <2>1. x \in Stories
    BY Created
  <2> HIDE DEF x
  <2>2. /\ IsStore(r) /\ DOMAIN r = DOMAIN rows \cup {i} /\ r[i] = x
        /\ \A j \in DOMAIN rows \ {i} : r[j] = rows[j]
    BY <2>1, <1>2, PlusStore
  <2>3. root' = r
    BY <1>1 DEF x
  <2> HIDE DEF r
  <2>4. r[i] = <<"CREATED">>
    BY <2>2 DEF x
  <2> QED  BY <2>2, <2>3, <2>4
<1>4. root' # NoRow
  BY <1>3, StoreIsThere
<1>5. lost \in Nat /\ lost' \in Nat /\ (lost' = 0 => lost = 0 /\ shadow' = Plus(shadow, i, "CREATED"))
  BY <1>1, <1>2 DEF FsmTypes
<1>6. \A x : Entries(x)' = Entries(x) /\ \A k : EntriesTo(x, k)' = EntriesTo(x, k)
  BY <1>1 DEF Entries, EntriesTo
<1>7. FsmTypes'
  BY <1>1, <1>2, <1>3, <1>5 DEF FsmTypes
<1>8. IdsApart'
  <2> SUFFICES ASSUME NEW m \in Makers, making'[m] \in FsmIds
               PROVE  /\ making'[m] \in Own /\ Entries(making[m])' = {}
                      /\ making'[m] \notin DOMAIN root'
                      /\ \A n \in Makers \ {m} : making'[n] # making'[m]
    BY DEF IdsApart, Own
  <2>1. making[m] = making'[m] /\ making[m] \in Own /\ Entries(making[m]) = {}
    BY DEF FsmInv, IdsApart
  <2>2. \A n \in Makers \ {m} : making[n] # making[m]
    BY <2>1 DEF FsmInv, IdsApart
  <2> QED  BY <2>1, <2>2, <1>3, <1>6
<1>9. ASSUME NEW x \in Own
      PROVE  (InOrder(x) /\ StaysEnded(x) /\ (lost = 0 /\ Held(x) => IsHistory(x)))'
  <2>1. InOrder(x) /\ StaysEnded(x) /\ (lost = 0 /\ Held(x) => IsHistory(x))
    BY DEF FsmInv, StoryKept
  <2>2. InOrder(x)'
    BY <2>1, <1>1, <1>5, <1>6 DEF InOrder
  <2>3. CASE x = i
    <3>1. Entries(x)' = {} /\ root'[x] = <<"CREATED">>
      BY <2>3, <1>3, <1>6
    <3>2. StaysEnded(x)'
      BY <3>1 DEF StaysEnded
    <3>3. ASSUME lost' = 0 PROVE IsHistory(x)'
      <4>1. x \in DOMAIN shadow' /\ shadow'[x] = "CREATED"
        BY <2>3, <3>3, <1>5 DEF Plus
      <4>2. Cardinality(Entries(x)') = 0
        BY <3>1, FS_EmptySet
      <4>3. Len(root'[x]) = 1 /\ root'[x][1] = "CREATED" /\ StateIn(root', x) = "CREATED"
        BY <3>1, Created DEF StateIn
      <4> QED  BY <3>1, <4>1, <4>2, <4>3 DEF IsHistory
    <3> QED  BY <2>2, <3>2, <3>3
  <2>4. CASE x # i /\ x \notin DOMAIN rows
    <3>1. ~Held(x)'
      BY <2>4, <1>3 DEF Held
    <3> QED  BY <2>2, <3>1 DEF StaysEnded
  <2>5. CASE x # i /\ x \in DOMAIN rows
    <3>1. Held(x) /\ root'[x] = root[x]
      BY <2>5, <1>3
    <3>2. StateIn(root', x) = StateIn(root, x)
      BY <3>1 DEF StateIn
    <3>3. StaysEnded(x)'
      BY <2>1, <3>1, <3>2, <1>1, <1>6 DEF StaysEnded
    <3>4. ASSUME lost' = 0 PROVE IsHistory(x)'
      <4>1. IsHistory(x)
        BY <2>1, <3>1, <3>4, <1>5
      <4>2. x \in DOMAIN shadow' /\ shadow'[x] = shadow[x]
        BY <4>1, <3>4, <1>5, <2>5 DEF Plus, IsHistory
      <4> QED  BY <4>1, <4>2, <3>1, <3>2, <1>1, <1>6 DEF IsHistory
    <3> QED  BY <2>2, <3>3, <3>4
  <2> QED  BY <2>3, <2>4, <2>5
<1> QED  BY <1>7, <1>8, <1>9 DEF FsmInv, StoryKept

(* Nothing but who is making what, and perhaps a store without own rows.   *)
LEMMA LookingKeeps ==
  ASSUME FsmInv, UNCHANGED <<shadow, log, lost>>,
         root' = root \/ root' = LegacyRoot,
         making' \in [Makers -> FsmIds \cup {NoFsmId, Looking}],
         IdsApart'
  PROVE  FsmInv'
<1>1. FsmTypes'
  BY LegacyStore DEF FsmInv, FsmTypes
<1>2. \A x : Entries(x)' = Entries(x) /\ \A k : EntriesTo(x, k)' = EntriesTo(x, k)
  BY DEF Entries, EntriesTo
<1>3. ASSUME NEW x \in Own
      PROVE  (InOrder(x) /\ StaysEnded(x) /\ (lost = 0 /\ Held(x) => IsHistory(x)))'
  <2>1. InOrder(x) /\ StaysEnded(x) /\ (lost = 0 /\ Held(x) => IsHistory(x))
    BY DEF FsmInv, StoryKept
  <2>2. InOrder(x)'
    BY <2>1, <1>2 DEF InOrder
  <2>3. CASE root' = root
    <3>1. (Held(x)' <=> Held(x)) /\ StateIn(root', x) = StateIn(root, x)
      BY <2>3 DEF Held
    <3>2. StaysEnded(x)'
      BY <2>1, <3>1, <1>2 DEF StaysEnded
    <3>3. lost' = 0 /\ Held(x)' => IsHistory(x)'
      BY <2>1, <2>3, <3>1, <1>2 DEF IsHistory
    <3> QED  BY <2>2, <3>2, <3>3
  <2>4. CASE root' = LegacyRoot
    <3>1. ~Held(x)'
      BY <2>4, LegacyStore DEF Held, Own
    <3> QED  BY <2>2, <3>1 DEF StaysEnded
  <2> QED  BY <2>3, <2>4
<1> QED  BY <1>1, <1>3 DEF FsmInv, StoryKept

LEMMA MovesAreStates ==
  \A s \in EscrowStates : Moves(s) \subseteq EscrowStates /\ (s \in Ended <=> Moves(s) = {})
BY DEF Moves, EscrowStates, Ended

(* What a transition leaves alone: every other escrow.                     *)
LEMMA OthersStay ==
  ASSUME FsmInv, NEW i \in FsmIds, Held(i), NEW x \in Own, x # i, lost' \in Nat, lost' = 0 => lost = 0,
         Held(x)' <=> Held(x), Held(x) => root'[x] = root[x],
         Entries(x)' = Entries(x), \A k \in Entries(x) : EntriesTo(x, k)' = EntriesTo(x, k),
         \A k \in Entries(x) : log'[k] = log[k],
         x \in DOMAIN shadow => x \in DOMAIN shadow' /\ shadow'[x] = shadow[x]
  PROVE  (InOrder(x) /\ StaysEnded(x) /\ (lost = 0 /\ Held(x) => IsHistory(x)))'
<1>1. InOrder(x) /\ StaysEnded(x) /\ (lost = 0 /\ Held(x) => IsHistory(x))
  BY DEF FsmInv, StoryKept
<1>2. InOrder(x)'
  BY <1>1 DEF InOrder
<1>3. Held(x) => StateIn(root', x) = StateIn(root, x)
  BY DEF StateIn
<1>4. StaysEnded(x)'
  BY <1>1, <1>3 DEF StaysEnded
<1>5. ASSUME lost' = 0, Held(x) PROVE IsHistory(x)'
  <2>1. IsHistory(x)
    BY <1>1, <1>5
  <2>2. x \in DOMAIN shadow' /\ shadow'[x] = StateIn(root', x)
    BY <2>1, <1>3, <1>5 DEF IsHistory
  <2> QED  BY <2>1, <2>2, <1>5 DEF IsHistory
<1> QED  BY <1>2, <1>4, <1>5

LEMMA TransitionKeeps ==
  ASSUME FsmInv, NEW i \in FsmIds, NEW s \in EscrowStates, Transition(i, s)
  PROVE  FsmInv'
<1> DEFINE from == StateIn(root, i)
           row == Row(i, from, s)
           n == Len(log)
<1>1. /\ root # NoRow /\ i \in DOMAIN root /\ s \in Moves(from)
      /\ root' = [root EXCEPT ![i] = Append(@, s)] /\ making' = making
      /\ \/ lost' = lost /\ log' = Append(log, row) /\ shadow' = Plus(shadow, i, s)
         \/ lost' = lost + 1 /\ log' = Append(log, row) /\ shadow' = shadow
         \/ lost' = lost + 1 /\ log' = log /\ shadow' = shadow
  BY DEF Transition, Permitted, AllRun, CutShort
<1>2. FsmTypes /\ IsStore(root)
  BY <1>1 DEF FsmInv, FsmTypes
<1>3. root[i] \in Seq(EscrowStates) /\ Len(root[i]) \in Nat \ {0} /\ from \in EscrowStates
  BY <1>1, <1>2 DEF IsStore, Stories, StateIn, Last
<1>4. row \in LogRows /\ row[1] = i /\ row[2] = from /\ row[3] = s
  BY <1>3 DEF LogRows, Row
<1>5. from \notin Ended
  BY <1>1, <1>3, MovesAreStates
<1>6. /\ DOMAIN root' = DOMAIN root /\ root'[i] = Append(root[i], s)
      /\ \A x \in DOMAIN root \ {i} : root'[x] = root[x]
  BY <1>1
<1>7. /\ Append(root[i], s) \in Stories /\ Len(root'[i]) = Len(root[i]) + 1
      /\ root'[i][Len(root[i]) + 1] = s
      /\ \A k \in 1 .. Len(root[i]) : root'[i][k] = root[i][k]
  BY <1>3, <1>6 DEF Stories
<1>8. StateIn(root', i) = s
  BY <1>3, <1>7 DEF StateIn, Last
<1>9. IsStore(root')
  <2>1. \A x \in DOMAIN root' : root'[x] \in Stories
    BY <1>2, <1>6, <1>7 DEF IsStore
  <2>2. root' = [x \in DOMAIN root' |-> root'[x]]
    BY <1>1, <1>6
  <2> QED  BY <2>1, <2>2, <1>2, <1>6 DEF IsStore
<1>10. root' # NoRow
  BY <1>9, StoreIsThere
<1>11. lost \in Nat /\ lost' \in Nat /\ (lost' = 0 => lost = 0)
       /\ (lost' = 0 => log' = Append(log, row) /\ shadow' = Plus(shadow, i, s))
  BY <1>1, <1>2 DEF FsmTypes
<1>12. (\A x : Held(x)' <=> Held(x)) /\ Held(i)
  BY <1>1, <1>6, <1>10 DEF Held
<1> HIDE DEF row, from, n
<1>13. log \in Seq(LogRows)
  BY <1>2 DEF FsmTypes
<1>14. log' = Append(log, row) \/ log' = log
  BY <1>1
<1>15. log' = log => \A x : Entries(x)' = Entries(x) /\ \A k : EntriesTo(x, k)' = EntriesTo(x, k)
  BY DEF Entries, EntriesTo
<1>16. FsmTypes'
  <2>1. log' \in Seq(LogRows)
    BY <1>4, <1>13, <1>14
  <2> QED  BY <2>1, <1>1, <1>2, <1>9, <1>11 DEF FsmTypes
<1>17. ASSUME NEW x, x # i
       PROVE  /\ Entries(x)' = Entries(x) /\ \A k \in Entries(x) : EntriesTo(x, k)' = EntriesTo(x, k)
              /\ \A k \in Entries(x) : log'[k] = log[k]
  <2>1. CASE log' = log
    BY <2>1, <1>15
  <2>2. CASE log' = Append(log, row)
    BY <2>2, <1>4, <1>13, <1>17, OneRowMore
  <2> QED  BY <2>1, <2>2, <1>14
<1>18. IdsApart'
  <2> SUFFICES ASSUME NEW m \in Makers, making[m] \in FsmIds
               PROVE  /\ making[m] \in Own /\ Entries(making[m])' = {}
                      /\ making[m] \notin DOMAIN root'
                      /\ \A k \in Makers \ {m} : making[k] # making[m]
    BY <1>1 DEF IdsApart, Own
  <2>1. /\ making[m] \in Own /\ Entries(making[m]) = {} /\ making[m] \notin DOMAIN root
        /\ \A k \in Makers \ {m} : making[k] # making[m]
    BY <1>1 DEF FsmInv, IdsApart
  <2>2. making[m] # i
    BY <2>1, <1>1
  <2> QED  BY <2>1, <2>2, <1>1, <1>6, <1>17
<1>19. ASSUME NEW x \in Own, x # i
       PROVE  (InOrder(x) /\ StaysEnded(x) /\ (lost = 0 /\ Held(x) => IsHistory(x)))'
  <2>1. x \in DOMAIN shadow => x \in DOMAIN shadow' /\ shadow'[x] = shadow[x]
    BY <1>1, <1>19 DEF Plus
  <2>2. Held(x) => root'[x] = root[x]
    BY <1>6, <1>19 DEF Held
  <2> QED  BY <2>1, <2>2, <1>11, <1>12, <1>17, <1>19, OthersStay
<1>20. ASSUME i \in Own
       PROVE  (InOrder(i) /\ StaysEnded(i) /\ (lost = 0 /\ Held(i) => IsHistory(i)))'
  <2>1. InOrder(i) /\ StaysEnded(i) /\ (lost = 0 => IsHistory(i))
    BY <1>12, <1>20 DEF FsmInv, StoryKept
  <2>2. \A j \in Entries(i) : log[j][3] \notin Ended
    BY <2>1, <1>5, <1>12 DEF StaysEnded, from
  <2>3. CASE log' = log
    <3>1. InOrder(i)'
      BY <2>1, <2>3, <1>11, <1>15 DEF InOrder
    <3>2. StaysEnded(i)'
      BY <2>2, <2>3, <1>15 DEF StaysEnded
    <3>3. log # Append(log, row)
      BY <1>4, <1>13
    <3> QED  BY <3>1, <3>2, <3>3, <2>3, <1>11
  <2>4. CASE log' = Append(log, row)
    <3> DEFINE E == Entries(i)
               c == Cardinality(E)
    <3>1. /\ \A k \in E : log'[k] = log[k] /\ k \in 1 .. n
          /\ log'[n + 1] = row /\ Entries(i)' = E \cup {n + 1}
          /\ \A k \in E : EntriesTo(i, k)' = EntriesTo(i, k)
          /\ \A k : k = n + 1 => EntriesTo(i, k)' = E \cup {k}
      BY <2>4, <1>4, <1>13, OneRowMore DEF n
    <3>2. /\ n \in Nat /\ IsFiniteSet(E) /\ c \in Nat /\ E \subseteq 1 .. n
          /\ \A k : IsFiniteSet(EntriesTo(i, k)) /\ Cardinality(EntriesTo(i, k)) \in Nat
      BY <1>13, EntriesFinite DEF n
    <3>3. Cardinality(E \cup {n + 1}) = c + 1
      <4>1. n + 1 \notin E
        BY <3>2
      <4> QED  BY <4>1, <3>2, FS_AddElement
    <3>4. \A k : EntriesTo(i, k) \subseteq E
      BY DEF EntriesTo
    <3>5. \A k \in E : Cardinality(EntriesTo(i, k)) \in 1 .. c
      <4> SUFFICES ASSUME NEW k \in E PROVE Cardinality(EntriesTo(i, k)) \in 1 .. c
        OBVIOUS
      <4>1. k \in EntriesTo(i, k)
        BY <3>2 DEF EntriesTo
      <4>2. Cardinality(EntriesTo(i, k)) <= c
        BY <3>2, <3>4, FS_Subset
      <4>3. Cardinality(EntriesTo(i, k)) # 0
        BY <4>1, <3>2, FS_EmptySet
      <4> QED  BY <4>2, <4>3, <3>2
    <3> HIDE DEF E, c
    <3>6. InOrder(i)'
      <4> SUFFICES ASSUME NEW j \in E \cup {n + 1}, NEW k \in E \cup {n + 1}, j < k
                   PROVE  /\ log'[j][3] \notin Ended
                          /\ lost' = 0 /\ EntriesTo(i, k)' \ EntriesTo(i, j)' = {k} => log'[k][2] = log'[j][3]
        BY <3>1 DEF InOrder
      <4>1. j \in E /\ log'[j] = log[j] /\ EntriesTo(i, j)' = EntriesTo(i, j)
        BY <3>1, <3>2
      <4>2. log'[j][3] \notin Ended
        BY <4>1, <2>2 DEF E
      <4>3. CASE k \in E
        <5>1. log'[k] = log[k] /\ EntriesTo(i, k)' = EntriesTo(i, k)
          BY <4>3, <3>1
        <5>2. lost = 0 /\ EntriesTo(i, k) \ EntriesTo(i, j) = {k} => log[k][2] = log[j][3]
          BY <2>1, <4>1, <4>3 DEF InOrder, E
        <5> QED  BY <5>1, <5>2, <4>1, <4>2, <1>11
      <4>4. ASSUME k = n + 1, lost' = 0, EntriesTo(i, k)' \ EntriesTo(i, j)' = {k}
            PROVE  log'[k][2] = log'[j][3]
        <5>1. EntriesTo(i, j) = E
          <6>1. EntriesTo(i, k)' = E \cup {k} /\ EntriesTo(i, j) \subseteq E
            BY <4>4, <3>1, <3>4
          <6>2. k \notin E
            BY <4>4, <3>2
          <6> QED  BY <6>1, <6>2, <4>1, <4>4
        <5>2. IsHistory(i)
          BY <2>1, <4>4, <1>11
        <5>3. root[i][c + 1] = log[j][3] /\ Len(root[i]) = c + 1
          BY <5>1, <5>2, <4>1 DEF IsHistory, E, c
        <5>4. from = log[j][3]
          BY <5>3 DEF from, StateIn, Last
        <5>5. log'[k][2] = from
          BY <4>4, <3>1, <1>4
        <5> QED  BY <5>4, <5>5, <4>1
      <4> QED  BY <4>2, <4>3, <4>4
    <3>7. StaysEnded(i)'
      <4> SUFFICES ASSUME NEW j \in E \cup {n + 1}, log'[j][3] \in Ended
                   PROVE  StateIn(root', i) \in Ended
        BY <3>1 DEF StaysEnded
      <4>1. j = n + 1
        BY <2>2, <3>1 DEF E
      <4> QED  BY <4>1, <3>1, <1>4, <1>8
    <3>8. ASSUME lost' = 0 PROVE IsHistory(i)'
      <4>1. IsHistory(i)
        BY <2>1, <3>8, <1>11
      <4>2. i \in DOMAIN shadow' /\ shadow'[i] = StateIn(root', i)
        BY <3>8, <1>8, <1>11 DEF Plus
      <4>3. Len(root[i]) = c + 1 /\ root[i][1] = "CREATED"
        BY <4>1 DEF IsHistory, E, c
      <4>4. Len(root'[i]) = Cardinality(Entries(i)') + 1 /\ root'[i][1] = "CREATED"
        BY <4>3, <3>1, <3>2, <3>3, <1>7
      <4>5. ASSUME NEW k \in E \cup {n + 1}
            PROVE  root'[i][Cardinality(EntriesTo(i, k)') + 1] = log'[k][3]
        <5>1. CASE k \in E
          <6>1. root[i][Cardinality(EntriesTo(i, k)) + 1] = log[k][3]
            BY <5>1, <4>1 DEF IsHistory, E
          <6>2. Cardinality(EntriesTo(i, k)) + 1 \in 1 .. Len(root[i])
            BY <5>1, <3>2, <3>5, <4>3
          <6> QED  BY <6>1, <6>2, <5>1, <3>1, <1>7
        <5>2. CASE k = n + 1
          <6>1. EntriesTo(i, k)' = E \cup {n + 1}
            BY <5>2, <3>1
          <6>2. Cardinality(EntriesTo(i, k)') + 1 = Len(root[i]) + 1
            BY <6>1, <3>3, <4>3
          <6> QED  BY <6>2, <5>2, <3>1, <1>4, <1>7
        <5> QED  BY <5>1, <5>2
      <4> QED  BY <4>2, <4>4, <4>5, <3>1 DEF IsHistory
    <3> QED  BY <3>6, <3>7, <3>8
  <2> QED  BY <2>3, <2>4, <1>14
<1> QED  BY <1>16, <1>18, <1>19, <1>20 DEF FsmInv, StoryKept

LEMMA FsmStart == FsmInit => FsmInv
<1> SUFFICES ASSUME FsmInit PROVE FsmInv
  OBVIOUS
<1>1. /\ root = NoRow /\ log = <<>> /\ lost = 0
      /\ making = [m \in Makers |-> NoFsmId]
  BY DEF FsmInit
<1>2. \A i : Entries(i) = {} /\ ~Held(i)
  BY <1>1 DEF Entries, Held
<1>3. FsmTypes
  BY <1>1 DEF FsmTypes
<1>4. \A m \in Makers : making[m] \notin FsmIds
  BY <1>1, FsmAssumption
<1> QED  BY <1>2, <1>3, <1>4 DEF FsmInv, IdsApart, StoryKept, InOrder, StaysEnded

LEMMA FsmStep == FsmInv /\ [FsmNext]_fsmVars => FsmInv'
<1> SUFFICES ASSUME FsmInv, [FsmNext]_fsmVars PROVE FsmInv'
  OBVIOUS
<1>1. making \in [Makers -> FsmIds \cup {NoFsmId, Looking}] /\ log \in Seq(LogRows)
  BY DEF FsmInv, FsmTypes
<1>2. \A i : Unheard(i) => /\ i \notin DOMAIN LegacyEscrows /\ Entries(i) = {}
                           /\ root # NoRow => i \notin DOMAIN root
                           /\ \A m \in Makers : making[m] # i
  <2>1. Range(log) = {log[k] : k \in DOMAIN log}
    BY DEF Range
  <2> QED  BY <2>1 DEF Unheard, Entries
<1>3. \A m \in Makers : making[m] \in FsmIds =>
        /\ making[m] \in Own /\ Entries(making[m]) = {}
        /\ root # NoRow => making[m] \notin DOMAIN root
        /\ \A n \in Makers \ {m} : making[n] # making[m]
  BY DEF FsmInv, IdsApart
<1>4. ASSUME NEW i \in FsmIds, CreateProtocol(i) PROVE FsmInv'
  <2>1. root # NoRow /\ Unheard(i) /\ Made(root, i) /\ making' = making
    BY <1>4 DEF CreateProtocol
  <2>2. IsStore(root) /\ i \in Own /\ Entries(i) = {}
    BY <2>1, <1>2 DEF FsmInv, FsmTypes, Own
  <2>3. \A x \in DOMAIN root \cap Own : Held(x) /\ root[x] = root[x]
    BY <2>1 DEF Held
  <2>4. \A m \in Makers : making'[m] \in FsmIds =>
          making[m] = making'[m] /\ making'[m] \notin DOMAIN root \cup {i}
    BY <2>1, <1>2, <1>3
  <2> QED  BY <2>1, <2>2, <2>3, <2>4, <1>1, MadeKeeps
<1>5. ASSUME NEW i \in FsmIds, NEW s \in EscrowStates, Transition(i, s) PROVE FsmInv'
  BY <1>5, TransitionKeeps
<1>6. ASSUME NEW m \in Makers, FoundLegacy(m) PROVE FsmInv'
  <2>1. making[m] # NoFsmId /\ making' = [making EXCEPT ![m] = NoFsmId]
    BY <1>6 DEF FoundLegacy
  <2>2. /\ making' \in [Makers -> FsmIds \cup {NoFsmId, Looking}]
        /\ \A n \in Makers : making'[n] \in FsmIds => n # m /\ making'[n] = making[n]
    BY <2>1, <1>1, FsmAssumption
  <2>3. CASE making[m] = Looking
    <3>1. UNCHANGED <<shadow, log, lost>> /\ (root' = root \/ root' = LegacyRoot)
      BY <1>6, <2>3 DEF FoundLegacy
    <3>2. \A i : Entries(i)' = Entries(i)
      BY <3>1 DEF Entries
    <3>3. IdsApart'
      <4> SUFFICES ASSUME NEW n \in Makers, making'[n] \in FsmIds
                   PROVE  /\ making[n] \in Own /\ Entries(making[n])' = {}
                          /\ root' # NoRow => making[n] \notin DOMAIN root'
                          /\ \A k \in Makers \ {n} : making'[k] # making[n]
        BY <2>2 DEF IdsApart, Own
      <4>1. making'[n] = making[n] /\ n # m
        BY <2>2
      <4>2. making[n] \in Own /\ making[n] \notin DOMAIN LegacyRoot
        BY <4>1, <1>3, LegacyStore DEF Own
      <4>3. \A k \in Makers \ {n} : making'[k] # making[n]
        BY <4>1, <2>1, <1>1, <1>3, FsmAssumption
      <4>4. making'[n] = making[n] /\ Entries(making[n]) = {}
        BY <4>1, <1>3
      <4>5. root' # NoRow => making[n] \notin DOMAIN root'
        BY <4>1, <4>2, <3>1, <1>3
      <4> QED  BY <4>2, <4>3, <4>4, <4>5, <3>2
    <3> QED  BY <3>1, <3>3, <2>2, LookingKeeps
  <2>4. CASE making[m] # Looking
    <3>1. making[m] \in FsmIds /\ Made(LegacyRoot, making[m])
      BY <1>6, <2>1, <2>4, <1>1 DEF FoundLegacy
    <3>2. making[m] \in Own /\ Entries(making[m]) = {}
      BY <3>1, <1>3
    <3>3. \A x \in DOMAIN LegacyRoot \cap Own : Held(x) /\ LegacyRoot[x] = root[x]
      BY LegacyStore DEF Own
    <3>4. \A n \in Makers : making'[n] \in FsmIds =>
            making[n] = making'[n] /\ making'[n] \notin DOMAIN LegacyRoot \cup {making[m]}
      BY <2>2, <1>3, LegacyStore DEF Own
    <3> QED  BY <3>1, <3>2, <3>3, <3>4, <2>2, LegacyStore, MadeKeeps
  <2> QED  BY <2>3, <2>4
<1>7. ASSUME NEW m \in Makers, NEW i \in FsmIds \cup {Looking}, ReadLegacy(m, i) PROVE FsmInv'
  <2>1. /\ root = NoRow /\ making[m] = NoFsmId /\ (i = Looking \/ Unheard(i))
        /\ making' = [making EXCEPT ![m] = i] /\ UNCHANGED <<root, shadow, log, lost>>
    BY <1>7 DEF ReadLegacy
  <2>2. making' \in [Makers -> FsmIds \cup {NoFsmId, Looking}]
    BY <2>1, <1>1
  <2>3. \A x : Entries(x)' = Entries(x)
    BY <2>1 DEF Entries
  <2>4. IdsApart'
    <3> SUFFICES ASSUME NEW n \in Makers, making'[n] \in FsmIds
                 PROVE  /\ making'[n] \in Own /\ Entries(making[n])' = {}
                        /\ \A k \in Makers \ {n} : making'[k] # making'[n]
      BY <2>1 DEF IdsApart, Own
    <3>1. CASE n = m
      <4>1. making'[n] = i /\ i \in FsmIds /\ Unheard(i)
        BY <3>1, <2>1, <1>1, FsmAssumption
      <4>2. i \in Own /\ Entries(i) = {} /\ \A k \in Makers : making[k] # i
        BY <4>1, <1>2 DEF Own
      <4> QED  BY <4>1, <4>2, <2>1, <2>3, <1>1, <3>1
    <3>2. CASE n # m
      <4>1. making'[n] = making[n] /\ making[n] \in FsmIds
        BY <3>2, <2>1, <1>1
      <4>2. i # making[n]
        BY <4>1, <2>1, <1>2, FsmAssumption
      <4> QED  BY <4>1, <4>2, <2>1, <2>3, <1>1, <1>3
    <3> QED  BY <3>1, <3>2
  <2> QED  BY <2>1, <2>2, <2>4, LookingKeeps
<1>8. CASE FsmRestart
  <2>1. making' = [m \in Makers |-> NoFsmId] /\ UNCHANGED <<root, shadow, log, lost>>
    BY <1>8 DEF FsmRestart
  <2>2. making' \in [Makers -> FsmIds \cup {NoFsmId, Looking}] /\ \A m \in Makers : making'[m] \notin FsmIds
    BY <2>1, FsmAssumption
  <2>3. IdsApart'
    BY <2>2 DEF IdsApart
  <2> QED  BY <2>1, <2>2, <2>3, LookingKeeps
<1>9. CASE UNCHANGED fsmVars
  <2>1. UNCHANGED <<root, shadow, log, making, lost>>
    BY <1>9 DEF fsmVars
  <2>2. \A i : Entries(i)' = Entries(i)
    BY <2>1 DEF Entries
  <2>3. IdsApart'
    BY <2>1, <2>2, <1>3 DEF IdsApart, Own
  <2> QED  BY <2>1, <2>3, <1>1, LookingKeeps
<1> QED  BY <1>4, <1>5, <1>6, <1>7, <1>8, <1>9 DEF FsmNext

(* Whatever handlers stop halfway and however they race for the first row, *)
(* the log ends no escrow of this program twice and tells its moves in     *)
(* order; while no handler stopped, it is the history of every escrow the  *)
(* store holds (escrow-fsm.ts transitionEscrow, lib/escrow-unified.ts).    *)
THEOREM LogTells == FsmSpec => []LogTellsHistory
<1>1. FsmInv => LogTellsHistory
  BY DEF FsmInv, StoryKept, InOrder, IsHistory, Held, LogTellsHistory, Own, FsmTypes, IsStore
<1> QED  BY <1>1, FsmStart, FsmStep, PTL DEF FsmSpec

-----------------------------------------------------------------------------
(* What the steps of TrustProtocol are, and what its scores can be.        *)
Kinds == {"scan", "passport", "receipt", "audit", "trust", "credit", "pipeline"}

LEMMA PipelineSteps ==
  /\ Len(Steps("pipeline")) = 9
  /\ Steps("pipeline")[1] = "passports" /\ Steps("pipeline")[2] = "verify"
  /\ Steps("pipeline")[3] = "history" /\ Steps("pipeline")[4] = "graph"
  /\ Steps("pipeline")[5] = "oracle" /\ Steps("pipeline")[6] = "verify"
  /\ Steps("pipeline")[7] = "history" /\ Steps("pipeline")[8] = "credit"
  /\ Steps("pipeline")[9] = "guard"
BY DEF Steps

LEMMA OnlyPipelinesAskTheGuard ==
  \A d \in Kinds : \A k \in 1 .. Len(Steps(d)) : Steps(d)[k] = "guard" => d = "pipeline"
BY DEF Kinds, Steps

LEMMA StepsCounted == \A d \in Kinds : Len(Steps(d)) \in Nat \ {0}
BY DEF Kinds, Steps

LEMMA GoodTrust ==
  ASSUME NEW erc \in Nat, NEW rate \in {0, 2}
  PROVE  TrustScore(erc, rate, DefaultPoints) \in 52 .. 100
<1> DEFINE n == Bounded(0, 45 * erc + (2500 - 200 * rate) + DefaultPoints, 10000) + 50
<1>1. n \in 5250 .. 10050
  BY DEF Bounded, DefaultPoints
<1> HIDE DEF n
<1>2. n \div 100 \in 52 .. 100
  BY <1>1
<1> QED  BY <1>2 DEF TrustScore, n

LEMMA GoodCredit ==
  ASSUME NEW trust \in 52 .. 100, NEW settled \in Nat
  PROVE  CreditScore(trust, 0, settled) \in 508 .. 900
BY DEF CreditScore, Bounded

LEMMA SmallFraud ==
  ASSUME NEW w, NEW ask, ask.hashes = 0
  PROVE  FraudScore(w, ask) \in {8, 43}
BY DEF FraudScore, Bounded

LEMMA GoodAnswers ==
  ASSUME NEW s, s.trust \in 52 .. 100, s.fraud \in {8, 43}, s.credit \in 508 .. 900, s.cents \in Int
  PROVE  /\ TrustTier(s.trust) \in {"SILVER", "GOLD", "PLATINUM"}
         /\ Band(s.credit) # "high_risk"
         /\ Allows(s) <=> s.guard /\ s.votes >= Quorum
<1>1. ComplianceAllows(s.cents)
  BY DEF ComplianceAllows, HighVolume, KycRequired
<1>2. TrustTier(s.trust) \in {"SILVER", "GOLD", "PLATINUM"}
  BY DEF TrustTier
<1>3. Band(s.credit) # "high_risk"
  BY DEF Band
<1>4. s.fraud < 60 /\ s.credit >= 500
  OBVIOUS
<1> QED  BY <1>1, <1>2, <1>3, <1>4 DEF Allows

-----------------------------------------------------------------------------
(* What each lane has learnt, by the step it is at.                        *)
Learnt == [erc : Nat, trust : Int, fraud : Int, votes : Nat, credit : Int, guard : BOOLEAN, cents : Int]
Tickets == [ask : Asked \cup {NoStore}, at : Nat, looking : BOOLEAN, seen : Learnt]

OnPlan(lane) == lane.at # 0 =>
    /\ lane.ask \in Asked /\ lane.at \in 1 .. Len(Steps(lane.ask.does))
    /\ lane.ask.does = "pipeline" =>
         /\ lane.at > 3 => lane.seen.trust \in 52 .. 100
         /\ lane.at > 4 => lane.seen.fraud \in {8, 43}
         /\ lane.at > 8 => lane.seen.credit \in 508 .. 900
Planned == lines \in [Lines -> Tickets] /\ \A l \in Lines : OnPlan(lines[l])

(* Until two look at once, who looks is alone and finds no row.            *)
LooksAlone(s) == s \notin raced => /\ \A l, m \in Lookers(s) : l = m
                                   /\ Lookers(s) # {} => s \notin DOMAIN stores
StoreVouches == \A v \in vouched : v[1] \notin raced => v[1] \in DOMAIN stores /\ v[2] \in DOMAIN stores[v[1]]

Scans(rows, a) == WalletIn(rows, a).count
Counted(n, k, old, alone) == n \in Nat /\ n <= k + old /\ (alone => n \in {k, k + old})
GraphCounts ==
    /\ scanned \in [Agents -> Nat]
    /\ "graph" \notin DOMAIN stores => \A a \in Agents : scanned[a] = 0
    /\ "graph" \in DOMAIN stores =>
         \A a \in Agents : Counted(Scans(stores["graph"], a), scanned[a], Scans(OldRows("graph"), a), "graph" \notin raced)

Answered(o) == /\ TrustTier(o.seen.trust) \in {"SILVER", "GOLD", "PLATINUM"}
               /\ Band(o.seen.credit) # "high_risk"
               /\ o.allowed <=> o.seen.guard /\ o.seen.votes >= Quorum

Shelves == (\A s \in ProtocolStores : LooksAlone(s)) /\ StoreVouches /\ GraphCounts
CreditsKept == \A a \in DOMAIN credits : credits[a] \in Seq(Int)
TrustInv == Planned /\ Shelves /\ CreditsKept /\ (outcome # NoStore => Answered(outcome))

LEMMA OldScans == \A a : Scans(OldRows("graph"), a) \in Nat
<1> SUFFICES ASSUME NEW a PROVE WalletIn(OldRows("graph"), a).count \in Nat
  BY DEF Scans
<1>1. CASE "graph" \in DOMAIN LegacyStores
  BY <1>1, TrustAssumption DEF OldRows, WalletIn, NewWallet
<1>2. CASE "graph" \notin DOMAIN LegacyStores
  BY <1>2 DEF OldRows, WalletIn, NewWallet, EmptyRows
<1> QED  BY <1>1, <1>2

LEMMA RowPut ==
  ASSUME NEW f, NEW k, NEW x
  PROVE  /\ DOMAIN PutRow(f, k, x) = DOMAIN f \cup {k} /\ PutRow(f, k, x)[k] = x
         /\ \A j \in DOMAIN f \ {k} : PutRow(f, k, x)[j] = f[j]
BY DEF PutRow

(* A step done: its lane goes on, and looks at nothing any more.           *)
LEMMA LearnsOn ==
  ASSUME Planned, NEW l \in Lines, lines[l].at # 0, NEW seen \in Learnt, Learns(l, seen),
         ~IsLast(lines[l]) => OnPlan(Onward(lines[l], seen))
  PROVE  Planned' /\ \A s : Lookers(s)' = Lookers(s) \ {l}
<1> DEFINE new == IF IsLast(lines[l]) THEN Free ELSE Onward(lines[l], seen)
<1>1. lines' = [lines EXCEPT ![l] = new]
  BY DEF Learns
<1>2. lines[l] \in Tickets
  BY DEF Planned
<1>3. Onward(lines[l], seen) \in Tickets /\ ~Onward(lines[l], seen).looking
  BY <1>2 DEF Tickets, Onward
<1>4. Free \in Tickets /\ OnPlan(Free) /\ Free.looking = FALSE
  BY DEF Free, Tickets, Learnt, Seen, OnPlan
<1>6. new \in Tickets /\ OnPlan(new) /\ ~new.looking
  BY <1>3, <1>4
<1> HIDE DEF new
<1>7. lines' \in [Lines -> Tickets] /\ lines'[l] = new /\ \A m \in Lines \ {l} : lines'[m] = lines[m]
  BY <1>1, <1>6 DEF Planned
<1>8. \A m \in Lines : OnPlan(lines'[m])
  BY <1>6, <1>7 DEF Planned
<1>9. \A s : Lookers(s)' = Lookers(s) \ {l}
  BY <1>6, <1>7 DEF Lookers, StepOf
<1> QED  BY <1>7, <1>8, <1>9 DEF Planned

(* Whatever leaves the rows alone and looks no further keeps the shelves.  *)
LEMMA ShelvesStand ==
  ASSUME Shelves, UNCHANGED <<stores, vouched, scanned, raced>>,
         \A s \in ProtocolStores : Lookers(s)' \subseteq Lookers(s)
  PROVE  Shelves'
<1>1. \A s \in ProtocolStores : LooksAlone(s)'
  BY DEF Shelves, LooksAlone
<1>2. StoreVouches' /\ GraphCounts'
  BY DEF Shelves, StoreVouches, GraphCounts, Scans, OldRows
<1> QED  BY <1>1, <1>2 DEF Shelves

(* Rows are written over the row they were read from, or over a legacy     *)
(* file read while the row was not there.                                  *)
Origin(l, s, rows) == \/ s \in DOMAIN stores /\ rows = stores[s]
                      \/ l \in Lookers(s) /\ rows = OldRows(s)

LEMMA RowsKept ==
  ASSUME Shelves, NEW l, NEW s \in ProtocolStores, NEW rows, Origin(l, s, rows), NEW k, NEW x,
         Writes(s, PutRow(rows, k, x)), raced' = raced,
         vouched' \subseteq vouched \cup {<<s, k>>},
         \A t \in ProtocolStores : Lookers(t)' = Lookers(t) \ {l}
  PROVE  (\A t \in ProtocolStores : LooksAlone(t)') /\ StoreVouches'
<1> DEFINE new == PutRow(rows, k, x)
<1>1. DOMAIN new = DOMAIN rows \cup {k}
  BY RowPut
<1>a. stores' = PutRow(stores, s, new)
  BY DEF Writes
<1> HIDE DEF new
<1>2. /\ DOMAIN stores' = DOMAIN stores \cup {s} /\ stores'[s] = new
      /\ \A t \in DOMAIN stores \ {s} : stores'[t] = stores[t]
  BY <1>a DEF PutRow
<1>3. s \notin raced /\ s \in DOMAIN stores => rows = stores[s] /\ Lookers(s) = {}
  BY DEF Shelves, LooksAlone, Origin
<1>4. s \notin raced => Lookers(s)' = {}
  BY <1>3 DEF Shelves, LooksAlone, Origin
<1>5. ASSUME NEW t \in ProtocolStores PROVE LooksAlone(t)'
  BY <1>2, <1>4 DEF Shelves, LooksAlone
<1>6. ASSUME NEW v \in vouched', v[1] \notin raced
      PROVE  v[1] \in DOMAIN stores' /\ v[2] \in DOMAIN stores'[v[1]]
  <2>1. CASE v \in vouched /\ v[1] # s
    BY <1>2, <1>6, <2>1 DEF Shelves, StoreVouches
  <2>2. CASE v \in vouched /\ v[1] = s
    BY <1>1, <1>2, <1>3, <1>6, <2>2 DEF Shelves, StoreVouches
  <2>3. CASE v = <<s, k>>
    BY <1>1, <1>2, <2>3
  <2> QED  BY <2>1, <2>2, <2>3
<1> QED  BY <1>5, <1>6 DEF StoreVouches

(* An edit of another store leaves the graph as it counts.                 *)
LEMMA OtherRowsCountAlike ==
  ASSUME GraphCounts, NEW s, s # "graph", NEW rows, Writes(s, rows), UNCHANGED <<scanned, raced>>
  PROVE  GraphCounts'
<1>1. /\ "graph" \in DOMAIN stores' <=> "graph" \in DOMAIN stores
      /\ "graph" \in DOMAIN stores => stores'["graph"] = stores["graph"]
  BY DEF Writes, PutRow
<1> QED  BY <1>1 DEF GraphCounts, Scans, OldRows

(* An edit of the graph counts one more scan of its agent.                 *)
LEMMA ScanCounts ==
  ASSUME Shelves, NEW l, NEW rows, Origin(l, "graph", rows), NEW ask, NEW a \in Agents,
         Writes("graph", PutRow(rows, a, ScannedWallet(WalletIn(rows, a), ask))),
         scanned' = [scanned EXCEPT ![a] = @ + 1], raced' = raced
  PROVE  GraphCounts'
<1> DEFINE w == ScannedWallet(WalletIn(rows, a), ask)
           new == PutRow(rows, a, w)
           old(b) == Scans(OldRows("graph"), b)
           alone == "graph" \notin raced
<1>a. w.count = Scans(rows, a) + 1
  BY DEF Scans, ScannedWallet
<1> HIDE DEF w
<1>b. DOMAIN new = DOMAIN rows \cup {a} /\ new[a] = w /\ \A b \in DOMAIN rows \ {a} : new[b] = rows[b]
  BY DEF PutRow
<1>c. stores' = PutRow(stores, "graph", new)
  BY DEF Writes, w
<1> HIDE DEF new
<1>1. Scans(new, a) = Scans(rows, a) + 1
  BY <1>a, <1>b DEF Scans, WalletIn
<1>2. \A b \in Agents \ {a} : Scans(new, b) = Scans(rows, b)
  BY <1>b DEF Scans, WalletIn
<1>3. "graph" \in DOMAIN stores' /\ stores'["graph"] = new
  BY <1>c DEF PutRow
<1>4. /\ scanned \in [Agents -> Nat] /\ scanned' \in [Agents -> Nat] /\ scanned'[a] = scanned[a] + 1
      /\ \A b \in Agents \ {a} : scanned'[b] = scanned[b]
  BY DEF Shelves, GraphCounts
<1>5. \A b \in Agents : old(b) \in Nat
  BY OldScans
<1>6. ASSUME NEW b \in Agents PROVE Counted(Scans(rows, b), scanned[b], old(b), alone)
  <2>1. CASE "graph" \in DOMAIN stores /\ rows = stores["graph"]
    BY <2>1 DEF Shelves, GraphCounts
  <2>2. CASE l \in Lookers("graph") /\ rows = OldRows("graph")
    <3>1. alone => scanned[b] = 0
      BY <2>2 DEF Shelves, LooksAlone, GraphCounts, ProtocolStores
    <3> QED  BY <1>4, <1>5, <2>2, <3>1 DEF Counted
  <2> QED  BY <2>1, <2>2 DEF Origin
<1> HIDE DEF old
<1>7. ASSUME NEW b \in Agents PROVE Counted(Scans(new, b), scanned'[b], old(b), alone)
  <2>1. CASE b = a
    BY <1>1, <1>4, <1>5, <1>6, <2>1 DEF Counted
  <2>2. CASE b # a
    BY <1>2, <1>4, <1>6, <2>2
  <2> QED  BY <2>1, <2>2
<1> QED  BY <1>3, <1>4, <1>7 DEF GraphCounts, old, Scans, OldRows

-----------------------------------------------------------------------------
(* A step of a pipeline learns what is its own to learn, and keeps what    *)
(* the steps before it learnt.                                             *)
Gathers(lane, seen) ==
  /\ IF StepOf(lane) = "history" THEN seen.trust \in 52 .. 100 ELSE seen.trust = lane.seen.trust
  /\ IF StepOf(lane) = "graph" THEN seen.fraud \in {8, 43} ELSE seen.fraud = lane.seen.fraud
  /\ IF StepOf(lane) = "credit" THEN seen.credit \in 508 .. 900 ELSE seen.credit = lane.seen.credit

LEMMA GatheredOnPlan ==
  ASSUME NEW lane, OnPlan(lane), lane.at # 0, ~IsLast(lane), NEW seen,
         lane.ask.does = "pipeline" => Gathers(lane, seen)
  PROVE  OnPlan(Onward(lane, seen))
<1> DEFINE next == Onward(lane, seen)
<1>1. next.ask = lane.ask /\ next.at = lane.at + 1 /\ next.seen = seen
  BY DEF Onward
<1> HIDE DEF next
<1>2. lane.ask \in Asked /\ lane.at \in 1 .. Len(Steps(lane.ask.does))
  BY DEF OnPlan
<1>3. Len(Steps(lane.ask.does)) \in Nat
  BY <1>2, StepsCounted, TrustAssumption DEF Kinds
<1>4. next.at \in 1 .. Len(Steps(next.ask.does))
  BY <1>1, <1>2, <1>3 DEF IsLast
<1>5. ASSUME lane.ask.does = "pipeline"
      PROVE  /\ next.at > 3 => seen.trust \in 52 .. 100
             /\ next.at > 4 => seen.fraud \in {8, 43}
             /\ next.at > 8 => seen.credit \in 508 .. 900
  <2>1. lane.at \in 1 .. 9 /\ StepOf(lane) = Steps("pipeline")[lane.at]
    BY <1>2, <1>5, PipelineSteps DEF StepOf
  <2>2. lane.at = 3 => StepOf(lane) = "history"
    BY <2>1, PipelineSteps
  <2>3. lane.at = 4 => StepOf(lane) = "graph"
    BY <2>1, PipelineSteps
  <2>4. lane.at = 8 => StepOf(lane) = "credit"
    BY <2>1, PipelineSteps
  <2>5. /\ lane.at > 3 => lane.seen.trust \in 52 .. 100
        /\ lane.at > 4 => lane.seen.fraud \in {8, 43}
        /\ lane.at > 8 => lane.seen.credit \in 508 .. 900
    BY <1>5 DEF OnPlan
  <2>6. Gathers(lane, seen) /\ lane.at \in Int
    BY <1>5, <2>1
  <2>7. ASSUME next.at > 3 PROVE seen.trust \in 52 .. 100
    BY <1>1, <2>2, <2>5, <2>6, <2>7 DEF Gathers
  <2>8. ASSUME next.at > 4 PROVE seen.fraud \in {8, 43}
    BY <1>1, <2>3, <2>5, <2>6, <2>8 DEF Gathers
  <2>9. ASSUME next.at > 8 PROVE seen.credit \in 508 .. 900
    BY <1>1, <2>4, <2>5, <2>6, <2>9 DEF Gathers
  <2> QED  BY <2>7, <2>8, <2>9
<1> QED  BY <1>1, <1>2, <1>4, <1>5 DEF OnPlan, next

LEMMA Scores ==
  /\ \A erc, rate, points \in Int : TrustScore(erc, rate, points) \in Int
  /\ \A w, ask : FraudScore(w, ask) \in Int
  /\ \A trust, disputes, settled \in Int : CreditScore(trust, disputes, settled) \in Int
<1>1. ASSUME NEW erc \in Int, NEW rate \in Int, NEW points \in Int PROVE TrustScore(erc, rate, points) \in Int
  <2> DEFINE n == Bounded(0, 45 * erc + (2500 - 200 * rate) + points, 10000) + 50
  <2>1. n \in Int
    BY DEF Bounded
  <2> HIDE DEF n
  <2>2. n \div 100 \in Int
    BY <2>1
  <2> QED  BY <2>2 DEF TrustScore, n
<1>2. \A w, ask : FraudScore(w, ask) \in Int
  BY DEF FraudScore, Bounded
<1>3. \A trust, disputes, settled \in Int : CreditScore(trust, disputes, settled) \in Int
  BY DEF CreditScore, Bounded
<1> QED  BY <1>1, <1>2, <1>3

LEMMA LatestOfScores ==
  ASSUME NEW s \in Seq(Int), NEW n \in Nat
  PROVE  Latest(s, n) \in Seq(Int)
<1> DEFINE from == IF Len(s) > n THEN Len(s) - n + 1 ELSE 1
<1>1. from \in Int /\ Len(s) \in Int /\ \A i \in from .. Len(s) : s[i] \in Int
  OBVIOUS
<1> HIDE DEF from
<1>2. SubSeq(s, from, Len(s)) \in Seq(Int)
  BY <1>1, SubSeqProperties
<1> QED  BY <1>2 DEF Latest, from

(* The trust score a pipeline works out never falls below 52.              *)
LEMMA TrustStepped ==
  ASSUME NEW lane, lane.ask \in Asked, lane.seen.erc \in Nat
  PROVE  TrustStep(lane) \in Int /\ (lane.ask.does = "pipeline" => TrustStep(lane) \in 52 .. 100)
<1>1. DefaultPoints \in Int /\ lane.ask.rate \in Int /\ lane.ask.points \in Int /\ DisputesTold(lane) \in Int
      /\ lane.seen.erc \in Int
  BY TrustAssumption DEF DefaultPoints, DisputesTold
<1> DEFINE rate == IF ForCredit(lane) THEN 2 * DisputesTold(lane) ELSE 2
<1>2. rate \in Int
  BY <1>1
<1>3. lane.ask.does = "pipeline" => rate \in {0, 2}
  BY DEF DisputesTold
<1> HIDE DEF rate
<1>4. TrustScore(lane.seen.erc, rate, DefaultPoints) \in Int
  BY <1>1, <1>2, Scores
<1>5. TrustScore(lane.seen.erc, lane.ask.rate, lane.ask.points) \in Int
  BY <1>1, Scores
<1>6. lane.ask.does = "pipeline" => TrustScore(lane.seen.erc, rate, DefaultPoints) \in 52 .. 100
  BY <1>3, GoodTrust
<1> QED  BY <1>4, <1>5, <1>6 DEF TrustStep, rate

-----------------------------------------------------------------------------
(* A request's lane, while a step of it runs.                              *)
LEMMA Running ==
  ASSUME Planned, NEW l \in Lines, lines[l].at # 0
  PROVE  /\ lines[l].ask \in Asked /\ lines[l].seen \in Learnt /\ OnPlan(lines[l])
         /\ lines[l].at \in 1 .. Len(Steps(lines[l].ask.does))
         /\ lines[l].ask.agent \in Agents
BY DEF Planned, OnPlan, Tickets, Agents

LEMMA LearnsMore ==
  ASSUME Planned, NEW l \in Lines, lines[l].at # 0, NEW seen \in Learnt, Learns(l, seen),
         lines[l].ask.does = "pipeline" => Gathers(lines[l], seen)
  PROVE  Planned' /\ \A s : Lookers(s)' = Lookers(s) \ {l}
<1>1. ~IsLast(lines[l]) => OnPlan(Onward(lines[l], seen))
  BY GatheredOnPlan, Running
<1> QED  BY <1>1, LearnsOn

LEMMA EditKeeps ==
  ASSUME TrustInv, NEW l \in Lines, lines[l].at # 0, NEW s \in ProtocolStores, StepOf(lines[l]) = s,
         NEW rows, Origin(l, s, rows), Edited(l, s, rows), UNCHANGED <<credits, raced, outcome>>
  PROVE  TrustInv'
<1> DEFINE lane == lines[l]
           a == lane.ask.agent
<1>1. Planned /\ Shelves /\ GraphCounts
  BY DEF TrustInv, Shelves
<1>2. lane.ask \in Asked /\ lane.seen \in Learnt /\ a \in Agents
  BY <1>1, Running
<1>3. CreditsKept' /\ (outcome' # NoStore => Answered(outcome'))
  BY DEF TrustInv, CreditsKept
<1>4. SUFFICES ASSUME NEW seen \in Learnt, lane.ask.does = "pipeline" => Gathers(lane, seen), Learns(l, seen),
                      NEW k, NEW x, Writes(s, PutRow(rows, k, x)), vouched' \subseteq vouched \cup {<<s, k>>},
                      s = "graph" => /\ k = a /\ x = ScannedWallet(WalletIn(rows, a), lane.ask)
                                     /\ scanned' = [scanned EXCEPT ![a] = @ + 1],
                      s # "graph" => scanned' = scanned
               PROVE  TrustInv'
  <2>1. CASE s = "passports"
    <3>1. PICK d \in Dids : Writes(s, PutRow(rows, d, a)) /\ vouched' = vouched \cup {<<s, d>>}
      BY <2>1 DEF Edited
    <3>2. Learns(l, lane.seen) /\ scanned' = scanned /\ Gathers(lane, lane.seen)
      BY <2>1 DEF Edited, Gathers
    <3> QED  BY <1>2, <1>4, <2>1, <3>1, <3>2
  <2>2. CASE s \in {"receipts", "audits"}
    <3>1. /\ Writes(s, PutRow(rows, Keyed(lane.ask, s), lane.ask.trace))
          /\ vouched' = vouched \cup {<<s, Keyed(lane.ask, s)>>}
          /\ Learns(l, lane.seen) /\ scanned' = scanned /\ Gathers(lane, lane.seen)
      BY <2>2 DEF Edited, Gathers
    <3> QED  BY <1>2, <1>4, <2>2, <3>1
  <2>3. CASE s = "graph"
    <3> DEFINE w == ScannedWallet(WalletIn(rows, a), lane.ask)
               f == FraudScore(w, lane.ask)
               seen == [lane.seen EXCEPT !.fraud = f]
    <3>1. /\ Writes(s, PutRow(rows, a, w)) /\ Learns(l, seen)
          /\ scanned' = [scanned EXCEPT ![a] = @ + 1] /\ vouched' = vouched
      BY <2>3 DEF Edited
    <3>2. f \in Int /\ (lane.ask.does = "pipeline" => f \in {8, 43})
      BY <1>2, Scores, SmallFraud, TrustAssumption
    <3> HIDE DEF f
    <3>3. seen \in Learnt /\ (lane.ask.does = "pipeline" => Gathers(lane, seen))
      BY <1>2, <2>3, <3>2 DEF Learnt, Gathers
    <3> HIDE DEF seen, w
    <3> QED  BY <1>4, <2>3, <3>1, <3>3 DEF w
  <2>4. CASE s = "history"
    <3> DEFINE t == TrustStep(lane)
               seen == [lane.seen EXCEPT !.trust = t]
               row == Latest(Append(IF a \in DOMAIN rows THEN rows[a] ELSE <<>>, t), KeepTrust)
    <3>1. /\ Writes(s, PutRow(rows, a, row)) /\ Learns(l, seen)
          /\ scanned' = scanned /\ vouched' = vouched
      BY <2>4 DEF Edited
    <3>2. lane.seen.erc \in Nat
      BY <1>2 DEF Learnt
    <3>3. t \in Int /\ (lane.ask.does = "pipeline" => t \in 52 .. 100)
      BY <1>2, <3>2, TrustStepped
    <3> HIDE DEF t
    <3>4. seen \in Learnt /\ (lane.ask.does = "pipeline" => Gathers(lane, seen))
      BY <1>2, <2>4, <3>3 DEF Learnt, Gathers
    <3> HIDE DEF seen, row
    <3> QED  BY <1>4, <2>4, <3>1, <3>4
  <2> QED  BY <2>1, <2>2, <2>3, <2>4 DEF ProtocolStores
<1>5. Planned' /\ \A t : Lookers(t)' = Lookers(t) \ {l}
  BY <1>1, <1>4, LearnsMore
<1>6. (\A t \in ProtocolStores : LooksAlone(t)') /\ StoreVouches'
  BY <1>1, <1>4, <1>5, RowsKept
<1>7. GraphCounts'
  <2>1. CASE s = "graph"
    BY <1>1, <1>2, <1>4, <2>1, ScanCounts
  <2>2. CASE s # "graph"
    BY <1>1, <1>4, <2>2, OtherRowsCountAlike
  <2> QED  BY <2>1, <2>2
<1> QED  BY <1>3, <1>5, <1>6, <1>7 DEF TrustInv, Shelves

(* A lane that only learns disturbs no store.                              *)
LEMMA LearningKeeps ==
  ASSUME TrustInv, NEW l \in Lines, lines[l].at # 0, NEW seen \in Learnt, Learns(l, seen),
         lines[l].ask.does = "pipeline" => Gathers(lines[l], seen),
         UNCHANGED <<stores, vouched, scanned, raced, outcome>>, CreditsKept'
  PROVE  TrustInv'
<1>1. Planned' /\ \A s : Lookers(s)' = Lookers(s) \ {l}
  BY LearnsMore DEF TrustInv
<1>2. Shelves'
  BY <1>1, ShelvesStand DEF TrustInv
<1> QED  BY <1>1, <1>2 DEF TrustInv

LEMMA BeginKeeps ==
  ASSUME TrustInv, NEW l \in Lines, NEW ask \in Asked, BeginRequest(l, ask)
  PROVE  TrustInv'
<1> DEFINE seen == [Seen EXCEPT !.cents = ask.cents]
           new == [ask |-> ask, at |-> 1, looking |-> FALSE, seen |-> seen]
<1>1. lines' = [lines EXCEPT ![l] = new]
  BY DEF BeginRequest
<1>2. seen \in Learnt
  <2>1. ask.cents \in Int
    BY TrustAssumption
  <2>2. Seen \in Learnt
    BY DEF Seen, Learnt
  <2> QED  BY <2>1, <2>2 DEF Learnt
<1>3. Len(Steps(ask.does)) \in Nat \ {0}
  BY StepsCounted, TrustAssumption DEF Kinds
<1> HIDE DEF seen
<1>4. new \in Tickets /\ OnPlan(new) /\ ~new.looking
  BY <1>2, <1>3 DEF Tickets, OnPlan
<1> HIDE DEF new
<1>5. lines' \in [Lines -> Tickets] /\ lines'[l] = new /\ \A m \in Lines \ {l} : lines'[m] = lines[m]
  BY <1>1, <1>4 DEF TrustInv, Planned
<1>6. Planned'
  BY <1>4, <1>5 DEF TrustInv, Planned
<1>7. \A s : Lookers(s)' \subseteq Lookers(s)
  BY <1>4, <1>5 DEF Lookers, StepOf
<1>8. Shelves'
  BY <1>7, ShelvesStand DEF TrustInv, BeginRequest
<1> QED  BY <1>6, <1>8 DEF TrustInv, BeginRequest, CreditsKept

(* A lane that starts to look is alone until another looks too.            *)
LEMMA LookKeeps ==
  ASSUME TrustInv, NEW l \in Lines, lines[l].at # 0, NEW s \in ProtocolStores, StepOf(lines[l]) = s,
         s \notin DOMAIN stores, UseStore(l, s)
  PROVE  TrustInv'
<1>1. /\ lines' = [lines EXCEPT ![l].looking = TRUE]
      /\ raced' = IF Lookers(s) = {} THEN raced ELSE raced \cup {s}
      /\ UNCHANGED <<stores, vouched, scanned, credits, outcome>>
  BY DEF UseStore
<1>2. /\ lines' \in [Lines -> Tickets]
      /\ lines'[l].ask = lines[l].ask /\ lines'[l].at = lines[l].at /\ lines'[l].seen = lines[l].seen
      /\ \A m \in Lines \ {l} : lines'[m] = lines[m]
  BY <1>1 DEF TrustInv, Planned, Tickets
<1>3. Planned'
  <2>1. OnPlan(lines'[l])
    BY <1>2 DEF TrustInv, Planned, OnPlan
  <2>2. \A m \in Lines \ {l} : OnPlan(lines'[m])
    BY <1>2 DEF TrustInv, Planned
  <2> QED  BY <1>2, <2>1, <2>2 DEF Planned
<1>4. \A t \in ProtocolStores : Lookers(t)' \subseteq Lookers(t) \cup (IF t = s THEN {l} ELSE {})
  BY <1>2 DEF Lookers, StepOf
<1>5. ASSUME NEW t \in ProtocolStores PROVE LooksAlone(t)'
  BY <1>1, <1>4 DEF TrustInv, Shelves, LooksAlone
<1>6. StoreVouches' /\ GraphCounts'
  BY <1>1 DEF TrustInv, Shelves, StoreVouches, GraphCounts, Counted, Scans, OldRows
<1>7. CreditsKept' /\ (outcome' # NoStore => Answered(outcome'))
  BY <1>1 DEF TrustInv, CreditsKept
<1> QED  BY <1>3, <1>5, <1>6, <1>7 DEF TrustInv, Shelves

LEMMA StoreStepKeeps ==
  ASSUME TrustInv, NEW l \in Lines, lines[l].at # 0, NEW s \in ProtocolStores, StepOf(lines[l]) = s,
         UseStore(l, s) \/ FoundFile(l, s)
  PROVE  TrustInv'
<1>1. CASE FoundFile(l, s)
  <2>1. Origin(l, s, OldRows(s)) /\ Edited(l, s, OldRows(s)) /\ UNCHANGED <<credits, raced, outcome>>
    BY <1>1 DEF FoundFile, Origin, Lookers
  <2> QED  BY <2>1, EditKeeps
<1>2. CASE UseStore(l, s) /\ s \in DOMAIN stores
  <2>1. Origin(l, s, stores[s]) /\ Edited(l, s, stores[s]) /\ UNCHANGED <<credits, raced, outcome>>
    BY <1>2 DEF UseStore, Origin
  <2> QED  BY <2>1, EditKeeps
<1>3. CASE UseStore(l, s) /\ s \notin DOMAIN stores
  BY <1>3, LookKeeps
<1> QED  BY <1>1, <1>2, <1>3

LEMMA VerifyKeeps ==
  ASSUME TrustInv, NEW l \in Lines, lines[l].at # 0, StepOf(lines[l]) = "verify", VerifyAgent(l)
  PROVE  TrustInv'
<1>1. PICK erc \in Verified : Learns(l, [lines[l].seen EXCEPT !.erc = erc])
  BY DEF VerifyAgent
<1> DEFINE seen == [lines[l].seen EXCEPT !.erc = erc]
<1>2. seen \in Learnt /\ Gathers(lines[l], seen)
  BY Running, TrustAssumption DEF TrustInv, Learnt, Gathers
<1>3. UNCHANGED <<stores, vouched, scanned, raced, outcome>> /\ CreditsKept'
  BY DEF VerifyAgent, TrustInv, CreditsKept
<1> HIDE DEF seen
<1> QED  BY <1>1, <1>2, <1>3, LearningKeeps DEF seen

LEMMA OracleKeeps ==
  ASSUME TrustInv, NEW l \in Lines, lines[l].at # 0, StepOf(lines[l]) = "oracle", AskOracles(l)
  PROVE  TrustInv'
<1>1. PICK n \in Votes(lines[l].seen.trust) : Learns(l, [lines[l].seen EXCEPT !.votes = n])
  BY DEF AskOracles
<1> DEFINE seen == [lines[l].seen EXCEPT !.votes = n]
<1>a. n \in Nat
  BY DEF Votes
<1>2. seen \in Learnt /\ Gathers(lines[l], seen)
  BY <1>a, Running DEF TrustInv, Learnt, Gathers
<1>3. UNCHANGED <<stores, vouched, scanned, raced, outcome>> /\ CreditsKept'
  BY DEF AskOracles, TrustInv, CreditsKept
<1> HIDE DEF seen
<1> QED  BY <1>1, <1>2, <1>3, LearningKeeps DEF seen

(* Credit is scored on the trust the history step left.                    *)
LEMMA CreditKeeps ==
  ASSUME TrustInv, NEW l \in Lines, lines[l].at # 0, StepOf(lines[l]) = "credit", ScoreCredit(l)
  PROVE  TrustInv'
<1> DEFINE lane == lines[l]
           a == lane.ask.agent
           past == CreditOf(a)
           settled == IF lane.ask.does = "credit" /\ lane.ask.settlements # NoStore
                      THEN lane.ask.settlements ELSE Len(past)
           disputed == DisputesTold(lane)
           n == CreditScore(lane.seen.trust, disputed, settled)
           seen == [lane.seen EXCEPT !.credit = n]
           row == Latest(Append(past, n), KeepCredit)
<1>1. lane.ask \in Asked /\ lane.seen \in Learnt /\ OnPlan(lane)
  BY Running DEF TrustInv
<1>2. past \in Seq(Int)
  BY DEF TrustInv, CreditsKept, CreditOf
<1>3. settled \in Int /\ disputed \in Int /\ lane.seen.trust \in Int
  BY <1>1, <1>2, TrustAssumption DEF Learnt, DisputesTold
<1>4. lane.ask.does = "pipeline" => disputed = 0 /\ settled \in Nat /\ lane.seen.trust \in 52 .. 100
  <2> SUFFICES ASSUME lane.ask.does = "pipeline" PROVE disputed = 0 /\ settled \in Nat /\ lane.seen.trust \in 52 .. 100
    OBVIOUS
  <2>1. lane.at \in 1 .. 9 /\ StepOf(lane) = Steps("pipeline")[lane.at]
    BY <1>1, PipelineSteps DEF StepOf, OnPlan
  <2>2. lane.at > 3
    BY <2>1, PipelineSteps
  <2> QED  BY <1>1, <1>2, <2>2 DEF OnPlan, DisputesTold
<1>5. credits' = PutRow(credits, a, row) /\ Learns(l, seen)
  BY DEF ScoreCredit
<1> HIDE DEF settled, disputed
<1>6. n \in Int
  BY <1>3, Scores
<1>7. ASSUME lane.ask.does = "pipeline" PROVE n \in 508 .. 900
  <2>1. CreditScore(lane.seen.trust, 0, settled) \in 508 .. 900
    BY <1>4, <1>7, GoodCredit
  <2> QED  BY <1>4, <1>7, <2>1
<1> HIDE DEF n, past
<1>8. seen \in Learnt /\ (lane.ask.does = "pipeline" => Gathers(lane, seen))
  BY <1>1, <1>6, <1>7 DEF Learnt, Gathers
<1>9. Append(past, n) \in Seq(Int)
  BY <1>2, <1>6
<1>10. row \in Seq(Int)
  BY <1>9, LatestOfScores, TrustAssumption
<1> HIDE DEF row
<1>11. CreditsKept'
  BY <1>5, <1>10 DEF TrustInv, CreditsKept, PutRow
<1>12. UNCHANGED <<stores, vouched, scanned, raced, outcome>>
  BY DEF ScoreCredit
<1> HIDE DEF seen
<1> QED  BY <1>5, <1>8, <1>11, <1>12, LearningKeeps

(* Only a pipeline answers, and what it has learnt by then passes.         *)
LEMMA AnswerKeeps ==
  ASSUME TrustInv, NEW l \in Lines, lines[l].at # 0, StepOf(lines[l]) = "guard", AnswerPipeline(l)
  PROVE  TrustInv'
<1>1. PICK ok \in BOOLEAN : outcome' = [seen |-> [lines[l].seen EXCEPT !.guard = ok],
                                        allowed |-> Allows([lines[l].seen EXCEPT !.guard = ok])]
  BY DEF AnswerPipeline
<1> DEFINE seen == [lines[l].seen EXCEPT !.guard = ok]
<1>2. lines[l].ask \in Asked /\ lines[l].seen \in Learnt /\ OnPlan(lines[l])
      /\ lines[l].at \in 1 .. Len(Steps(lines[l].ask.does))
  BY Running DEF TrustInv
<1>3. lines[l].ask.does = "pipeline"
  BY <1>2, OnlyPipelinesAskTheGuard, TrustAssumption DEF StepOf, Kinds
<1>4. lines[l].at = 9
  <2>1. lines[l].at \in 1 .. 9 /\ StepOf(lines[l]) = Steps("pipeline")[lines[l].at]
    BY <1>2, <1>3, PipelineSteps DEF StepOf
  <2> QED  BY <2>1, PipelineSteps
<1>5. seen.trust \in 52 .. 100 /\ seen.fraud \in {8, 43} /\ seen.credit \in 508 .. 900 /\ seen.cents \in Int
  BY <1>2, <1>3, <1>4 DEF OnPlan, Learnt
<1> HIDE DEF seen
<1>6. outcome'.seen = seen /\ outcome'.allowed = Allows(seen)
  BY <1>1 DEF seen
<1>7. Answered(outcome')
  BY <1>5, <1>6, GoodAnswers DEF Answered
<1>8. lines' = [lines EXCEPT ![l] = Free]
  BY DEF AnswerPipeline
<1>9. Free \in Tickets /\ OnPlan(Free) /\ Free.looking = FALSE
  BY DEF Free, Tickets, Learnt, Seen, OnPlan
<1>10. lines' \in [Lines -> Tickets] /\ lines'[l] = Free /\ \A m \in Lines \ {l} : lines'[m] = lines[m]
  BY <1>8, <1>9 DEF TrustInv, Planned
<1>11. Planned'
  BY <1>9, <1>10 DEF TrustInv, Planned
<1>12. \A s : Lookers(s)' \subseteq Lookers(s)
  BY <1>9, <1>10 DEF Lookers, StepOf
<1>13. Shelves'
  BY <1>12, ShelvesStand DEF TrustInv, AnswerPipeline
<1>14. CreditsKept'
  BY DEF TrustInv, CreditsKept, AnswerPipeline
<1> QED  BY <1>7, <1>11, <1>13, <1>14 DEF TrustInv

LEMMA ProtocolRestartKeeps ==
  ASSUME TrustInv, ProtocolRestart
  PROVE  TrustInv'
<1>1. Free \in Tickets /\ OnPlan(Free) /\ Free.looking = FALSE
  BY DEF Free, Tickets, Learnt, Seen, OnPlan
<1>2. Planned' /\ \A s : Lookers(s)' = {}
  BY <1>1 DEF ProtocolRestart, Planned, Lookers
<1>3. Shelves'
  BY <1>2, ShelvesStand DEF TrustInv, ProtocolRestart
<1> QED  BY <1>2, <1>3 DEF TrustInv, ProtocolRestart, CreditsKept

LEMMA TrustStepKeeps ==
  ASSUME TrustInv, [TrustNext]_trustVars
  PROVE  TrustInv'
<1>1. ASSUME NEW l \in Lines, RunStep(l) PROVE TrustInv'
  <2> DEFINE step == StepOf(lines[l])
  <2>1. lines[l].at # 0
    BY <1>1 DEF RunStep
  <2>2. CASE step \in ProtocolStores /\ (UseStore(l, step) \/ FoundFile(l, step))
    BY <2>1, <2>2, StoreStepKeeps
  <2>3. CASE step = "verify" /\ VerifyAgent(l)
    BY <2>1, <2>3, VerifyKeeps
  <2>4. CASE step = "oracle" /\ AskOracles(l)
    BY <2>1, <2>4, OracleKeeps
  <2>5. CASE step = "credit" /\ ScoreCredit(l)
    BY <2>1, <2>5, CreditKeeps
  <2>6. CASE step = "guard" /\ AnswerPipeline(l)
    BY <2>1, <2>6, AnswerKeeps
  <2> QED  BY <1>1, <2>2, <2>3, <2>4, <2>5, <2>6 DEF RunStep
<1>2. ASSUME NEW l \in Lines, NEW ask \in Asked, BeginRequest(l, ask) PROVE TrustInv'
  BY <1>2, BeginKeeps
<1>3. CASE ProtocolRestart
  BY <1>3, ProtocolRestartKeeps
<1>4. CASE UNCHANGED trustVars
  <2>1. \A s : Lookers(s)' \subseteq Lookers(s)
    BY <1>4 DEF trustVars, Lookers
  <2>2. Shelves'
    BY <1>4, <2>1, ShelvesStand DEF TrustInv, trustVars
  <2> QED  BY <1>4, <2>2 DEF TrustInv, trustVars, Planned, CreditsKept
<1> QED  BY <1>1, <1>2, <1>3, <1>4 DEF TrustNext

LEMMA TrustStarts == TrustInit => TrustInv
<1> SUFFICES ASSUME TrustInit PROVE TrustInv
  OBVIOUS
<1>1. Free \in Tickets /\ OnPlan(Free) /\ Free.looking = FALSE
  BY DEF Free, Tickets, Learnt, Seen, OnPlan
<1>2. Planned /\ \A s : Lookers(s) = {}
  BY <1>1 DEF TrustInit, Planned, Lookers
<1>3. "graph" \in DOMAIN stores => stores["graph"] = EmptyRows
  BY DEF TrustInit, EmptyRows
<1>4. "graph" \in DOMAIN stores => \A a : Scans(stores["graph"], a) = 0
  BY <1>3 DEF Scans, WalletIn, EmptyRows, NewWallet
<1>5. scanned \in [Agents -> Nat] /\ \A a \in Agents : scanned[a] = 0
  BY DEF TrustInit
<1>6. GraphCounts
  BY <1>4, <1>5, OldScans DEF GraphCounts, Counted
<1>7. (\A s \in ProtocolStores : LooksAlone(s)) /\ StoreVouches
  BY <1>2 DEF TrustInit, LooksAlone, StoreVouches
<1> QED  BY <1>2, <1>6, <1>7 DEF TrustInit, TrustInv, Shelves, CreditsKept, EmptyRows

LEMMA TrustInvImplies == TrustInv => TrustKept
<1> SUFFICES ASSUME TrustInv PROVE TrustKept
  OBVIOUS
<1>1. StoreVouches /\ (outcome # NoStore => Answered(outcome))
  BY DEF TrustInv, Shelves
<1>2. ASSUME "graph" \in DOMAIN stores, NEW a \in Agents
      PROVE  LET n == WalletIn(stores["graph"], a).count
                 old == WalletIn(OldRows("graph"), a).count
             IN /\ n <= scanned[a] + old
                /\ "graph" \notin raced => n \in {scanned[a], scanned[a] + old}
  BY <1>2 DEF TrustInv, Shelves, GraphCounts, Counted, Scans
<1> QED  BY <1>1, <1>2 DEF TrustKept, StoreVouches, Answered

(* Of the protocol stores of protocol/store.ts: what a client was given    *)
(* stays, the fraud graph counts every scan, until two requests read the   *)
(* legacy file at once; and runFullTrustPipeline allows exactly what the   *)
(* guard and three oracles allow, whatever the stores hold.                *)
THEOREM TrustIsKept == TrustSpec => []TrustKept
<1>1. TrustInv /\ [TrustNext]_trustVars => TrustInv'
  BY TrustStepKeeps
<1> QED  BY <1>1, TrustStarts, TrustInvImplies, PTL DEF TrustSpec

-----------------------------------------------------------------------------
(* Recourse.  Scores stay between 0 and 100, whatever they add up from.    *)
LEMMA ClampedIsScore ==
  ASSUME NEW n \in Int
  PROVE  /\ Clamped(n) \in 0 .. 100
         /\ n <= 0 => Clamped(n) = 0
         /\ Clamped(n) > 0 => Clamped(n) <= n
         /\ n \in 0 .. 100 => Clamped(n) = n
         /\ n >= 100 => Clamped(n) = 100
  BY DEF Clamped, Smaller

LEMMA SmallerOf ==
  ASSUME NEW a \in Int, NEW b \in Int
  PROVE  Smaller(a, b) \in Int /\ Smaller(a, b) <= a /\ Smaller(a, b) <= b /\ Smaller(a, b) \in {a, b}
  BY DEF Smaller

(* What a schema score says of the body and of the keys it misses.         *)
LEMMA SchemaScoreSays ==
  ASSUME NEW r \in Responses
  PROVE  /\ SchemaScore(r) \in 0 .. 100
         /\ SchemaScore(r) >= 70 => ~MissesBody(r) /\ r.missing <= 1
<1> DEFINE body == If100(MissesBody(r), 70)
           keys == Smaller(60, 20 * r.missing)
           short == If100(r.least # Untold /\ r.bytes # Untold /\ r.bytes < r.least, 25)
           form == If100(r.pattern = "misses", 30)
<1>1. r.missing \in Nat
  BY RecourseAssumption
<1>2. /\ body \in {0, 70}
      /\ MissesBody(r) => body = 70
      /\ short \in {0, 25} /\ form \in {0, 30}
  BY DEF If100
<1>3. keys \in Nat /\ (r.missing > 1 => keys >= 40)
  BY <1>1 DEF Smaller
<1>4. ShapeLoss(r) = body + keys + short + form
  BY DEF ShapeLoss
<1> HIDE DEF body, keys, short, form
<1>5. ShapeLoss(r) \in Nat /\ (MissesBody(r) => ShapeLoss(r) >= 70) /\ (r.missing > 1 => ShapeLoss(r) >= 40)
  BY <1>2, <1>3, <1>4
<1>6. SchemaScore(r) \in 0 .. 100 /\ (SchemaScore(r) > 0 => SchemaScore(r) <= 100 - ShapeLoss(r))
  BY <1>5, ClampedIsScore DEF SchemaScore
<1> QED  BY <1>1, <1>5, <1>6

(* Of an empty body no judge says more than 15.                            *)
LEMMA SemanticScoreSays ==
  ASSUME NEW r \in Responses, NEW llm \in Judgements \cup {Untold}
  PROVE  /\ SemanticScore(r, llm) \in 0 .. 100
         /\ r.empty \/ r.bytes = 0 => SemanticScore(r, llm) <= 15
<1>1. r.placeholders \in Nat
  BY RecourseAssumption
<1>2. HeuristicScore(r) \in 0 .. 100
  <2> DEFINE loss == 100 - If100(r.sample = "short", 70) - If100(r.phrase # "plain", 45)
                         - If100(r.intent = "unmet", 20) - If100(r.priced = "missing", 30)
  <2>2. loss \in Int
    BY DEF If100
  <2>3. HeuristicScore(r) = Clamped(loss)
    BY DEF HeuristicScore
  <2> HIDE DEF loss
  <2> QED  BY <2>2, <2>3, ClampedIsScore
<1>3. Judge(r, llm) \in 0 .. 100
  <2>1. CASE llm = Untold
    BY <2>1, <1>2 DEF Judge
  <2>2. CASE llm # Untold
    <3>1. llm \in Int
      BY <2>2, RecourseAssumption
    <3> QED  BY <2>2, <3>1, ClampedIsScore DEF Judge
  <2> QED  BY <2>1, <2>2
<1> DEFINE judged == Judge(r, llm)
           cap == SemanticCap(r, judged)
           doubted == Clamped(cap - 15 * r.placeholders)
           worst == If100(r.phrase = "scam", 20)
<1>4. cap \in 0 .. 100 /\ (r.empty \/ r.bytes = 0 => cap <= 15)
  <2> HIDE DEF judged
  <2>1. judged \in 0 .. 100
    BY <1>3 DEF judged
  <2> QED  BY <2>1, SmallerOf DEF SemanticCap, Capped, Smaller
<1>5. SemanticScore(r, llm) = Clamped(doubted - worst)
  BY DEF SemanticScore
<1>6. worst \in Nat
  BY DEF If100
<1> HIDE DEF judged, cap, worst
<1>7. doubted \in 0 .. 100 /\ (doubted > 0 => doubted <= cap)
  <2>1. cap - 15 * r.placeholders \in Int /\ cap - 15 * r.placeholders <= cap
    BY <1>1, <1>4
  <2> QED  BY <1>4, <2>1, ClampedIsScore
<1> HIDE DEF doubted
<1>8. /\ SemanticScore(r, llm) \in 0 .. 100
      /\ SemanticScore(r, llm) > 0 => SemanticScore(r, llm) <= doubted
  <2>1. doubted - worst \in Int /\ doubted - worst <= doubted
    BY <1>6, <1>7
  <2> QED  BY <1>5, <2>1, <1>7, ClampedIsScore
<1> QED  BY <1>4, <1>7, <1>8

-----------------------------------------------------------------------------
(* RecourseSound of the rulings of each agent.                             *)
LEMMA ShapeSound ==
  ASSUME NEW r \in Responses, SettleByShape(r) PROVE RecourseSound'
<1> DEFINE says == [score |-> SchemaScore(r), released |-> ReleasedByShape(r)]
<1>1. ruled' = [by |-> "shape", ask |-> r, says |-> says]
  BY DEF SettleByShape, Rule
<1>2. r.threshold = Untold /\ says.released => ~MissesBody(r) /\ r.missing <= 1
  BY SchemaScoreSays DEF ReleasedByShape, Threshold
<1> HIDE DEF says
<1> QED  BY <1>1, <1>2 DEF RecourseSound, MissesBody

LEMMA CombinedSays ==
  ASSUME NEW schema \in 0 .. 100, NEW semantic \in 0 .. 100
  PROVE  LET both == (45 * schema + 55 * semantic + 50) \div 100
         IN  both \in Int /\ (both >= 72 => schema > 35 /\ semantic > 45)
  OBVIOUS

LEMMA ReleasedSays ==
  ASSUME NEW r \in Responses, NEW llm \in Judgements \cup {Untold}
  PROVE  /\ Combined(r, llm) \in Int
         /\ r.threshold = Untold /\ ReleasedByMeaning(r, llm) =>
              ~r.empty /\ r.bytes # 0 /\ SchemaScore(r) > 35 /\ SemanticScore(r, llm) > 45
<1> DEFINE schema == SchemaScore(r)
           semantic == SemanticScore(r, llm)
<1>1. schema \in 0 .. 100
  BY SchemaScoreSays
<1>2. semantic \in 0 .. 100 /\ (r.empty \/ r.bytes = 0 => semantic <= 15)
  BY SemanticScoreSays
<1>3. Combined(r, llm) = (45 * schema + 55 * semantic + 50) \div 100
  BY DEF Combined
<1> HIDE DEF schema, semantic
<1>4. Combined(r, llm) \in Int /\ (Combined(r, llm) >= 72 => schema > 35 /\ semantic > 45)
  BY <1>1, <1>2, <1>3, CombinedSays
<1>5. r.threshold = Untold /\ ReleasedByMeaning(r, llm) => Combined(r, llm) >= 72
  BY DEF ReleasedByMeaning, Threshold
<1> QED  BY <1>2, <1>4, <1>5 DEF schema, semantic

LEMMA RefusedIsHeard ==
  ASSUME NEW n \in Int, n < 50
  PROVE  /\ \A generic \in BOOLEAN : Eligible(SignalsOf(n, generic))
         /\ AutoFileable(ClaimOf(n))
<1>1. n # Untold
  BY RecourseAssumption
<1>2. ASSUME NEW generic \in BOOLEAN PROVE Eligible(SignalsOf(n, generic))
  BY <1>1 DEF Eligible, SignalsOf, ArbiterScore
<1>3. Strength(ClaimOf(n)) = 70
  <2>1. ClaimOf(n).reason = "quality_mismatch" /\ ClaimOf(n).score = n /\ ClaimOf(n).schema = FALSE
    BY DEF ClaimOf
  <2>2. Strength(ClaimOf(n)) = Clamped(40 + (30 + 0))
    BY <1>1, <2>1 DEF Strength, If100
  <2> QED  BY <2>2 DEF Clamped, Smaller
<1>4. ClaimOf(n).rail = "card"
  BY DEF ClaimOf
<1> QED  BY <1>2, <1>3, <1>4 DEF AutoFileable

LEMMA MeaningSound ==
  ASSUME NEW r \in Responses, NEW llm \in Judgements \cup {Untold}, SettleByMeaning(r, llm)
  PROVE  RecourseSound'
<1> DEFINE says == [score |-> Combined(r, llm), schema |-> SchemaScore(r), semantic |-> SemanticScore(r, llm),
                    released |-> ReleasedByMeaning(r, llm)]
<1>1. ruled' = [by |-> "meaning", ask |-> r, says |-> says]
  BY DEF SettleByMeaning, Rule
<1>2. r.threshold = Untold /\ says.released => ~r.empty /\ r.bytes # 0 /\ says.schema > 35 /\ says.semantic > 45
  BY ReleasedSays
<1>3. says.score < 50 => /\ \A generic \in BOOLEAN : Eligible(SignalsOf(says.score, generic))
                         /\ AutoFileable(ClaimOf(says.score))
  <2>1. says.score = Combined(r, llm) /\ Combined(r, llm) \in Int
    BY ReleasedSays
  <2> HIDE DEF says
  <2> QED  BY <2>1, RefusedIsHeard
<1> HIDE DEF says
<1>4. /\ ~says.released /\ says.score < 50 =>
           /\ \A generic \in BOOLEAN : Eligible(SignalsOf(says.score, generic))
           /\ AutoFileable(ClaimOf(says.score))
      /\ r.threshold = Untold /\ says.released =>
           ~r.empty /\ r.bytes # 0 /\ says.schema > 35 /\ says.semantic > 45
  BY <1>2, <1>3
<1> QED  BY <1>1, <1>4 DEF RecourseSound

LEMMA StrengthIsScore ==
  ASSUME NEW c \in Claims PROVE Strength(c) \in 0 .. 100
<1> DEFINE given ==
      CASE c.reason = "non_delivery"     -> If100(c.empty, 35) + If100(c.receipt = "invalid", 10)
        [] c.reason = "quality_mismatch" -> If100(c.score # Untold /\ c.score < 50, 30) + If100(c.schema, 10)
        [] c.reason = "overcharge"       -> If100(Overcharged(c), 40)
        [] c.reason = "duplicate"        -> If100(c.twin, 45)
        [] c.reason = "unauthorized"     -> 20
<1>1. given \in Nat
  BY RecourseAssumption DEF If100
<1>2. Strength(c) = Clamped(40 + given)
  BY DEF Strength
<1> HIDE DEF given
<1> QED  BY <1>1, <1>2, ClampedIsScore

LEMMA DisputeSound ==
  ASSUME NEW c \in Claims, ResolveDispute(c) PROVE RecourseSound'
<1> DEFINE says == [strength |-> Likelihood(Strength(c)), files |-> AutoFileable(c)]
           grounds == c.empty \/ c.score # Untold \/ Overcharged(c) \/ c.twin
<1>1. ruled' = [by |-> "dispute", ask |-> c, says |-> says]
  BY DEF ResolveDispute, Rule
<1>2. ~grounds => Strength(c) < 70
  <2> SUFFICES ASSUME ~grounds PROVE Strength(c) < 70
    OBVIOUS
  <2>1. c.reason \in {"non_delivery", "quality_mismatch", "overcharge", "duplicate", "unauthorized"}
    BY RecourseAssumption
  <2>2. \E n \in 0 .. 20 : Strength(c) = Clamped(40 + n)
    <3>1. CASE c.reason = "non_delivery"
      <4>1. Strength(c) = Clamped(40 + (0 + If100(c.receipt = "invalid", 10)))
        BY <3>1 DEF Strength, If100
      <4>2. 0 + If100(c.receipt = "invalid", 10) \in 0 .. 20
        BY DEF If100
      <4> QED  BY <4>1, <4>2
    <3>2. CASE c.reason = "quality_mismatch"
      <4>1. Strength(c) = Clamped(40 + (0 + If100(c.schema, 10)))
        BY <3>2 DEF Strength, If100
      <4>2. 0 + If100(c.schema, 10) \in 0 .. 20
        BY DEF If100
      <4> QED  BY <4>1, <4>2
    <3>3. CASE c.reason = "overcharge"
      <4>1. Strength(c) = Clamped(40 + 0)
        BY <3>3 DEF Strength, If100
      <4> QED  BY <4>1
    <3>4. CASE c.reason = "duplicate"
      <4>1. Strength(c) = Clamped(40 + 0)
        BY <3>4 DEF Strength, If100
      <4> QED  BY <4>1
    <3>5. CASE c.reason = "unauthorized"
      <4>1. Strength(c) = Clamped(40 + 20)
        BY <3>5 DEF Strength
      <4> QED  BY <4>1
    <3> QED  BY <2>1, <3>1, <3>2, <3>3, <3>4, <3>5
  <2> QED  BY <2>2 DEF Clamped, Smaller
<1>3. says.files => /\ says.strength = "strong" /\ grounds
                    /\ c.rail \notin {"base-x402", "solana-x402", "circle-nano", "stripe-mpp"}
  <2>1. Strength(c) >= 70 => ~(Strength(c) < 70)
    BY StrengthIsScore
  <2>2. AutoFileable(c) => Strength(c) >= 70 /\ c.rail \in {"visa-cli", "card"}
    BY DEF AutoFileable
  <2>3. Strength(c) >= 70 => Likelihood(Strength(c)) = "strong"
    BY DEF Likelihood
  <2> QED  BY <1>2, <2>1, <2>2, <2>3
<1> HIDE DEF says
<1> QED  BY <1>1, <1>3 DEF RecourseSound, Overcharged

LEMMA RefundSound ==
  ASSUME NEW s \in Signals, ArbitrateRefund(s) PROVE RecourseSound'
<1> DEFINE says == [eligible |-> Eligible(s), tier |-> ProtectionTier(s)]
<1>1. ruled' = [by |-> "refund", ask |-> s, says |-> says]
  BY DEF ArbitrateRefund, Rule
<1>2. ArbiterScore(s) \in Int
  BY RecourseAssumption DEF ArbiterScore
<1>3. (s.unreachable \/ s.empty) /\ ~says.eligible => s.generic /\ says.tier = "full"
  <2> SUFFICES ASSUME s.unreachable \/ s.empty, ~Eligible(s)
               PROVE  s.generic /\ ProtectionTier(s) = "full"
    OBVIOUS
  <2>1. s.generic /\ ~(ArbiterScore(s) < 70)
    BY DEF Eligible, EligibleSoFar
  <2>2. ArbiterScore(s) >= 70
    BY <1>2, <2>1
  <2> QED  BY <2>1, <2>2 DEF ProtectionTier
<1>4. Mismatch(s) => says.eligible
  BY DEF Eligible
<1> HIDE DEF says
<1> QED  BY <1>1, <1>3, <1>4 DEF RecourseSound, Mismatch

(* A status a probe has seen and expected is the middle of the scale or    *)
(* more: what an error costs, meeting the expectation gives back.          *)
LEMMA ExpectedScores ==
  ASSUME NEW w, w.status \in Int, w.expected \in 100 .. 599 \cup {Untold}, Matches(w)
  PROVE  TargetScore(w) >= 50
<1> DEFINE seen == CASE w.status = 402 -> 25 [] w.status = 200 -> 10 [] w.status = 0 -> -40
                     [] w.status >= 400 -> -10 [] OTHER -> 0
           met == If100(Matches(w), 10)
           cheap == If100(w.price # Untold /\ w.price <= 25, 10)
<1>1. w.status > 0
  BY DEF Matches
<1>2. seen \in Int /\ seen >= -10
  BY <1>1
<1>3. met = 10 /\ cheap \in Nat
  BY DEF If100
<1>4. TargetScore(w) = Clamped(50 + seen + met + cheap)
  BY DEF TargetScore
<1> HIDE DEF seen, met, cheap
<1>5. 50 + seen + met + cheap \in Int /\ 50 + seen + met + cheap >= 50
  BY <1>2, <1>3
<1> QED  BY <1>4, <1>5 DEF Clamped, Smaller

LEMMA MonitorSound ==
  ASSUME NEW w \in Watches, MonitorQuality(w) PROVE RecourseSound'
<1> DEFINE watched == SubSeq(w, 1, Smaller(10, Len(w)))
           says == [overall |-> Overall(watched), scores |-> [i \in DOMAIN watched |-> TargetScore(watched[i])]]
           Probed == [status : Int, expected : 100 .. 599 \cup {Untold}, price : Int \cup {Untold}]
<1>1. ruled' = [by |-> "monitor", ask |-> watched, says |-> says]
  BY DEF MonitorQuality, Rule
<1>2. watched \in Seq(Probed)
  <2>1. w \in Seq(Probed)
    BY RecourseAssumption
  <2>2. Smaller(10, Len(w)) \in 0 .. Len(w)
    <3>1. Len(w) \in Nat
      BY <2>1
    <3> QED  BY <3>1 DEF Smaller
  <2> HIDE DEF Probed
  <2> QED  BY <2>1, <2>2
<1>3. says.overall = "pass" => \A i \in DOMAIN watched : says.scores[i] >= 50
  <2> SUFFICES ASSUME Overall(watched) = "pass", NEW i \in DOMAIN watched
               PROVE  TargetScore(watched[i]) >= 50
    OBVIOUS
  <2>1. watched[i] \in Probed
    <3> HIDE DEF watched, Probed
    <3> QED  BY <1>2
  <2> HIDE DEF watched
  <2>2. Matches(watched[i])
    BY DEF Overall
  <2>3. watched[i].status \in Int /\ watched[i].expected \in 100 .. 599 \cup {Untold}
    BY <2>1
  <2> QED  BY <2>2, <2>3, ExpectedScores
<1> HIDE DEF watched, says
<1> QED  BY <1>1, <1>3 DEF RecourseSound

-----------------------------------------------------------------------------
(* The ledger's books: of entries whose amounts are naturals, each         *)
(* breakdown adds up to the whole.                                         *)
Booked(entries) ==
  /\ IsFiniteSet(DOMAIN entries)
  /\ \A i \in DOMAIN entries : entries[i].amount \in Nat

LEMMA LedgerIsBooked ==
  ASSUME NEW l \in Ledgers PROVE Booked(l.records)
<1> DEFINE Entry == [merchant : STRING, category : STRING, rail : STRING, amount : Nat, settled : BOOLEAN]
<1>1. l.records \in Seq(Entry)
  BY RecourseAssumption
<1>2. \A e \in Entry : e.amount \in Nat
  OBVIOUS
<1> HIDE DEF Entry
<1>3. DOMAIN l.records = 1 .. Len(l.records) /\ Len(l.records) \in Nat
  BY <1>1
<1>4. IsFiniteSet(DOMAIN l.records)
  BY <1>3, FS_Interval
<1>5. \A i \in DOMAIN l.records : l.records[i] \in Entry
  BY <1>1
<1> QED  BY <1>2, <1>4, <1>5 DEF Booked

LEMMA GroupsAddUp ==
  ASSUME NEW entries, Booked(entries), NEW field
  PROVE  /\ IsFiniteSet(KeysOf(entries, field))
         /\ \A k \in KeysOf(entries, field) : GroupBy(entries, field)[k] \in Nat
         /\ SumFunctionOnSet(GroupBy(entries, field), KeysOf(entries, field)) = SpendOf(entries)
<1> DEFINE S == DOMAIN entries
           f == [i \in S |-> entries[i].amount]
           K == KeysOf(entries, field)
           part == [k \in K |-> {i \in S : entries[i][field] = k}]
           g == GroupBy(entries, field)
<1>1. IsFiniteSet(S) /\ \A i \in S : f[i] \in Nat
  BY DEF Booked
<1>2. IsCut(part, K, S)
  BY DEF KeysOf, IsCut
<1>3. \A k \in K : g[k] = SumFunctionOnSet(f, part[k])
  BY DEF GroupBy, SpendAt
<1>4. SpendOf(entries) = SumFunctionOnSet(f, S)
  BY DEF SpendOf, SpendAt
<1> HIDE DEF S, f, part, K, g
<1>5. IsFiniteSet(K)
  BY <1>1, <1>2, CutIsFinite
<1>6. (\A k \in K : g[k] \in Nat) /\ SumFunctionOnSet(g, K) = SumFunctionOnSet(f, S)
  BY <1>1, <1>2, <1>3, SumOfParts
<1> QED  BY <1>4, <1>5, <1>6 DEF K, g

(* No merchant over the cap, and all of them are within as many caps.      *)
LEMMA CapsAddUp ==
  ASSUME NEW entries, Booked(entries), NEW each \in Int,
         \A m \in KeysOf(entries, "merchant") : GroupBy(entries, "merchant")[m] <= each
  PROVE  SpendOf(entries) <= each * Cardinality(KeysOf(entries, "merchant"))
<1> DEFINE K == KeysOf(entries, "merchant")
           g == GroupBy(entries, "merchant")
<1>1. IsFiniteSet(K) /\ (\A k \in K : g[k] \in Nat) /\ SumFunctionOnSet(g, K) = SpendOf(entries)
  BY GroupsAddUp
<1>2. \A k \in K : g[k] <= each
  OBVIOUS
<1> HIDE DEF K, g
<1>3. CASE K = {}
  <2>1. SpendOf(entries) = 0 /\ Cardinality(K) = 0
    BY <1>1, <1>3, SumEmpty, FS_EmptySet
  <2>2. each * 0 = 0
    OBVIOUS
  <2> QED  BY <2>1, <2>2 DEF K
<1>4. CASE K # {}
  <2>1. each \in Nat
    BY <1>1, <1>2, <1>4
  <2> DEFINE caps == [k \in K |-> each]
  <2>2. \A k \in K : caps[k] = each /\ caps[k] \in Nat /\ g[k] <= caps[k]
    BY <1>2, <2>1
  <2> HIDE DEF caps
  <2>3. SumFunctionOnSet(g, K) <= SumFunctionOnSet(caps, K)
    BY <1>1, <2>2, SumGrows
  <2>4. SumFunctionOnSet(caps, K) = each * Cardinality(K)
    BY <1>1, <2>1, <2>2, SumOfOneValue
  <2> QED  BY <1>1, <2>3, <2>4 DEF K
<1> QED  BY <1>3, <1>4

LEMMA LedgerSound ==
  ASSUME NEW l \in Ledgers, ReconcileLedger(l) PROVE RecourseSound'
<1> DEFINE says == [violations |-> Violations(l), open |-> Unreconciled(l)]
           entries == l.records
           each == l.each
<1>1. ruled' = [by |-> "ledger", ask |-> l, says |-> says]
  BY DEF ReconcileLedger, Rule
<1>2. Booked(entries)
  BY LedgerIsBooked
<1>3. \A field \in {"merchant", "category", "rail"} : SumFunction(GroupBy(entries, field)) = SpendOf(entries)
  <2> SUFFICES ASSUME NEW field PROVE SumFunction(GroupBy(entries, field)) = SpendOf(entries)
    OBVIOUS
  <2>1. DOMAIN GroupBy(entries, field) = KeysOf(entries, field)
    BY DEF GroupBy
  <2> QED  BY <1>2, <2>1, GroupsAddUp DEF SumFunction
<1>4. says.violations = {} /\ each # Untold =>
        SpendOf(entries) <= each * Cardinality(KeysOf(entries, "merchant"))
  <2> SUFFICES ASSUME Violations(l) = {}, each # Untold
               PROVE  SpendOf(entries) <= each * Cardinality(KeysOf(entries, "merchant"))
    OBVIOUS
  <2> DEFINE K == KeysOf(entries, "merchant")
             g == GroupBy(entries, "merchant")
  <2>1. each \in Int
    BY RecourseAssumption
  <2>2. DOMAIN g = K
    BY DEF GroupBy
  <2>3. {<<"per_merchant_cap", m>> : m \in {k \in DOMAIN g : g[k] > each}} \subseteq Violations(l)
    BY DEF Violations
  <2> HIDE DEF K, g, entries, each
  <2>4. \A k \in K : ~(g[k] > each)
    BY <2>2, <2>3
  <2>5. \A k \in K : g[k] \in Nat
    BY <1>2, GroupsAddUp DEF K, g
  <2>6. \A k \in K : g[k] <= each
    BY <2>1, <2>4, <2>5
  <2> QED  BY <1>2, <2>1, <2>6, CapsAddUp DEF K, g
<1>5. l.records = entries /\ l.each = each
  OBVIOUS
<1> HIDE DEF says, entries, each
<1> QED  BY <1>1, <1>3, <1>4, <1>5 DEF RecourseSound

(* RecourseSound: the escrows, the dispute resolver, the refund arbiter,   *)
(* the ledger and the monitor agree on one delivery, whatever sellers send *)
(* and buyers claim (agents/quality-escrow.ts, refund-arbiter.ts and the   *)
(* others): nothing empty is released, what is refused is refunded, and    *)
(* the ledger's books and caps add up.                                     *)
THEOREM RecourseIsSound == RecourseSpec => []RecourseSound
<1>1. RecourseInit => RecourseSound
  BY DEF RecourseInit, RecourseSound
<1>2. RecourseSound /\ [RecourseNext]_ruled => RecourseSound'
  <2> SUFFICES ASSUME RecourseSound, [RecourseNext]_ruled PROVE RecourseSound'
    OBVIOUS
  <2>1. CASE UNCHANGED ruled
    BY <2>1 DEF RecourseSound
  <2>2. CASE RecourseNext
    BY <2>2, ShapeSound, MeaningSound, DisputeSound, RefundSound, LedgerSound, MonitorSound DEF RecourseNext
  <2> QED  BY <2>1, <2>2
<1> QED  BY <1>1, <1>2, PTL DEF RecourseSpec
=============================================================================
