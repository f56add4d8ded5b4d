------------------------------- MODULE Store --------------------------------
(***************************************************************************)
(* The database behind the suite: lib/db.ts opens SQLite and runs          *)
(* lib/migrations.ts, or, outside production, falls back to a JSON file    *)
(* whose Statement class answers the same queries from memory.             *)
(* lib/db-persistence.ts and lib/nonce-store.ts are written against both.  *)
(* The model gives the same calls to the JSON mirror and to the tables     *)
(* SQLite would hold, so that what one answers can be compared with the    *)
(* other.                                                                  *)
(***************************************************************************)
EXTENDS Naturals, Sequences

CONSTANTS
    Nonces,         \* keys of payments and replays
    Sessions,       \* MPP session ids
    EscrowKeys,     \* escrow ids
    NonceLife,      \* the retention of a nonce: seven days in the code
    MaxTime,        \* bound on the clock
    MaxWrites,      \* bound on the writes of a behaviour
    NoEntry, Damaged

VARIABLES
    engine,     \* which database this machine can open
    up,         \* the module finished loading
    todo,       \* migrations the current boot has still to run
    recorded,   \* versions in schema_version
    made,       \* versions whose statements have run
    sql,        \* the tables SQLite holds, or would hold
    mirror,     \* JsonDatabase.data
    disk,       \* the JSON file
    unsaved,    \* a write of the file has failed or was torn
    clock, writes

storeVars == <<engine, up, todo, recorded, made, sql, mirror, disk, unsaved, clock, writes>>

Migrations == <<1, 2, 3, 4, 5, 6, 7, 9, 8, 10>>
Versions == 1 .. 10

NoTables == [spend |-> <<>>,
             nonces |-> [n \in Nonces |-> NoEntry],
             sessions |-> [s \in Sessions |-> NoEntry],
             escrows |-> [e \in EscrowKeys |-> NoEntry]]

Agents == {"a1", "a2"}
Tables == [spend : Seq([agent : Agents, day : Nat]),
           nonces : [Nonces -> Nat \cup {NoEntry}],
           sessions : [Sessions -> Nat \cup {NoEntry}],
           escrows : [EscrowKeys -> {NoEntry, "pending", "released"}]]
ASSUME EntryAssumption == NoEntry \notin Nat \cup {"pending", "released"} /\ Damaged \notin Tables

StoreInit ==
    /\ engine \in {"sqlite", "json", "none"}
    /\ up = FALSE /\ todo = {} /\ recorded = {} /\ made = {}
    /\ sql = NoTables /\ mirror = NoTables /\ disk = NoTables
    /\ unsaved = FALSE /\ clock = 0 /\ writes = 0

-----------------------------------------------------------------------------
(* Opening the database: production without SQLite throws (engine "none"). *)
\* What is run is what lies above the highest version recorded, as listed.
Pending == {v \in Versions : \A r \in recorded : r < v}
IsNext(v, S) == \E i \in 1 .. 10 : /\ Migrations[i] = v /\ v \in S
                                  /\ \A j \in 1 .. 10 : Migrations[j] \in S => i <= j

OpenSqlite ==
    /\ engine = "sqlite" /\ ~up /\ todo = {}
    /\ todo' = Pending
    /\ up' = (todo' = {})
    /\ UNCHANGED <<engine, recorded, made, sql, mirror, disk, unsaved, clock, writes>>

ExecMigration ==
    /\ \E v \in todo : IsNext(v, todo) /\ v \notin made /\ made' = made \cup {v}
    /\ UNCHANGED <<engine, up, todo, recorded, sql, mirror, disk, unsaved, clock, writes>>

MarksDone(v) ==
    /\ recorded' = recorded \cup {v}
    /\ todo' = todo \ {v}
    /\ up' = (todo' = {})
    /\ UNCHANGED <<engine, made, sql, mirror, disk, unsaved, clock, writes>>
RecordAhead     == \E v \in todo : IsNext(v, todo) /\ MarksDone(v)          \* mutant
RecordMigration == \E v \in todo : IsNext(v, todo) /\ v \in made /\ MarksDone(v)

OpenJson ==
    /\ engine = "json" /\ ~up
    /\ up' = TRUE
    /\ mirror' = IF disk = Damaged THEN NoTables ELSE disk
    /\ UNCHANGED <<engine, todo, recorded, made, sql, disk, unsaved, clock, writes>>

\* writeFileSync replaces the file in place: a crash may leave half of it.
StoreCrash ==
    /\ up \/ todo # {}
    /\ up' = FALSE /\ todo' = {}
    /\ \E torn \in BOOLEAN :
          /\ torn => engine = "json"
          /\ disk' = IF torn THEN Damaged ELSE disk
          /\ unsaved' = (unsaved \/ torn)
    /\ UNCHANGED <<engine, recorded, made, sql, mirror, clock, writes>>

-----------------------------------------------------------------------------
(* What each engine does with a statement.                                 *)
Pruned(db) == [db EXCEPT !.nonces =
                  [n \in Nonces |-> IF @[n] # NoEntry /\ @[n] + NonceLife < clock THEN NoEntry ELSE @[n]]]

\* INSERT OR IGNORE behind a SELECT: in both engines the first claim stays.
Remembered(db, key) == IF db.nonces[key] = NoEntry THEN [db EXCEPT !.nonces[key] = clock] ELSE db

Spend(db, agent) == [db EXCEPT !.spend = Append(@, [agent |-> agent, day |-> clock])]
SpentOn(db, agent) == Len(SelectSeq(db.spend, LAMBDA row : row.agent = agent /\ row.day = clock))

\* ON CONFLICT updates what changes, the mirror the whole row: the same row
\* results, as a session keeps its agent and its budget.
Upserted(db, s, used) == [db EXCEPT !.sessions[s] = used]
EscrowSaved(db, e) == [db EXCEPT !.escrows[e] = "pending"]

ReleasedInSql(db, e) == IF db.escrows[e] = "pending" THEN [db EXCEPT !.escrows[e] = "released"] ELSE db
\* The mirror has no branch for this UPDATE: nothing changes, and the caller
\* is told the escrow is not there or not pending.
ReleasedInMirror(db, e) == db

-----------------------------------------------------------------------------
\* A write reaches both; the mirror is saved at once, and an error of the
\* file system is logged and forgotten.
Writes(inSql, inMirror) ==
    /\ up /\ writes < MaxWrites
    /\ writes' = writes + 1
    /\ sql' = inSql
    /\ IF engine = "json"
       THEN /\ mirror' = inMirror
            /\ \E saved \in BOOLEAN :
                  /\ disk' = IF saved /\ inMirror # mirror THEN inMirror ELSE disk
                  /\ unsaved' = (unsaved \/ ~saved)
       ELSE UNCHANGED <<mirror, disk, unsaved>>
    /\ UNCHANGED <<engine, up, todo, recorded, made, clock>>

RecordSpend(agent) == Writes(Spend(sql, agent), Spend(mirror, agent))

\* Every fiftieth claim prunes first.
ClaimKey(key, cleans) ==
    LET before(db) == IF cleans THEN Pruned(db) ELSE db
    IN  Writes(Remembered(before(sql), key), Remembered(before(mirror), key))

SaveSession(s, used) == Writes(Upserted(sql, s, used), Upserted(mirror, s, used))

SaveEscrow(e) == sql.escrows[e] = NoEntry /\ Writes(EscrowSaved(sql, e), EscrowSaved(mirror, e))

ReleaseEscrow(e) ==
    /\ sql.escrows[e] # NoEntry
    /\ Writes(ReleasedInSql(sql, e), ReleasedInMirror(mirror, e))

StoreTick == /\ up /\ clock < MaxTime /\ clock' = clock + 1
             /\ UNCHANGED <<engine, up, todo, recorded, made, sql, mirror, disk, unsaved, writes>>

StoreNext ==
    \/ OpenSqlite \/ ExecMigration \/ RecordMigration \/ OpenJson \/ StoreCrash \/ StoreTick
    \/ \E agent \in Agents : RecordSpend(agent)
    \/ \E key \in Nonces, cleans \in BOOLEAN : ClaimKey(key, cleans)
    \/ \E s \in Sessions, used \in 0 .. 1 : SaveSession(s, used)
    \/ \E e \in EscrowKeys : SaveEscrow(e) \/ ReleaseEscrow(e)

StoreSpec == StoreInit /\ [][StoreNext]_storeVars

-----------------------------------------------------------------------------
\* The answers a caller can get: a sum of the day, a nonce, a session, an escrow.
SameAnswers ==
    /\ \A agent \in Agents : SpentOn(mirror, agent) = SpentOn(sql, agent)
    /\ \A n \in Nonces : mirror.nonces[n] = sql.nonces[n]
    /\ \A s \in Sessions : mirror.sessions[s] = sql.sessions[s]
    /\ \A e \in EscrowKeys : \/ mirror.escrows[e] = sql.escrows[e]
                             \/ mirror.escrows[e] = "pending" /\ sql.escrows[e] = "released"

\* As long as every write of its file succeeds, the JSON fallback answers as
\* SQLite would across any restart, except that an escrow SQLite released
\* stays pending in it.  With SQLite, a recorded version has run, and once
\* the service is up only version 8 (listed after 9, so skipped when a boot
\* stops between the two) can be missing (db.ts, migrations.ts runMigrations).
StoreKeepsItsWord ==
    /\ engine = "json" /\ up /\ ~unsaved => SameAnswers
    /\ recorded \subseteq made
    /\ engine = "sqlite" /\ up => Versions \ made \subseteq {8}
=============================================================================
