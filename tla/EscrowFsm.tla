----------------------------- MODULE EscrowFsm -----------------------------
(***************************************************************************)
(* Protocol escrows (protocol/escrow-fsm.ts): the whole store is one row   *)
(* of protocol_kv (protocol/store.ts), shadowed by the unified escrows     *)
(* table and its transition log (lib/escrow-unified.ts).  Once the row is  *)
(* there a handler reads, edits and writes it in one go; while it is not,  *)
(* readProtocolStore first awaits the legacy file.                         *)
(***************************************************************************)
EXTENDS Naturals, Sequences, FiniteSets, SequencesExt

CONSTANTS
  Makers,        \* lanes a client may have a create in
  FsmIds,        \* escrow ids randomUUID can give
  LegacyEscrows, \* the store's legacy file: id -> state, empty when missing
  NoRow,         \* the store has no row yet
  NoFsmId,
  Looking,       \* what a handler that only reads is about to add
  MaxLost,       \* bound: statements that fail, with what follows them
  MaxMoves       \* bound: rows of the log

VARIABLES
  root,    \* the store's row: id -> history of states, or NoRow
  shadow,  \* escrows: id -> state
  log,     \* escrow_transitions: <<id, from, to>>
  making,  \* the id each create is about to add to the store it read
  lost     \* handlers that stopped halfway

fsmVars == <<root, shadow, log, making, lost>>

Moves(s) == CASE s = "CREATED" -> {"FUNDED", "CANCELLED"}
              [] s = "FUNDED" -> {"LOCKED", "CANCELLED"}
              [] s = "LOCKED" -> {"EXECUTING", "DISPUTED", "CANCELLED"}
              [] s = "EXECUTING" -> {"DELIVERED", "DISPUTED", "CANCELLED"}
              [] s = "DELIVERED" -> {"VERIFIED", "DISPUTED"}
              [] s = "VERIFIED" -> {"SETTLED", "REFUNDED", "DISPUTED"}
              [] s = "DISPUTED" -> {"SETTLED", "REFUNDED", "CANCELLED"}
              [] OTHER -> {}
EscrowStates == {"CREATED", "FUNDED", "LOCKED", "EXECUTING", "DELIVERED", "VERIFIED",
                 "SETTLED", "REFUNDED", "DISPUTED", "CANCELLED"}
Ended == {s \in EscrowStates : Moves(s) = {}}

(* What a create is about to add, or its absence, is no other id, and the  *)
(* missing row no row.                                                     *)
ASSUME FsmAssumption ==
    /\ Looking \notin FsmIds /\ NoFsmId \notin FsmIds \cup {Looking}
    /\ DOMAIN LegacyEscrows \subseteq FsmIds
    /\ LegacyEscrows \in [DOMAIN LegacyEscrows -> EscrowStates]
    /\ \A I \in SUBSET FsmIds : NoRow \notin [I -> Seq(EscrowStates)]

NoEscrows == [i \in {} |-> <<>>]
Plus(f, i, x) == [j \in DOMAIN f \cup {i} |-> IF j = i THEN x ELSE f[j]]
StateIn(r, i) == Last(r[i])

-----------------------------------------------------------------------------
(* A handler runs its statements in order; a throw loses those that follow *)
(* the first, and the client gets a 500.                                   *)
AllRun == UNCHANGED lost
CutShort == lost < MaxLost /\ lost' = lost + 1

FsmInit == /\ root = NoRow /\ shadow = NoEscrows /\ log = <<>>
           /\ making = [m \in Makers |-> NoFsmId] /\ lost = 0

Unheard(i) == /\ i \notin DOMAIN shadow \cup DOMAIN LegacyEscrows \cup {row[1] : row \in Range(log)}
              /\ root # NoRow => i \notin DOMAIN root
              /\ \A m \in Makers : making[m] # i

(* writeProtocolStore, then syncProtocolEscrow. *)
Made(rows, i) ==
  /\ root' = Plus(rows, i, <<"CREATED">>)
  /\ \/ AllRun /\ shadow' = Plus(shadow, i, "CREATED")
     \/ CutShort /\ UNCHANGED shadow
  /\ UNCHANGED log

CreateProtocol(i) ==
  /\ root # NoRow /\ Unheard(i)
  /\ Made(root, i) /\ UNCHANGED making

(* No row yet: every handler that looks before the first write goes on    *)
(* with the same legacy rows, which it writes as the row when there are    *)
(* any.  A create adds its escrow to them.                                 *)
LegacyRoot == [j \in DOMAIN LegacyEscrows |-> <<LegacyEscrows[j]>>]

ReadLegacy(m, i) ==
  /\ root = NoRow /\ making[m] = NoFsmId
  /\ i = Looking \/ Unheard(i)
  /\ making' = [making EXCEPT ![m] = i] /\ UNCHANGED <<root, shadow, log, lost>>

FoundLegacy(m) ==
  /\ making[m] # NoFsmId
  /\ IF making[m] = Looking
     THEN /\ root' = IF LegacyRoot = NoEscrows THEN root ELSE LegacyRoot
          /\ UNCHANGED <<shadow, log, lost>>
     ELSE Made(LegacyRoot, making[m])
  /\ making' = [making EXCEPT ![m] = NoFsmId]

(* The transition is looked up before anything is written, and the log     *)
(* takes the state the escrow comes from.                                  *)
MovesAnywhere(s) == EscrowStates                                      \* mutant
Permitted(s) == Moves(s)

Row(i, from, to) == <<i, from, to>>

Transition(i, next) ==
  /\ root # NoRow /\ i \in DOMAIN root /\ Len(log) < MaxMoves
  /\ next \in Permitted(StateIn(root, i))
  /\ root' = [root EXCEPT ![i] = Append(@, next)]
  /\ LET row == Row(i, StateIn(root, i), next)
     IN \/ AllRun /\ log' = Append(log, row) /\ shadow' = Plus(shadow, i, next)
        \/ CutShort /\ log' = Append(log, row) /\ UNCHANGED shadow
        \/ CutShort /\ UNCHANGED <<log, shadow>>
  /\ UNCHANGED making

(* The process dies with every create that awaits its file. *)
FsmRestart == /\ \E m \in Makers : making[m] # NoFsmId
              /\ making' = [m \in Makers |-> NoFsmId]
              /\ UNCHANGED <<root, shadow, log, lost>>

FsmNext ==
  \/ \E i \in FsmIds : CreateProtocol(i) \/ (\E s \in EscrowStates : Transition(i, s))
  \/ \E m \in Makers : FoundLegacy(m) \/ (\E i \in FsmIds \cup {Looking} : ReadLegacy(m, i))
  \/ FsmRestart

FsmSpec == FsmInit /\ [][FsmNext]_fsmVars

-----------------------------------------------------------------------------
(* Where the log tells of one escrow, in all or up to a row.               *)
Entries(i) == {k \in DOMAIN log : log[k][1] = i}
EntriesTo(i, k) == {j \in Entries(i) : j <= k}

(* An escrow's story adds up, for one this program created.  Whatever      *)
(* handlers stop halfway and however they race for the first row, the log  *)
(* never ends it twice and tells its moves in order; when no handler       *)
(* stopped halfway, the log of an escrow the store still holds is its      *)
(* history, and the shadow table shows where it ends.  (A legacy escrow    *)
(* may be rewound by a handler that read the legacy file before the row    *)
(* was there, and end twice.)                                              *)
LogTellsHistory ==
  /\ \A i \in FsmIds \ DOMAIN LegacyEscrows : \A j, k \in Entries(i) :
       j < k => /\ log[j][3] \notin Ended
                /\ lost = 0 /\ EntriesTo(i, k) \ EntriesTo(i, j) = {k} => log[k][2] = log[j][3]
  /\ lost = 0 /\ root # NoRow =>
       \A i \in DOMAIN root \ DOMAIN LegacyEscrows :
         /\ shadow[i] = StateIn(root, i)
         /\ Len(root[i]) = Cardinality(Entries(i)) + 1
         /\ root[i][1] = "CREATED"
         /\ \A k \in Entries(i) : root[i][Cardinality(EntriesTo(i, k)) + 1] = log[k][3]
=============================================================================
