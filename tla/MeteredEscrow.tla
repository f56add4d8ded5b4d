--------------------------- MODULE MeteredEscrow ---------------------------
(***************************************************************************)
(* Metered escrow sessions (agents/metered-escrow.ts): every operation     *)
(* reads data/metered-escrows.json, edits its copy and writes the whole    *)
(* file back, with awaits in between and no lock.  Amounts are whole       *)
(* multiples of the 0.0001 USDC that toFixed(4) keeps.                      *)
(***************************************************************************)
EXTENDS Naturals, FiniteSets

CONSTANTS
  Calls,      \* lanes a client may have a call in
  Ids,        \* session ids randomBytes can give
  Budgets,    \* budgets a session is opened with
  Amounts,    \* amounts a charge asks for
  Torn,       \* the file while, or after, it cannot be parsed
  NoOp,
  Lanes,      \* how many calls may overlap: one value is chosen initially
  MaxOps,     \* bound: calls made in a behaviour
  MaxCrashes  \* bound: process crashes in a behaviour

ASSUME AmountsAssumption ==
  /\ Budgets \subseteq Nat \ {0} /\ Amounts \subseteq Nat \ {0}
  /\ Lanes \subseteq Nat \ {0} /\ MaxOps \in Nat /\ MaxCrashes \in Nat
ASSUME CallsAssumption == IsFiniteSet(Calls)

VARIABLES
  lanes,    \* how many calls overlap in this behaviour
  file,     \* the JSON file: id -> session, or Torn
  op,       \* the operation each call runs
  pc,       \* where each call is; "mixed" writes over another's bytes
  copy,     \* the rows each call read and edited
  granted,  \* per id, the budget an open has acknowledged, or 0
  asked,    \* per id, what charges asked for, all told
  charged,  \* per id, what acknowledged charges amount to
  closed,   \* ids some close has acknowledged
  ops, crashes

vars == <<lanes, file, op, pc, copy, granted, asked, charged, closed, ops, crashes>>
promises == <<granted, charged, closed>>

Session == [budget : Budgets, spent : Nat, open : BOOLEAN]
IsRows(x) == DOMAIN x \subseteq Ids /\ x \in [DOMAIN x -> Session]
ASSUME TornAssumption == \A S \in SUBSET Ids : Torn \notin [S -> Session]
Ops     == [kind : {"open"}, id : Ids, amount : Budgets]
      \cup [kind : {"charge"}, id : Ids, amount : Amounts]
      \cup [kind : {"close"}, id : Ids, amount : {0}]
NoRows  == [i \in {} |-> 0]

PutAlone(rows, i, s) == [j \in {i} |-> s]                              \* mutant
Put(rows, i, s) == [j \in DOMAIN rows \cup {i} |-> IF j = i THEN s ELSE rows[j]]

-----------------------------------------------------------------------------
Init ==
  /\ lanes \in Lanes
  /\ file = NoRows
  /\ op = [c \in Calls |-> NoOp] /\ pc = [c \in Calls |-> "idle"]
  /\ copy = [c \in Calls |-> NoRows]
  /\ granted = [i \in Ids |-> 0] /\ closed = {}
  /\ asked = [i \in Ids |-> 0] /\ charged = [i \in Ids |-> 0]
  /\ ops = 0 /\ crashes = 0

(* loadEscrows: anything unreadable counts as no sessions. *)
Loaded == IF file = Torn THEN NoRows ELSE file

(* A request reaches one of the three routes.  open draws an unused id at  *)
(* random; the client knows it once open has answered.                     *)
Busy == {c \in Calls : pc[c] # "idle"}

Issue(c, o) ==
  /\ c \notin Busy /\ ops < MaxOps
  /\ Cardinality(Busy) < lanes
  /\ IF o.kind = "open"
     THEN /\ granted[o.id] = 0
          /\ o.id \notin DOMAIN Loaded \cup {op[d].id : d \in Busy}
     ELSE granted[o.id] # 0
  /\ op' = [op EXCEPT ![c] = o] /\ pc' = [pc EXCEPT ![c] = "reading"]
  /\ asked' = IF o.kind = "charge" THEN [asked EXCEPT ![o.id] = @ + o.amount] ELSE asked
  /\ ops' = ops + 1
  /\ UNCHANGED <<lanes, file, copy, promises, crashes>>

(* The call ends without a write: error answers, or close of a closed one. *)
Answer(c) ==
  /\ op' = [op EXCEPT ![c] = NoOp] /\ pc' = [pc EXCEPT ![c] = "idle"]
  /\ copy' = [copy EXCEPT ![c] = NoRows]

Save(c, rows) ==
  /\ pc' = [pc EXCEPT ![c] = "saving"] /\ copy' = [copy EXCEPT ![c] = rows]
  /\ UNCHANGED <<op, closed>>

ReadOpen(c) ==
  /\ pc[c] = "reading" /\ op[c].kind = "open"
  /\ Save(c, Put(Loaded, op[c].id, [budget |-> op[c].amount, spent |-> 0, open |-> TRUE]))
  /\ UNCHANGED <<lanes, file, granted, asked, charged, ops, crashes>>

(* chargeMeteredSession's two tests on the row it read, and its new spend. *)
FitsAlways(s, amount) == s.open                                       \* mutant
FitsClosed(s, amount) == s.spent + amount <= s.budget                 \* mutant
Fits(s, amount) == s.open /\ s.spent + amount <= s.budget

SpendAll(s, amount) == s.budget                                       \* mutant
Spend(s, amount) == s.spent + amount

ReadCharge(c) ==
  LET i == op[c].id
      n == op[c].amount
  IN  /\ pc[c] = "reading" /\ op[c].kind = "charge"
      /\ IF i \in DOMAIN Loaded /\ Fits(Loaded[i], n)
         THEN Save(c, [Loaded EXCEPT ![i].spent = Spend(Loaded[i], n)])
         ELSE Answer(c) /\ UNCHANGED closed
      /\ UNCHANGED <<lanes, file, granted, asked, charged, ops, crashes>>

ReadClose(c) ==
  LET i == op[c].id
  IN  /\ pc[c] = "reading" /\ op[c].kind = "close"
      /\ IF i \in DOMAIN Loaded /\ Loaded[i].open
         THEN Save(c, [Loaded EXCEPT ![i].open = FALSE])
         ELSE Answer(c) /\ closed' = IF i \in DOMAIN Loaded THEN closed \cup {i} ELSE closed
      /\ UNCHANGED <<lanes, file, granted, asked, charged, ops, crashes>>

(* writeFile opens with O_TRUNC: the file is empty until the bytes land. *)
Truncate(c) ==
  /\ pc[c] = "saving" /\ pc' = [pc EXCEPT ![c] = "writing"]
  /\ file' = Torn
  /\ UNCHANGED <<lanes, op, copy, promises, asked, ops, crashes>>

AcknowledgeAny(o) == [granted EXCEPT ![o.id] = o.amount]               \* mutant
Acknowledge(o) ==
  IF o.kind = "open" THEN [granted EXCEPT ![o.id] = o.amount] ELSE granted

(* The bytes land and the call answers.  Where two writes overlap, the     *)
(* longer text may stick out behind the shorter: no longer JSON.           *)
Write(c) ==
  LET o == op[c]
  IN  /\ pc[c] \in {"writing", "mixed"}
      /\ file' \in {copy[c]} \cup (IF pc[c] = "mixed" THEN {Torn} ELSE {})
      /\ pc' = [d \in Calls |-> IF d = c THEN "idle"
                               ELSE IF pc[d] = "writing" THEN "mixed" ELSE pc[d]]
      /\ op' = [op EXCEPT ![c] = NoOp] /\ copy' = [copy EXCEPT ![c] = NoRows]
      /\ granted' = Acknowledge(o)
      /\ closed'  = IF o.kind = "close" THEN closed \cup {o.id} ELSE closed
      /\ charged' = IF o.kind = "charge"
                    THEN [charged EXCEPT ![o.id] = @ + o.amount] ELSE charged
      /\ UNCHANGED <<lanes, asked, ops, crashes>>

Crash ==
  /\ crashes < MaxCrashes /\ crashes' = crashes + 1
  /\ op' = [c \in Calls |-> NoOp] /\ pc' = [c \in Calls |-> "idle"]
  /\ copy' = [c \in Calls |-> NoRows]
  /\ UNCHANGED <<lanes, file, promises, asked, ops>>

Next ==
  \/ \E c \in Calls : \/ \E o \in Ops : Issue(c, o)
                      \/ ReadOpen(c) \/ ReadCharge(c) \/ ReadClose(c)
                      \/ Truncate(c) \/ Write(c)
  \/ Crash

Spec == Init /\ [][Next]_vars
-----------------------------------------------------------------------------
TypeOK ==
  /\ lanes \in Lanes
  /\ file = Torn \/ IsRows(file)
  /\ op \in [Calls -> Ops \cup {NoOp}]
  /\ pc \in [Calls -> {"idle", "reading", "saving", "writing", "mixed"}]
  /\ DOMAIN copy = Calls /\ \A c \in Calls : IsRows(copy[c])
  /\ granted \in [Ids -> Budgets \cup {0}] /\ closed \subseteq Ids
  /\ asked \in [Ids -> Nat] /\ charged \in [Ids -> Nat]
  /\ ops \in 0 .. MaxOps /\ crashes \in 0 .. MaxCrashes

(* No row, on disk or in a call's hands, ever shows more spent than its    *)
(* budget, whatever overlaps, tears or crashes (chargeMeteredSession's     *)
(* test is made on the very copy that is written back).                    *)
RowsWithinBudget ==
  \A rows \in {copy[c] : c \in Calls} \cup {Loaded} :
    \A i \in DOMAIN rows : rows[i].spent <= rows[i].budget

(* A session is never shown to have spent more than charges asked of it:   *)
(* lost updates and lost files only ever lose charges.                     *)
NeverOverbilled ==
  file # Torn => \A i \in DOMAIN file : file[i].spent <= asked[i]

(* With one call at a time and no crash the file is exactly what the       *)
(* clients were told: every session, its spend and whether it is closed.   *)
SerialFileIsExact ==
  lanes = 1 /\ crashes = 0 /\ Busy = {} =>
    /\ file # Torn
    /\ DOMAIN file = {i \in Ids : granted[i] # 0}
    /\ \A i \in DOMAIN file :
         file[i] = [budget |-> granted[i], spent |-> charged[i], open |-> i \notin closed]

(* With one call at a time and no crash, every acknowledgement is a step   *)
(* of the promise made to buyer and merchant (EscrowPromise).              *)
Promise == INSTANCE EscrowPromise
SerialCallsKeepPromise ==
  [][lanes = 1 /\ crashes' = 0 => Promise!Next]_promises

(* Acknowledged charges stay within the granted budget: the overdraft      *)
(* check README.md:145 announces.                                          *)
ChargesWithinBudget == \A i \in Ids : charged[i] <= granted[i]
=============================================================================
