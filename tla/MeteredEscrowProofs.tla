------------------------ MODULE MeteredEscrowProofs ------------------------
(***************************************************************************)
(* Theorems of MeteredEscrow: what holds of every row, and what it has     *)
(* been asked, for any overlap and any number of crashes, and that calls   *)
(* made one at a time are exact and keep the promise of EscrowPromise.     *)
(***************************************************************************)
EXTENDS MeteredEscrow, SumTheorems

Within(rows) == IsRows(rows) /\ \A i \in DOMAIN rows : rows[i].spent <= rows[i].budget

LEMMA NoRowsWithin == Within(NoRows)
  BY DEF Within, IsRows, NoRows

LEMMA RowsAreNotTorn == \A rows : IsRows(rows) => rows # Torn
  BY TornAssumption DEF IsRows

LEMMA OpenedWithin ==
  ASSUME NEW rows, Within(rows), NEW i \in Ids, NEW b \in Budgets
  PROVE  Within(Put(rows, i, [budget |-> b, spent |-> 0, open |-> TRUE]))
<1>1. [budget |-> b, spent |-> 0, open |-> TRUE] \in Session /\ 0 <= b
  BY AmountsAssumption DEF Session
<1> QED  BY <1>1 DEF Within, IsRows, Put

LEMMA ChargedWithin ==
  ASSUME NEW rows, Within(rows), NEW i \in DOMAIN rows, NEW n \in Amounts, Fits(rows[i], n)
  PROVE  Within([rows EXCEPT ![i].spent = Spend(rows[i], n)])
<1>1. rows[i] \in Session /\ Spend(rows[i], n) \in Nat /\ Spend(rows[i], n) <= rows[i].budget
  BY AmountsAssumption DEF Within, IsRows, Session, Fits, Spend
<1>2. [rows[i] EXCEPT !.spent = Spend(rows[i], n)] \in Session
  BY <1>1 DEF Session
<1> QED  BY <1>1, <1>2 DEF Within, IsRows, Session

LEMMA ClosedWithin ==
  ASSUME NEW rows, Within(rows), NEW i \in DOMAIN rows
  PROVE  Within([rows EXCEPT ![i].open = FALSE])
<1>1. [rows[i] EXCEPT !.open = FALSE] \in Session
  BY DEF Within, IsRows, Session
<1> QED  BY <1>1 DEF Within, IsRows, Session

(* The rows are within budget and a call under way runs some operation.    *)
Underway == \A c \in Calls : pc[c] # "idle" => op[c] \in Ops
RowsInv == /\ TypeOK /\ Underway
           /\ file # Torn => Within(file)
           /\ \A c \in Calls : Within(copy[c])

LEMMA LoadedWithin == RowsInv => Within(Loaded)
  BY NoRowsWithin DEF RowsInv, Loaded

LEMMA InitRows == Init => RowsInv
  BY NoRowsWithin, AmountsAssumption DEF Init, RowsInv, TypeOK, Underway, Within

(* A call that answers without writing, or saves rows that are within.     *)
LEMMA SavesWithin ==
  ASSUME RowsInv, NEW c \in Calls, pc[c] = "reading",
         UNCHANGED <<lanes, file, granted, asked, charged, ops, crashes>>,
         \/ \E rows : Within(rows) /\ Save(c, rows)
         \/ Answer(c) /\ closed' \in SUBSET Ids
  PROVE  RowsInv'
<1>1. /\ op' \in [Calls -> Ops \cup {NoOp}]
      /\ pc' \in [Calls -> {"idle", "reading", "saving", "writing", "mixed"}]
      /\ closed' \subseteq Ids
  BY DEF RowsInv, TypeOK, Save, Answer
<1>2. DOMAIN copy' = Calls /\ \A d \in Calls : Within(copy'[d])
  BY NoRowsWithin DEF RowsInv, TypeOK, Save, Answer
<1>3. Underway'
  BY DEF RowsInv, TypeOK, Underway, Save, Answer
<1> QED  BY <1>1, <1>2, <1>3 DEF RowsInv, TypeOK, Within

LEMMA RowsStep == RowsInv /\ [Next]_vars => RowsInv'
<1> SUFFICES ASSUME RowsInv, [Next]_vars PROVE RowsInv'
  OBVIOUS
<1> USE AmountsAssumption
<1>1. ASSUME NEW c \in Calls, NEW o \in Ops, Issue(c, o) PROVE RowsInv'
  <2>1. /\ op' = [op EXCEPT ![c] = o] /\ pc' = [pc EXCEPT ![c] = "reading"]
        /\ UNCHANGED <<lanes, file, copy, granted, charged, closed, crashes>>
        /\ ops' = ops + 1 /\ ops < MaxOps
    BY <1>1 DEF Issue, promises
  <2>2. asked' \in [Ids -> Nat]
    <3>1. o.kind = "charge" => o.id \in Ids /\ o.amount \in Nat
      BY DEF Ops
    <3> QED  BY <1>1, <3>1 DEF Issue, RowsInv, TypeOK
  <2>3. op' \in [Calls -> Ops \cup {NoOp}] /\ Underway'
    BY <2>1 DEF RowsInv, TypeOK, Underway
  <2> QED  BY <2>1, <2>2, <2>3 DEF RowsInv, TypeOK, Within
<1>2. ASSUME NEW c \in Calls, ReadOpen(c) PROVE RowsInv'
  <2>1. op[c] \in Ops /\ op[c].kind = "open"
    BY <1>2 DEF ReadOpen, RowsInv, Underway
  <2>2. op[c].id \in Ids /\ op[c].amount \in Budgets
    BY <2>1 DEF Ops
  <2> QED  BY <1>2, <2>2, LoadedWithin, OpenedWithin, SavesWithin DEF ReadOpen
<1>3. ASSUME NEW c \in Calls, ReadCharge(c) PROVE RowsInv'
  <2>1. op[c] \in Ops /\ op[c].kind = "charge"
    BY <1>3 DEF ReadCharge, RowsInv, Underway
  <2>2. op[c].amount \in Amounts /\ closed \in SUBSET Ids
    BY <2>1 DEF Ops, RowsInv, TypeOK
  <2> QED  BY <1>3, <2>2, LoadedWithin, ChargedWithin, SavesWithin DEF ReadCharge
<1>4. ASSUME NEW c \in Calls, ReadClose(c) PROVE RowsInv'
  <2>1. op[c] \in Ops
    BY <1>4 DEF ReadClose, RowsInv, Underway
  <2>2. closed \cup {op[c].id} \in SUBSET Ids /\ closed \in SUBSET Ids
    BY <2>1 DEF Ops, RowsInv, TypeOK
  <2> QED  BY <1>4, <2>2, LoadedWithin, ClosedWithin, SavesWithin DEF ReadClose
<1>5. ASSUME NEW c \in Calls, Truncate(c) PROVE RowsInv'
  BY <1>5 DEF Truncate, promises, RowsInv, TypeOK, Underway, Within
<1>6. ASSUME NEW c \in Calls, Write(c) PROVE RowsInv'
  <2>1. op[c] \in Ops
    BY <1>6 DEF Write, RowsInv, Underway
  <2>2. /\ op[c].id \in Ids
        /\ op[c].kind = "open" => op[c].amount \in Budgets
        /\ op[c].kind = "charge" => op[c].amount \in Nat
    BY <2>1 DEF Ops
  <2>3. /\ granted' \in [Ids -> Budgets \cup {0}] /\ closed' \subseteq Ids
        /\ charged' \in [Ids -> Nat]
    BY <1>6, <2>2 DEF Write, Acknowledge, RowsInv, TypeOK
  <2>4. /\ pc' \in [Calls -> {"idle", "reading", "saving", "writing", "mixed"}]
        /\ op' = [op EXCEPT ![c] = NoOp] /\ copy' = [copy EXCEPT ![c] = NoRows]
        /\ \A d \in Calls : pc'[d] # "idle" => d # c /\ pc[d] # "idle"
        /\ UNCHANGED <<lanes, asked, ops, crashes>>
    BY <1>6 DEF Write, RowsInv, TypeOK
  <2>5. op' \in [Calls -> Ops \cup {NoOp}] /\ Underway'
    BY <2>4 DEF RowsInv, TypeOK, Underway
  <2>6. /\ DOMAIN copy' = Calls /\ \A d \in Calls : Within(copy'[d])
        /\ file' # Torn => Within(file')
    BY <1>6, <2>4, NoRowsWithin DEF Write, RowsInv, TypeOK
  <2> QED  BY <2>3, <2>4, <2>5, <2>6 DEF RowsInv, TypeOK, Within
<1>7. CASE Crash
  BY <1>7, NoRowsWithin DEF Crash, promises, RowsInv, TypeOK, Underway, Within
<1>8. CASE UNCHANGED vars
  BY <1>8 DEF vars, RowsInv, TypeOK, Underway, Within
<1> QED  BY <1>1, <1>2, <1>3, <1>4, <1>5, <1>6, <1>7, <1>8 DEF Next

LEMMA RowsInvHolds == Spec => []RowsInv
  BY InitRows, RowsStep, PTL DEF Spec

(* RowsWithinBudget: no version of a session, on disk or in a call's       *)
(* hands, is over its budget, for any overlap, torn file or crash.         *)
THEOREM WithinBudget == Spec => []RowsWithinBudget
<1>1. RowsInv => RowsWithinBudget
  BY LoadedWithin DEF RowsInv, RowsWithinBudget, Within
<1> QED  BY <1>1, RowsInvHolds, PTL
-----------------------------------------------------------------------------
(* One call at a time and no crash: the rows tell what clients were told,  *)
(* but for the call under way, whose copy is what they will be told once   *)
(* it answers.                                                             *)
Tells(rows, g, ch, cl) ==
  /\ DOMAIN rows = {i \in Ids : g[i] # 0}
  /\ \A i \in DOMAIN rows :
       rows[i].budget = g[i] /\ rows[i].spent = ch[i] /\ (rows[i].open <=> i \notin cl)
ChargedBy(o) == IF o.kind = "charge" THEN [charged EXCEPT ![o.id] = @ + o.amount] ELSE charged
ClosedBy(o)  == IF o.kind = "close" THEN closed \cup {o.id} ELSE closed

(* What the promise asks of a call that is about to be acknowledged.       *)
Owed(o) == CASE o.kind = "open"   -> granted[o.id] = 0
             [] o.kind = "charge" -> o.id \notin closed /\ charged[o.id] + o.amount <= granted[o.id]
             [] o.kind = "close"  -> granted[o.id] # 0

Alone == \A c, d \in Calls : pc[c] # "idle" /\ pc[d] # "idle" => c = d
Quiet == \A c \in Calls : pc[c] \notin {"writing", "mixed"}
FileTells == Quiet => file # Torn /\ Tells(file, granted, charged, closed)
Reads(c) == IF op[c].kind = "open" THEN granted[op[c].id] = 0 ELSE granted[op[c].id] # 0
CopyTells(c) == /\ Tells(copy[c], Acknowledge(op[c]), ChargedBy(op[c]), ClosedBy(op[c]))
                /\ Owed(op[c])
Ungranted == \A i \in Ids : granted[i] = 0 => charged[i] = 0 /\ i \notin closed

SerialInv ==
  lanes = 1 /\ crashes = 0 =>
    /\ Alone /\ FileTells /\ Ungranted
    /\ \A c \in Calls : /\ pc[c] # "mixed"
                        /\ pc[c] = "reading" => Reads(c)
                        /\ pc[c] \in {"saving", "writing"} => CopyTells(c)

Inv == RowsInv /\ SerialInv

LEMMA InitSerial == Init => SerialInv
  BY NoRowsWithin, RowsAreNotTorn DEF Within, Init, SerialInv, Alone, FileTells, Quiet, Tells, NoRows, Ungranted

(* The file a call reads when it is alone tells what clients were told.    *)
LEMMA ReaderSees ==
  ASSUME Inv, lanes = 1, crashes = 0, NEW c \in Calls, pc[c] = "reading"
  PROVE  /\ Tells(Loaded, granted, charged, closed) /\ Reads(c) /\ op[c] \in Ops
         /\ \A d \in Calls \ {c} : pc[d] = "idle"
<1>1. Alone /\ FileTells /\ Reads(c) /\ op[c] \in Ops
  BY DEF Inv, SerialInv, RowsInv, Underway
<1>2. \A d \in Calls \ {c} : pc[d] = "idle"
  BY <1>1 DEF Alone
<1>3. Quiet
  BY <1>2 DEF Quiet
<1> QED  BY <1>1, <1>2, <1>3 DEF FileTells, Loaded

(* It saves what it will be told for, or answers and changes nothing.      *)
LEMMA SerialRead ==
  ASSUME Inv, lanes = 1, crashes = 0, NEW c \in Calls, pc[c] = "reading",
         UNCHANGED <<lanes, file, granted, asked, charged, ops, crashes>>,
         \/ \E rows : /\ Save(c, rows) /\ Owed(op[c])
                      /\ Tells(rows, Acknowledge(op[c]), ChargedBy(op[c]), ClosedBy(op[c]))
         \/ Answer(c) /\ UNCHANGED closed
  PROVE  SerialInv'
<1>1. /\ \A d \in Calls \ {c} : pc[d] = "idle" /\ pc'[d] = "idle"
      /\ file # Torn /\ Tells(file, granted, charged, closed) /\ Ungranted
  <2>1. \A d \in Calls \ {c} : pc[d] = "idle"
    BY ReaderSees
  <2>2. Quiet /\ FileTells /\ Ungranted
    BY <2>1 DEF Quiet, Inv, SerialInv
  <2>3. \A d \in Calls \ {c} : pc'[d] = pc[d]
    BY DEF Save, Answer, Inv, RowsInv, TypeOK
  <2> QED  BY <2>1, <2>2, <2>3 DEF FileTells
<1>2. UNCHANGED closed
  BY DEF Save
<1>3. Alone' /\ FileTells' /\ Ungranted'
  BY <1>1, <1>2 DEF Alone, FileTells, Tells, Ungranted
<1>4. CASE \E rows : /\ Save(c, rows) /\ Owed(op[c])
                     /\ Tells(rows, Acknowledge(op[c]), ChargedBy(op[c]), ClosedBy(op[c]))
  <2> PICK rows : /\ Save(c, rows) /\ Owed(op[c])
                  /\ Tells(rows, Acknowledge(op[c]), ChargedBy(op[c]), ClosedBy(op[c]))
    BY <1>4
  <2>1. op' = op /\ copy'[c] = rows /\ pc'[c] = "saving"
    BY DEF Save, Inv, RowsInv, TypeOK
  <2>2. CopyTells(c)'
    BY <1>2, <2>1 DEF CopyTells, Tells, Owed, Acknowledge, ChargedBy, ClosedBy
  <2> QED  BY <1>1, <1>3, <2>1, <2>2 DEF SerialInv
<1>5. CASE Answer(c)
  <2>1. pc'[c] = "idle"
    BY <1>5 DEF Answer, Inv, RowsInv, TypeOK
  <2> QED  BY <1>1, <1>3, <2>1 DEF SerialInv
<1> QED  BY <1>4, <1>5

LEMMA SerialStep == Inv /\ [Next]_vars => SerialInv'
<1> SUFFICES ASSUME Inv, [Next]_vars, lanes' = 1, crashes' = 0 PROVE SerialInv'
  BY DEF SerialInv
<1> USE AmountsAssumption
<1>0. ~Crash /\ lanes = 1 /\ crashes = 0 /\ TypeOK
  <2>1. TypeOK /\ crashes \in Nat
    BY DEF Inv, RowsInv, TypeOK
  <2>2. ASSUME Crash PROVE FALSE
    BY <2>1, <2>2 DEF Crash
  <2>3. UNCHANGED <<lanes, crashes>>
    BY <2>2 DEF Next, vars, Issue, ReadOpen, ReadCharge, ReadClose, Truncate, Write
  <2> QED  BY <2>1, <2>2, <2>3
<1>1. ASSUME NEW c \in Calls, NEW o \in Ops, Issue(c, o) PROVE SerialInv'
  <2>1. Busy = {}
    <3>1. IsFiniteSet(Busy) /\ Cardinality(Busy) < 1
      BY <1>0, <1>1, CallsAssumption, FS_Subset DEF Busy, Issue
    <3>2. Cardinality(Busy) \in Nat
      BY <3>1, FS_CardinalityType
    <3> QED  BY <3>1, <3>2, FS_EmptySet
  <2>2. \A d \in Calls : pc[d] = "idle"
    BY <2>1 DEF Busy
  <2>3. /\ op'[c] = o /\ pc'[c] = "reading" /\ \A d \in Calls \ {c} : pc'[d] = "idle"
        /\ UNCHANGED <<file, granted, charged, closed>>
    BY <1>0, <1>1, <2>2 DEF Issue, promises, TypeOK
  <2>4. FileTells' /\ Ungranted'
    BY <1>0, <2>2, <2>3 DEF Inv, SerialInv, FileTells, Quiet, Tells, Ungranted
  <2>5. Reads(c)'
    BY <1>1, <2>3 DEF Issue, Reads
  <2> QED  BY <2>3, <2>4, <2>5 DEF SerialInv, Alone
<1>2. ASSUME NEW c \in Calls, ReadOpen(c) PROVE SerialInv'
  <2> DEFINE i == op[c].id
             row == [budget |-> op[c].amount, spent |-> 0, open |-> TRUE]
  <2>1. /\ Tells(Loaded, granted, charged, closed) /\ granted[i] = 0
        /\ op[c].kind = "open" /\ i \in Ids /\ op[c].amount \in Nat \ {0}
    BY <1>0, <1>2, ReaderSees DEF ReadOpen, Reads, Ops
  <2>2. charged[i] = 0 /\ i \notin closed
    BY <1>0, <2>1 DEF Inv, SerialInv, Ungranted
  <2>3. Tells(Put(Loaded, i, row), [granted EXCEPT ![i] = op[c].amount], charged, closed)
    BY <1>0, <2>1, <2>2 DEF Tells, Put, TypeOK
  <2>4. Owed(op[c]) /\ Tells(Put(Loaded, i, row), Acknowledge(op[c]), ChargedBy(op[c]), ClosedBy(op[c]))
    BY <2>1, <2>3 DEF Owed, Acknowledge, ChargedBy, ClosedBy
  <2> QED  BY <1>0, <1>2, <2>4, SerialRead DEF ReadOpen
<1>3. ASSUME NEW c \in Calls, ReadCharge(c) PROVE SerialInv'
  <2> DEFINE i == op[c].id
             n == op[c].amount
             rows == [Loaded EXCEPT ![i].spent = Spend(Loaded[i], n)]
  <2>1. /\ Tells(Loaded, granted, charged, closed)
        /\ op[c].kind = "charge" /\ i \in Ids /\ n \in Nat
    BY <1>0, <1>3, ReaderSees DEF ReadCharge, Ops
  <2>2. CASE i \in DOMAIN Loaded /\ Fits(Loaded[i], n)
    <3>1. i \notin closed /\ charged[i] + n <= granted[i] /\ Loaded[i] \in Session
      BY <2>1, <2>2, LoadedWithin DEF Tells, Fits, Inv, Within, IsRows
    <3>2. Tells(rows, granted, [charged EXCEPT ![i] = @ + n], closed)
      <4>1. DOMAIN rows = DOMAIN Loaded
        OBVIOUS
      <4>2. /\ rows[i].budget = Loaded[i].budget /\ rows[i].open = Loaded[i].open
            /\ rows[i].spent = charged[i] + n
        BY <2>1, <2>2, <3>1 DEF Session, Spend, Tells
      <4>3. \A j \in DOMAIN Loaded \ {i} : rows[j] = Loaded[j]
        OBVIOUS
      <4> QED  BY <1>0, <2>1, <4>1, <4>2, <4>3 DEF Tells, TypeOK
    <3>3. Owed(op[c]) /\ Tells(rows, Acknowledge(op[c]), ChargedBy(op[c]), ClosedBy(op[c]))
      BY <2>1, <3>1, <3>2 DEF Owed, Acknowledge, ChargedBy, ClosedBy
    <3> QED  BY <1>0, <1>3, <2>2, <3>3, SerialRead DEF ReadCharge
  <2>3. CASE ~(i \in DOMAIN Loaded /\ Fits(Loaded[i], n))
    BY <1>0, <1>3, <2>3, SerialRead DEF ReadCharge
  <2> QED  BY <2>2, <2>3
<1>4. ASSUME NEW c \in Calls, ReadClose(c) PROVE SerialInv'
  <2> DEFINE i == op[c].id
             rows == [Loaded EXCEPT ![i].open = FALSE]
  <2>1. /\ Tells(Loaded, granted, charged, closed) /\ granted[i] # 0
        /\ op[c].kind = "close" /\ i \in Ids
    BY <1>0, <1>4, ReaderSees DEF ReadClose, Reads, Ops
  <2>2. CASE i \in DOMAIN Loaded /\ Loaded[i].open
    <3>1. Loaded[i] \in Session
      BY <2>2, LoadedWithin DEF Inv, Within, IsRows
    <3>2. Tells(rows, granted, charged, closed \cup {i})
      <4>1. DOMAIN rows = DOMAIN Loaded
        OBVIOUS
      <4>2. /\ rows[i].budget = Loaded[i].budget /\ rows[i].spent = Loaded[i].spent
            /\ rows[i].open = FALSE
        BY <2>2, <3>1 DEF Session
      <4>3. \A j \in DOMAIN Loaded \ {i} : rows[j] = Loaded[j]
        OBVIOUS
      <4> QED  BY <2>1, <2>2, <4>1, <4>2, <4>3 DEF Tells
    <3>3. Owed(op[c]) /\ Tells(rows, Acknowledge(op[c]), ChargedBy(op[c]), ClosedBy(op[c]))
      BY <2>1, <3>2 DEF Owed, Acknowledge, ChargedBy, ClosedBy
    <3> QED  BY <1>0, <1>4, <2>2, <3>3, SerialRead DEF ReadClose
  <2>3. CASE ~(i \in DOMAIN Loaded /\ Loaded[i].open)
    <3>1. i \in DOMAIN Loaded => i \in closed
      BY <2>1, <2>3 DEF Tells
    <3>2. Answer(c) /\ UNCHANGED closed
      BY <1>4, <2>3, <3>1 DEF ReadClose
    <3> QED  BY <1>0, <1>4, <3>2, SerialRead DEF ReadClose
  <2> QED  BY <2>2, <2>3
<1>5. ASSUME NEW c \in Calls, Truncate(c) PROVE SerialInv'
  <2>1. /\ pc'[c] = "writing" /\ \A d \in Calls \ {c} : pc'[d] = pc[d]
        /\ UNCHANGED <<op, copy, granted, charged, closed>>
        /\ pc[c] = "saving"
    BY <1>0, <1>5 DEF Truncate, promises, TypeOK
  <2>2. CopyTells(c) /\ \A d \in Calls \ {c} : pc[d] = "idle"
    BY <1>0, <2>1 DEF Inv, SerialInv, Alone
  <2>3. CopyTells(c)'
    BY <2>1, <2>2 DEF CopyTells, Tells, Owed, Acknowledge, ChargedBy, ClosedBy
  <2>4. FileTells' /\ Alone' /\ Ungranted'
    BY <1>0, <2>1, <2>2 DEF FileTells, Quiet, Alone, Ungranted, Inv, SerialInv
  <2> QED  BY <2>1, <2>2, <2>3, <2>4 DEF SerialInv
<1>6. ASSUME NEW c \in Calls, Write(c) PROVE SerialInv'
  <2>1. /\ pc[c] = "writing" /\ CopyTells(c) /\ Ungranted /\ op[c] \in Ops
        /\ \A d \in Calls \ {c} : pc[d] = "idle"
    BY <1>0, <1>6 DEF Write, Inv, SerialInv, Alone, RowsInv, Underway
  <2>2. /\ file' = copy[c] /\ granted' = Acknowledge(op[c])
        /\ charged' = ChargedBy(op[c]) /\ closed' = ClosedBy(op[c])
    BY <1>6, <2>1 DEF Write, ChargedBy, ClosedBy
  <2>3. \A d \in Calls : pc'[d] = "idle"
    BY <1>6, <2>1 DEF Write
  <2>4. file' # Torn /\ Tells(file', granted', charged', closed')
    BY <2>1, <2>2, RowsAreNotTorn DEF CopyTells, Inv, RowsInv, Within
  <2>5. Ungranted'
    <3>1. op[c].id \in Ids
      BY <2>1 DEF Ops
    <3>2. op[c].kind = "open" => op[c].amount # 0
      BY <2>1 DEF Ops
    <3>3. op[c].kind # "open" => granted[op[c].id] # 0
      <4>1. CASE op[c].kind = "charge"
        <5>1. op[c].amount \in Nat \ {0} /\ charged[op[c].id] \in Nat
          BY <1>0, <2>1, <3>1, <4>1 DEF Ops, TypeOK
        <5> QED  BY <2>1, <4>1, <5>1 DEF CopyTells, Owed
      <4>2. CASE op[c].kind = "close"
        BY <2>1, <4>2 DEF CopyTells, Owed
      <4> QED  BY <2>1, <4>1, <4>2 DEF Ops
    <3> QED  BY <1>0, <2>1, <2>2, <3>1, <3>2, <3>3
             DEF Ungranted, Acknowledge, ChargedBy, ClosedBy, TypeOK
  <2> QED  BY <2>3, <2>4, <2>5 DEF SerialInv, FileTells, Alone
<1>7. CASE UNCHANGED vars
  <2>1. SerialInv /\ UNCHANGED <<lanes, file, op, pc, copy, granted, charged, closed, crashes>>
    BY <1>7 DEF vars, Inv
  <2>2. (Alone' <=> Alone) /\ (FileTells' <=> FileTells) /\ (Ungranted' <=> Ungranted)
    BY <2>1 DEF Alone, FileTells, Quiet, Tells, Ungranted
  <2>3. \A c \in Calls : (Reads(c)' <=> Reads(c)) /\ (CopyTells(c)' <=> CopyTells(c))
    BY <2>1 DEF Reads, CopyTells, Owed, Tells, Acknowledge, ChargedBy, ClosedBy
  <2> QED  BY <2>1, <2>2, <2>3 DEF SerialInv
<1> QED  BY <1>0, <1>1, <1>2, <1>3, <1>4, <1>5, <1>6, <1>7 DEF Next

LEMMA InvHolds == Spec => []Inv
<1>1. Init => Inv
  BY InitRows, InitSerial DEF Inv
<1>2. Inv /\ [Next]_vars => Inv'
  BY RowsStep, SerialStep DEF Inv
<1> QED  BY <1>1, <1>2, PTL DEF Spec

(* SerialFileIsExact: between calls made one at a time, with no crash, the *)
(* file tells exactly what clients were told.                              *)
THEOREM SerialExactness == Spec => []SerialFileIsExact
<1>1. ASSUME Inv PROVE SerialFileIsExact
  <2> SUFFICES ASSUME lanes = 1, crashes = 0, Busy = {}
               PROVE  /\ file # Torn
                      /\ DOMAIN file = {i \in Ids : granted[i] # 0}
                      /\ \A i \in DOMAIN file :
                           file[i] = [budget |-> granted[i], spent |-> charged[i], open |-> i \notin closed]
    BY DEF SerialFileIsExact
  <2>1. file # Torn /\ Tells(file, granted, charged, closed) /\ Within(file)
    BY <1>1 DEF Busy, Inv, SerialInv, FileTells, Quiet, RowsInv
  <2>2. ASSUME NEW i \in DOMAIN file
        PROVE  file[i] = [budget |-> granted[i], spent |-> charged[i], open |-> i \notin closed]
    <3>1. file[i] \in Session /\ (i \notin closed) \in BOOLEAN
      BY <2>1 DEF Within, IsRows
    <3>2. file[i].open = (i \notin closed)
      BY <2>1, <3>1 DEF Tells, Session
    <3> QED  BY <2>1, <3>1, <3>2 DEF Tells, Session
  <2> QED  BY <2>1, <2>2 DEF Tells
<1> QED  BY <1>1, InvHolds, PTL

(* SerialCallsKeepPromise: then every acknowledgement is a step of         *)
(* EscrowPromise, so nothing is charged beyond a budget or after a close.  *)
THEOREM SerialPromise == Spec => SerialCallsKeepPromise
<1>1. ASSUME Inv, [Next]_vars PROVE [lanes = 1 /\ crashes' = 0 => Promise!Next]_promises
  <2> SUFFICES ASSUME promises' # promises, lanes = 1, crashes' = 0 PROVE Promise!Next
    OBVIOUS
  <2> USE AmountsAssumption
  <2>1. PICK c \in Calls : ReadClose(c) \/ Write(c) \/ ReadOpen(c) \/ ReadCharge(c)
    BY <1>1 DEF Next, vars, promises, Issue, Truncate, Crash
  <2>2. ~ReadOpen(c) /\ ~ReadCharge(c)
    BY <1>1, <2>1 DEF ReadOpen, ReadCharge, Save, Answer, promises
  <2>3. crashes = 0 /\ op[c] \in Ops
    BY <1>1, <2>1 DEF ReadClose, Write, ReadOpen, ReadCharge, Inv, RowsInv, Underway
  <2>4. op[c].id \in Ids
    BY <2>3 DEF Ops
  <2>5. CASE ReadClose(c)
    <3>1. granted[op[c].id] # 0 /\ UNCHANGED <<granted, charged>>
      BY <1>1, <2>3, <2>5, ReaderSees DEF ReadClose, Reads
    <3>2. closed' = closed \cup {op[c].id}
      BY <2>5, <3>1 DEF ReadClose, Save, promises
    <3> QED  BY <2>4, <3>1, <3>2 DEF Promise!Next, Promise!Close
  <2>6. CASE Write(c)
    <3>1. CopyTells(c)
      BY <1>1, <2>3, <2>6 DEF Write, Inv, SerialInv
    <3>2. CASE op[c].kind = "open"
      BY <2>3, <2>4, <2>6, <3>1, <3>2
         DEF Write, Ops, CopyTells, Owed, Acknowledge, Promise!Next, Promise!Grant
    <3>3. CASE op[c].kind = "charge"
      BY <2>3, <2>4, <2>6, <3>1, <3>3
         DEF Write, Ops, CopyTells, Owed, Acknowledge, Promise!Next, Promise!Charge
    <3>4. CASE op[c].kind = "close"
      BY <2>3, <2>4, <2>6, <3>1, <3>4
         DEF Write, Ops, CopyTells, Owed, Acknowledge, Promise!Next, Promise!Close
    <3> QED  BY <2>3, <3>2, <3>3, <3>4 DEF Ops
  <2> QED  BY <2>1, <2>2, <2>5, <2>6
<1> QED  BY <1>1, InvHolds, PTL DEF Spec, SerialCallsKeepPromise

-----------------------------------------------------------------------------
(* What charges still to be read will add to a row: every one of them, and *)
(* every charge a row already shows, has been asked for.                   *)
ToAdd(i) == [c \in Calls |-> IF pc[c] = "reading" /\ op[c].kind = "charge" /\ op[c].id = i
                             THEN op[c].amount ELSE 0]
Waiting(i) == SumFunction(ToAdd(i))
Billed(rows, i) == i \in DOMAIN rows => rows[i].spent + Waiting(i) <= asked[i]

BillInv == \A i \in Ids : /\ Waiting(i) <= asked[i]
                          /\ Billed(Loaded, i)
                          /\ \A c \in Calls : Billed(copy[c], i)

LEMMA ToAddTyped ==
  ASSUME RowsInv, NEW i \in Ids
  PROVE  ToAdd(i) \in [Calls -> Nat] /\ Waiting(i) \in Nat
<1>1. ASSUME NEW c \in Calls, pc[c] = "reading", op[c].kind = "charge" PROVE op[c].amount \in Nat
  <2>1. op[c] \in Ops
    BY <1>1 DEF RowsInv, Underway
  <2> QED  BY <1>1, <2>1, AmountsAssumption DEF Ops
<1>2. ToAdd(i) \in [Calls -> Nat]
  BY <1>1 DEF ToAdd
<1>3. Waiting(i) \in Nat
  BY <1>2, CallsAssumption, SumIsNat DEF Waiting, SumFunction
<1> QED  BY <1>2, <1>3

(* A step of one call changes what waits by what that call was to add.     *)
LEMMA OneWaits ==
  ASSUME RowsInv, RowsInv', NEW c \in Calls, NEW i \in Ids,
         \A d \in Calls \ {c} : ToAdd(i)'[d] = ToAdd(i)[d]
  PROVE  Waiting(i)' = Waiting(i) - ToAdd(i)[c] + ToAdd(i)'[c]
<1> DEFINE f == ToAdd(i)
           g == ToAdd(i)'
<1>1. f \in [Calls -> Nat]
  BY ToAddTyped
<1>2. g \in [Calls -> Nat]
  <2>1. ASSUME NEW d \in Calls, pc'[d] = "reading", op'[d].kind = "charge" PROVE op'[d].amount \in Nat
    <3>1. op'[d] \in Ops
      BY <2>1 DEF RowsInv, Underway
    <3> QED  BY <2>1, <3>1, AmountsAssumption DEF Ops
  <2> QED  BY <2>1 DEF ToAdd
<1>3. \A d \in Calls \ {c} : g[d] = f[d]
  OBVIOUS
<1> HIDE DEF f, g
<1>4. SumFunctionOnSet(g, Calls) = SumFunctionOnSet(f, Calls) - f[c] + g[c]
  BY <1>1, <1>2, <1>3, CallsAssumption, SumEdited
<1>5. DOMAIN f = Calls /\ DOMAIN g = Calls
  BY <1>1, <1>2
<1> QED  BY <1>4, <1>5 DEF Waiting, SumFunction, f, g

LEMMA NothingWaits ==
  ASSUME NEW i, UNCHANGED asked, ToAdd(i)' = ToAdd(i)
  PROVE  UNCHANGED Waiting(i)
  BY DEF Waiting

(* What a call reads becomes its copy, with at most what it was to add.    *)
LEMMA ReadBilled ==
  ASSUME RowsInv, RowsInv', BillInv, NEW c \in Calls, pc[c] = "reading",
         UNCHANGED <<file, asked>>,
         \/ \E rows : /\ Save(c, rows)
                      /\ \A i \in Ids : i \in DOMAIN rows =>
                            \/ i \in DOMAIN Loaded /\ rows[i].spent <= Loaded[i].spent + ToAdd(i)[c]
                            \/ rows[i].spent = 0
         \/ Answer(c)
  PROVE  BillInv'
<1> SUFFICES ASSUME NEW i \in Ids
             PROVE  /\ Waiting(i)' <= asked'[i] /\ Billed(Loaded, i)'
                    /\ \A d \in Calls : Billed(copy[d], i)'
  BY DEF BillInv
<1>1. /\ \A d \in Calls \ {c} : pc'[d] = pc[d] /\ op'[d] = op[d] /\ copy'[d] = copy[d]
      /\ pc'[c] \in {"saving", "idle"}
  BY DEF Save, Answer, RowsInv, TypeOK
<1>2. ToAdd(i)'[c] = 0 /\ \A d \in Calls \ {c} : ToAdd(i)'[d] = ToAdd(i)[d]
  BY <1>1 DEF ToAdd
<1>3. Waiting(i)' = Waiting(i) - ToAdd(i)[c] + ToAdd(i)'[c]
  BY <1>2, OneWaits
<1>4. ToAdd(i)[c] \in Nat /\ Waiting(i) \in Nat /\ asked[i] \in Nat
  BY ToAddTyped DEF RowsInv, TypeOK
<1>5. Waiting(i)' = Waiting(i) - ToAdd(i)[c] /\ Waiting(i)' <= asked'[i]
  BY <1>2, <1>3, <1>4 DEF BillInv
<1>6. ASSUME NEW rows, IsRows(rows), Billed(rows, i) PROVE i \in DOMAIN rows => rows[i].spent + Waiting(i)' <= asked'[i]
  <2>1. i \in DOMAIN rows => rows[i].spent \in Nat
    BY <1>6 DEF IsRows, Session
  <2> QED  BY <1>4, <1>5, <1>6, <2>1 DEF Billed
<1>7. IsRows(Loaded) /\ Billed(Loaded, i) /\ Loaded' = Loaded
  BY LoadedWithin DEF Within, BillInv, Loaded
<1>8. Billed(Loaded, i)'
  BY <1>6, <1>7 DEF Billed
<1>9. ASSUME NEW d \in Calls PROVE Billed(copy[d], i)'
  <2>1. CASE d # c
    <3>1. IsRows(copy[d]) /\ Billed(copy[d], i) /\ copy'[d] = copy[d]
      BY <1>1, <2>1 DEF RowsInv, TypeOK, BillInv
    <3> QED  BY <1>6, <3>1 DEF Billed
  <2>2. CASE d = c /\ Answer(c)
    BY <2>2 DEF Answer, NoRows, Billed, RowsInv, TypeOK
  <2>3. CASE d = c /\ ~Answer(c)
    <3> PICK rows : /\ Save(c, rows)
                    /\ i \in DOMAIN rows => \/ i \in DOMAIN Loaded /\ rows[i].spent <= Loaded[i].spent + ToAdd(i)[c]
                                            \/ rows[i].spent = 0
      BY <2>3
    <3>1. copy'[c] = rows /\ IsRows(rows)
      BY DEF Save, RowsInv, TypeOK
    <3>2. i \in DOMAIN rows => rows[i].spent \in Nat
      BY <3>1 DEF IsRows, Session
    <3>3. i \in DOMAIN Loaded => Loaded[i].spent \in Nat /\ Loaded[i].spent + Waiting(i) <= asked[i]
      BY <1>7 DEF IsRows, Session, Billed
    <3>4. i \in DOMAIN rows => rows[i].spent + Waiting(i)' <= asked'[i]
      BY <1>4, <1>5, <3>2, <3>3
    <3> QED  BY <2>3, <3>1, <3>4 DEF Billed
  <2> QED  BY <2>1, <2>2, <2>3
<1> QED  BY <1>5, <1>8, <1>9

(* Nothing asked or read: rows only move between the file and the calls.   *)
LEMMA RowsMove ==
  ASSUME RowsInv, BillInv, UNCHANGED asked, \A i \in Ids : Waiting(i)' = Waiting(i),
         Loaded' \in {copy[c] : c \in Calls} \cup {Loaded, NoRows},
         \A c \in Calls : copy'[c] \in {copy[c], NoRows}
  PROVE  BillInv'
<1> SUFFICES ASSUME NEW i \in Ids
             PROVE  /\ Waiting(i)' <= asked'[i] /\ Billed(Loaded, i)'
                    /\ \A d \in Calls : Billed(copy[d], i)'
  BY DEF BillInv
<1>1. i \notin DOMAIN NoRows
  BY DEF NoRows
<1> QED  BY <1>1 DEF BillInv, Billed

LEMMA BillStep == RowsInv /\ RowsInv' /\ BillInv /\ [Next]_vars => BillInv'
<1> SUFFICES ASSUME RowsInv, RowsInv', BillInv, [Next]_vars PROVE BillInv'
  OBVIOUS
<1>1. ASSUME NEW c \in Calls, NEW o \in Ops, Issue(c, o) PROVE BillInv'
  <2> SUFFICES ASSUME NEW i \in Ids
               PROVE  /\ Waiting(i)' <= asked'[i] /\ Billed(Loaded, i)'
                      /\ \A d \in Calls : Billed(copy[d], i)'
    BY DEF BillInv
  <2>1. /\ pc[c] = "idle" /\ op'[c] = o /\ pc'[c] = "reading" /\ UNCHANGED <<file, copy>>
        /\ \A d \in Calls \ {c} : pc'[d] = pc[d] /\ op'[d] = op[d]
        /\ asked' = IF o.kind = "charge" THEN [asked EXCEPT ![o.id] = @ + o.amount] ELSE asked
    BY <1>1 DEF Issue, Busy, RowsInv, TypeOK
  <2>2. /\ ToAdd(i)[c] = 0 /\ \A d \in Calls \ {c} : ToAdd(i)'[d] = ToAdd(i)[d]
        /\ ToAdd(i)'[c] = IF o.kind = "charge" /\ o.id = i THEN o.amount ELSE 0
    BY <2>1 DEF ToAdd
  <2>3. Waiting(i)' = Waiting(i) - ToAdd(i)[c] + ToAdd(i)'[c]
    BY <2>2, OneWaits
  <2>4. Waiting(i) \in Nat /\ asked \in [Ids -> Nat]
    BY ToAddTyped DEF RowsInv, TypeOK
  <2>5. o.kind = "charge" => o.amount \in Nat /\ o.id \in Ids
    BY AmountsAssumption DEF Ops
  <2>6. Waiting(i)' - Waiting(i) = asked'[i] - asked[i] /\ Waiting(i)' \in Nat /\ asked'[i] \in Nat
    BY <2>1, <2>2, <2>3, <2>4, <2>5
  <2>7. ASSUME NEW rows, IsRows(rows), Billed(rows, i)
        PROVE  i \in DOMAIN rows => rows[i].spent + Waiting(i)' <= asked'[i]
    <3>1. i \in DOMAIN rows => rows[i].spent \in Nat
      BY <2>7 DEF IsRows, Session
    <3> QED  BY <2>4, <2>6, <2>7, <3>1 DEF Billed
  <2>8. Waiting(i)' <= asked'[i]
    BY <2>4, <2>6 DEF BillInv
  <2>9. Billed(Loaded, i)'
    <3>1. IsRows(Loaded) /\ Billed(Loaded, i) /\ Loaded' = Loaded
      BY <2>1, LoadedWithin DEF Within, BillInv, Loaded
    <3> QED  BY <2>7, <3>1 DEF Billed
  <2>10. \A d \in Calls : Billed(copy[d], i)'
    <3>1. \A d \in Calls : IsRows(copy[d]) /\ Billed(copy[d], i) /\ copy'[d] = copy[d]
      BY <2>1 DEF RowsInv, TypeOK, BillInv
    <3> QED  BY <2>7, <3>1 DEF Billed
  <2> QED  BY <2>8, <2>9, <2>10
<1>2. ASSUME NEW c \in Calls, ReadOpen(c) PROVE BillInv'
  <2> DEFINE row == [budget |-> op[c].amount, spent |-> 0, open |-> TRUE]
             rows == Put(Loaded, op[c].id, row)
  <2>1. pc[c] = "reading" /\ UNCHANGED <<file, asked>> /\ Save(c, rows)
    BY <1>2 DEF ReadOpen
  <2>2. ASSUME NEW i \in Ids, i \in DOMAIN rows
        PROVE  \/ i \in DOMAIN Loaded /\ rows[i].spent <= Loaded[i].spent + ToAdd(i)[c]
               \/ rows[i].spent = 0
    <3>1. CASE i = op[c].id
      BY <2>2, <3>1 DEF Put
    <3>2. CASE i # op[c].id
      <4>1. i \in DOMAIN Loaded /\ rows[i] = Loaded[i]
        BY <2>2, <3>2 DEF Put
      <4>2. Loaded[i].spent \in Nat /\ ToAdd(i)[c] \in Nat
        BY <4>1, LoadedWithin, ToAddTyped DEF Within, IsRows, Session
      <4>3. rows[i].spent <= Loaded[i].spent + ToAdd(i)[c]
        BY <4>1, <4>2
      <4> QED  BY <4>1, <4>3
    <3> QED  BY <3>1, <3>2
  <2> HIDE DEF rows
  <2> QED  BY <2>1, <2>2, ReadBilled
<1>3. ASSUME NEW c \in Calls, ReadCharge(c) PROVE BillInv'
  <2> DEFINE j == op[c].id
             n == op[c].amount
             rows == [Loaded EXCEPT ![j].spent = Spend(Loaded[j], n)]
  <2>1. /\ pc[c] = "reading" /\ op[c].kind = "charge" /\ UNCHANGED <<file, asked>>
        /\ Answer(c) \/ (j \in DOMAIN Loaded /\ Save(c, rows))
    BY <1>3 DEF ReadCharge
  <2>2. ASSUME NEW i \in Ids, i \in DOMAIN rows, j \in DOMAIN Loaded
        PROVE  i \in DOMAIN Loaded /\ rows[i].spent <= Loaded[i].spent + ToAdd(i)[c]
    <3>1. i \in DOMAIN Loaded /\ Loaded[i] \in Session /\ ToAdd(i)[c] \in Nat
      BY <2>2, LoadedWithin, ToAddTyped DEF Within, IsRows
    <3>2. CASE i = j
      <4>1. ToAdd(i)[c] = n
        BY <2>1, <3>2 DEF ToAdd
      <4>2. rows[i].spent = Loaded[i].spent + n
        BY <2>2, <3>1, <3>2 DEF Session, Spend
      <4> QED  BY <3>1, <4>1, <4>2 DEF Session
    <3>3. CASE i # j
      <4>1. rows[i] = Loaded[i]
        BY <3>1, <3>3
      <4> QED  BY <3>1, <4>1 DEF Session
    <3> QED  BY <3>2, <3>3
  <2> HIDE DEF rows
  <2> QED  BY <2>1, <2>2, ReadBilled
<1>4. ASSUME NEW c \in Calls, ReadClose(c) PROVE BillInv'
  <2> DEFINE j == op[c].id
             rows == [Loaded EXCEPT ![j].open = FALSE]
  <2>1. /\ pc[c] = "reading" /\ UNCHANGED <<file, asked>> /\ (Answer(c) \/ Save(c, rows))
    BY <1>4 DEF ReadClose
  <2>2. ASSUME NEW i \in Ids, i \in DOMAIN rows
        PROVE  i \in DOMAIN Loaded /\ rows[i].spent <= Loaded[i].spent + ToAdd(i)[c]
    <3>1. i \in DOMAIN Loaded /\ Loaded[i] \in Session /\ ToAdd(i)[c] \in Nat
      BY <2>2, LoadedWithin, ToAddTyped DEF Within, IsRows
    <3>2. rows[i].spent = Loaded[i].spent
      BY <3>1 DEF Session
    <3> QED  BY <3>1, <3>2 DEF Session
  <2> HIDE DEF rows
  <2> QED  BY <2>1, <2>2, ReadBilled
<1>5. ASSUME NEW c \in Calls, Truncate(c) \/ Write(c) PROVE BillInv'
  <2>1. /\ \A d \in Calls : /\ pc'[d] = "reading" <=> pc[d] = "reading"
                            /\ pc[d] = "reading" => op'[d] = op[d]
        /\ UNCHANGED asked
    BY <1>5 DEF Truncate, Write, RowsInv, TypeOK
  <2>2. \A i \in Ids : Waiting(i)' = Waiting(i)
    <3> SUFFICES ASSUME NEW i \in Ids PROVE ToAdd(i)' = ToAdd(i)
      BY DEF Waiting
    <3> QED  BY <2>1 DEF ToAdd
  <2>3. Loaded' \in {copy[d] : d \in Calls} \cup {Loaded, NoRows}
    BY <1>5 DEF Truncate, Write, Loaded
  <2>4. \A d \in Calls : copy'[d] \in {copy[d], NoRows}
    BY <1>5 DEF Truncate, Write, RowsInv, TypeOK
  <2> QED  BY <2>1, <2>2, <2>3, <2>4, RowsMove
<1>6. CASE Crash
  <2> SUFFICES ASSUME NEW i \in Ids
               PROVE  /\ Waiting(i)' <= asked'[i] /\ Billed(Loaded, i)'
                      /\ \A d \in Calls : Billed(copy[d], i)'
    BY DEF BillInv
  <2>1. /\ UNCHANGED <<file, asked>> /\ \A d \in Calls : pc'[d] = "idle" /\ copy'[d] = NoRows
    BY <1>6 DEF Crash
  <2>2. Waiting(i)' = 0
    <3> DEFINE g == ToAdd(i)'
    <3>1. DOMAIN g = Calls /\ \A d \in Calls : g[d] = 0
      BY <2>1 DEF ToAdd
    <3> HIDE DEF g
    <3>2. SumFunctionOnSet(g, Calls) = 0
      BY <3>1, CallsAssumption, SumOfZeros
    <3> QED  BY <3>1, <3>2 DEF Waiting, SumFunction, g
  <2>3. asked[i] \in Nat /\ Waiting(i) \in Nat /\ (i \in DOMAIN Loaded => Loaded[i].spent \in Nat)
    BY ToAddTyped, LoadedWithin DEF RowsInv, TypeOK, Within, IsRows, Session
  <2>4. i \in DOMAIN Loaded => Loaded[i].spent + Waiting(i) <= asked[i]
    BY DEF BillInv, Billed
  <2>5. Billed(Loaded, i)'
    BY <2>1, <2>2, <2>3, <2>4 DEF Billed, Loaded
  <2>6. \A d \in Calls : Billed(copy[d], i)'
    BY <2>1 DEF Billed, NoRows
  <2> QED  BY <2>1, <2>2, <2>3, <2>5, <2>6
<1>7. CASE UNCHANGED vars
  BY <1>7 DEF vars, BillInv, Billed, Waiting, ToAdd, Loaded
<1> QED  BY <1>1, <1>2, <1>3, <1>4, <1>5, <1>6, <1>7 DEF Next

(* NeverOverbilled: a session is never shown to have spent more than       *)
(* charges asked of it; lost updates, torn files and crashes only ever     *)
(* lose charges (chargeMeteredSession, writeEscrows).                      *)
THEOREM NobodyOverbilled == Spec => []NeverOverbilled
<1>1. Init => RowsInv /\ BillInv
  <2> SUFFICES ASSUME Init PROVE BillInv
    BY InitRows
  <2>1. ASSUME NEW i \in Ids PROVE Waiting(i) = 0
    <3> DEFINE f == ToAdd(i)
    <3>1. DOMAIN f = Calls /\ \A d \in Calls : f[d] = 0
      BY DEF Init, ToAdd
    <3> HIDE DEF f
    <3>2. SumFunctionOnSet(f, Calls) = 0
      BY <3>1, CallsAssumption, SumOfZeros
    <3> QED  BY <3>1, <3>2 DEF Waiting, SumFunction, f
  <2>2. Loaded = NoRows /\ \A c \in Calls : copy[c] = NoRows
    BY DEF Init, Loaded
  <2>3. \A i \in Ids : i \notin DOMAIN NoRows /\ asked[i] = 0
    BY DEF Init, NoRows
  <2> QED  BY <2>1, <2>2, <2>3 DEF BillInv, Billed
<1>2. RowsInv /\ BillInv /\ [Next]_vars => RowsInv' /\ BillInv'
  BY RowsStep, BillStep
<1>3. ASSUME RowsInv, BillInv PROVE NeverOverbilled
  <2> SUFFICES ASSUME file # Torn, NEW i \in DOMAIN file PROVE file[i].spent <= asked[i]
    BY DEF NeverOverbilled
  <2>1. i \in Ids /\ Loaded = file /\ file[i].spent \in Nat
    BY <1>3 DEF RowsInv, Within, IsRows, Session, Loaded
  <2>2. file[i].spent + Waiting(i) <= asked[i]
    BY <1>3, <2>1 DEF BillInv, Billed
  <2>3. Waiting(i) \in Nat /\ asked[i] \in Nat
    BY <1>3, <2>1, ToAddTyped DEF RowsInv, TypeOK
  <2> QED  BY <2>1, <2>2, <2>3
<1> QED  BY <1>1, <1>2, <1>3, PTL DEF Spec
=============================================================================
