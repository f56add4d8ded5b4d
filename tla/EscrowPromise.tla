--------------------------- MODULE EscrowPromise ---------------------------
(***************************************************************************)
(* What a metered escrow promises its two parties, whatever stores it:     *)
(* acknowledged charges never exceed the budget the buyer granted, and     *)
(* nothing is charged once a close has been acknowledged.                  *)
(***************************************************************************)
EXTENDS Naturals

CONSTANTS Ids, Budgets, Amounts

VARIABLES
  granted,  \* id -> acknowledged budget, 0 while there is none
  charged,  \* id -> total of the acknowledged charges
  closed    \* ids with an acknowledged close

promise == <<granted, charged, closed>>

Init ==
  /\ granted = [i \in Ids |-> 0] /\ charged = [i \in Ids |-> 0]
  /\ closed = {}

Grant(i, b) ==
  /\ granted[i] = 0 /\ granted' = [granted EXCEPT ![i] = b]
  /\ UNCHANGED <<charged, closed>>

Charge(i, n) ==
  /\ i \notin closed /\ charged[i] + n <= granted[i]
  /\ charged' = [charged EXCEPT ![i] = @ + n]
  /\ UNCHANGED <<granted, closed>>

(* A second close is acknowledged again and changes nothing. *)
Close(i) ==
  /\ granted[i] # 0 /\ closed' = closed \cup {i}
  /\ UNCHANGED <<granted, charged>>

Next ==
  \E i \in Ids : \/ \E b \in Budgets : Grant(i, b)
                 \/ \E n \in Amounts : Charge(i, n)
                 \/ Close(i)

Spec == Init /\ [][Next]_promise
=============================================================================
