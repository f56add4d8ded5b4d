-------------------------- MODULE OneShotRelease --------------------------
(***************************************************************************)
(* What the agent escrow promises: an escrow is created pending, released  *)
(* at most once and for good, and at most one caller is told that it was   *)
(* the one who released it (and so goes on to move the USDC).              *)
(***************************************************************************)
EXTENDS Naturals

CONSTANT Ids

VARIABLES
  status,  \* id -> "none", "pending" or "released"
  told     \* id -> callers told that their call released it

Init ==
  /\ status = [i \in Ids |-> "none"]
  /\ told = [i \in Ids |-> 0]

Create(i) ==
  /\ status[i] = "none" /\ status' = [status EXCEPT ![i] = "pending"]
  /\ UNCHANGED told

Release(i) ==
  /\ status[i] = "pending" /\ status' = [status EXCEPT ![i] = "released"]
  /\ UNCHANGED told

Tell(i) ==
  /\ status[i] = "released" /\ told[i] = 0 /\ told' = [told EXCEPT ![i] = 1]
  /\ UNCHANGED status

Next == \E i \in Ids : Create(i) \/ Release(i) \/ Tell(i)

Spec == Init /\ [][Next]_<<status, told>>
=============================================================================
