---------------------------- MODULE MCRegistries ----------------------------
(***************************************************************************)
(* Instances for TLC of what the suite keeps and looks up: the guarantee   *)
(* pool, the database, the ERC-8004 caches and the small registers.  They  *)
(* share no state here, so a behaviour runs one of them (its focus), with  *)
(* one kind of trust lookup when that is the ERC-8004 caches.              *)
(***************************************************************************)
EXTENDS GuaranteePool, Store, Erc8004, Registries, TLC

VARIABLES focus, lookup

CONSTANTS w1, w2, w3, p1, s1, x1, x2, x3

PoolQuotes == {[cover |-> 3, premium |-> 2], [cover |-> 1, premium |-> 1]}

-----------------------------------------------------------------------------
(* The wallet may be set or not; everything else is there or unread.       *)
GivenReadings == [balance |-> {1}, index |-> {1}, owner |-> {2}, wallet |-> {0, 1},
                  reputation |-> {59}, uri |-> {1}, card |-> {30}]

-----------------------------------------------------------------------------
GivenHooks == <<[id |-> w1, active |-> TRUE], [id |-> w2, active |-> FALSE]>>
Entry(b, d, w, stopped) == [book |-> b, do |-> d, who |-> w, blocked |-> stopped]
Authenticated == Entry("partners", "authenticate", p1, FALSE)
GivenJobs ==
  {<<Entry("partners", "create", p1, FALSE)>>,
   <<Authenticated, Entry("reputation", "fraud_flag", s1, FALSE)>>,
   <<Authenticated, Entry("partners", "guard", p1, TRUE), Entry("reputation", "guard_block", s1, FALSE)>>,
   <<Entry("partners", "guard", p1, FALSE), Entry("reputation", "guard_pass", s1, FALSE)>>}
  \cup {<<Entry("attestations", "issue", x, FALSE)>> : x \in {x1, x2, x3}}

-----------------------------------------------------------------------------
MCInit == /\ Init /\ StoreInit /\ ErcInit /\ RegistryInit
          /\ focus \in {"pool", "store", "erc8004", "hooks", "books"}
          /\ lookup \in AskKinds
          /\ focus # "pool" => lanes = 1 /\ ~risky
          /\ focus # "store" => engine = "json"
          /\ focus # "books" => serial
          /\ focus # "erc8004" => lookup = "by id"

OneLookup == \A k \in Scorings : scoring'[k].phase # "idle" => scoring'[k].ask = lookup

MCNext ==
  /\ \/ focus = "pool" /\ Next /\ UNCHANGED <<storeVars, ercVars, registryVars>>
     \/ focus = "store" /\ StoreNext /\ UNCHANGED <<vars, ercVars, registryVars>>
     \/ focus = "erc8004" /\ ErcNext /\ OneLookup /\ UNCHANGED <<vars, storeVars, registryVars>>
     \/ focus = "hooks" /\ HookNext /\ UNCHANGED <<vars, storeVars, ercVars>>
     \/ focus = "books" /\ BookNext /\ UNCHANGED <<vars, storeVars, ercVars>>
  /\ UNCHANGED <<focus, lookup>>

MCSpec == MCInit /\ [][MCNext]_<<vars, storeVars, ercVars, registryVars, focus, lookup>>
=============================================================================
