--------------------------- MODULE MCPaidRequest ---------------------------
(* Instances of PaidRequest for TLC. *)
EXTENDS PaidRequest, TLC

CONSTANTS k1, k2, p1, p2, p3, b1, b2

Shape(key, form, pay, body) ==
  [signed |-> TRUE, key |-> key, form |-> form, pay |-> pay, visible |-> TRUE,
   body |-> body, trusted |-> TRUE]

(* Retries of one key with fresh or repeated payments and with another     *)
(* body, next to a request of another key, a request that never paid and   *)
(* one whose terms are refused.                                            *)
MCShapes ==
  {Shape(k1, "full", p, b1) : p \in {p1, p2}}
    \cup {Shape(k1, "full", p1, b2), Shape(k1, "short", p2, b1),
          Shape(k2, "alias", p1, b1), Shape(NoKey, "full", p2, b1),
          [Shape(k1, "full", p1, b1) EXCEPT !.visible = FALSE],
          [Shape(k1, "full", p1, b1) EXCEPT !.trusted = FALSE],
          [Shape(k1, "full", p1, b1) EXCEPT !.signed = FALSE]}

ReqSymmetry == Permutations(Reqs)
=============================================================================
