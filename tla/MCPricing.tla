----------------------------- MODULE MCPricing -----------------------------
(* Constants of the TLC run of Pricing. *)
EXTENDS Pricing, TLC

CONSTANTS b1, b2

\* 99 cents at 50% and at 150% leave half a cent; 150% makes the net amount negative.
\* The second coupon has no limit until a change gives it that of the first.
Row(company, route, type, amount, from, active) ==
    [company |-> company, route |-> route, coachType |-> type, amount |-> amount,
     from |-> from, isActive |-> active]
MCTrips == {[route |-> "r1", coachType |-> "ac"], [route |-> "r2", coachType |-> "plain"]}
MCFareRows == {Row("own", "r1", "ac", 99, 1, TRUE), Row("other", "r1", None, 251, 2, TRUE),
               Row("own", "r2", None, 251, 1, TRUE)}
MCFallback == [r \in {"r1", "r2"} |-> IF r = "r1" THEN 200 ELSE 80]
MCCoupons == {[type |-> "PERCENTAGE", value |-> 50, maxUses |-> 1, isActive |-> TRUE],
              [type |-> "PERCENTAGE", value |-> 150, maxUses |-> 0, isActive |-> TRUE]}
MCSeatCount == (b1 :> 2) @@ (b2 :> 1)

Symmetry == Permutations(Fares)

=============================================================================
