---------------------------- MODULE MCAssignment ----------------------------
(* Small values for the constants of the assignment module. *)
EXTENDS Assignment, TLC

CONSTANTS c1, c2, h1, h2

(* A claim for a desk with a skill, and one anybody may have.              *)
TwoClaims ==
  [c \in {c1, c2} |-> IF c = c1
                      THEN [severity |-> "high", reserve |-> 7,
                            route |-> "siu", priority |-> "high"]
                      ELSE [severity |-> "low", reserve |-> 0,
                            route |-> "fast_track", priority |-> "standard"]]

TwoHandlers ==
  [h \in {h1, h2} |-> [skills |-> IF h = h1 THEN {"fraud_investigation"} ELSE {},
                       max_severity |-> IF h = h1 THEN "critical" ELSE "medium",
                       capacity |-> 2,
                       authority_limit |-> IF h = h1 THEN 9 ELSE 5]]

NoneYet == [h \in {h1, h2} |-> 0]

OneOverride == {[route |-> "complex", priority |-> "urgent"]}

AnyRequest == Permutations(Requests)
=============================================================================
