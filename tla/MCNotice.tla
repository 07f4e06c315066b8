------------------------------ MODULE MCNotice ------------------------------
(* Small values for the constants of the notice modules. *)
EXTENDS NoticeProperties, TLC

CONSTANTS p1, p2

Detail(missing, claimable, strength, ranked) ==
  [missing |-> missing, claimable |-> claimable, strength |-> strength,
   ranked |-> ranked]

Exact     == Detail(FALSE, TRUE, "exact", <<p1>>)
Ambiguous == Detail(FALSE, TRUE, "possible", <<p1, p2>>)

ExactOnly   == {Exact}
AmbiguousOnly == {Ambiguous}
FewDetails  == {Exact, Ambiguous}

Interchangeable == Permutations(Requests)

AllRoutes == Routes
AllStages == Stages
AllTargets == FNOLStatus \ {"claim_created"}
=============================================================================
