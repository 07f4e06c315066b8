-------------------------- MODULE MCKnowledgeGraph --------------------------
(***************************************************************************)
(* Claims with and without a policy, a notice and each kind of finding,    *)
(* and two things the notice's handlers may commit while one is read.      *)
(***************************************************************************)
EXTENDS KnowledgeGraph, TLC

MCPolicyBook ==
  "p1" :> [stated |-> {"insured_name", "broker_name", "this_broker",
                       "this_location"}]
    @@ "p2" :> [stated |-> {}]

ClaimRows ==
  {[policy_id |-> "p1", cat_event |-> None,
    stated |-> {"policy_number", "insured_name", "date_of_loss", "loss_type",
                "loss_location", "handler_name"}],
   [policy_id |-> None, cat_event |-> None,
    stated |-> {"date_of_loss", "loss_location"}],
   [policy_id |-> None, cat_event |-> "storm",
    stated |-> {"policy_number", "loss_description"}]}

(* The notice's row with its documents, readings and parties.              *)
Notices ==
  {[case |-> None, documents |-> NoRows, fields |-> NoRows,
    parties |-> NoRows],
   [case |-> [policy_id |-> "p1", cat_event |-> None,
              policy_confirmed |-> TRUE, assets |-> 0,
              stated |-> {"reporter", "extraction_confidence", "well_read"}],
    documents |-> "d1" :> [failed |-> FALSE] @@ "d2" :> [failed |-> TRUE],
    fields |-> "loss.affected_assets" :> [document |-> "d1", names |-> 2],
    parties |-> "n1" :> [role |-> "broker"]],
   [case |-> [policy_id |-> None, cat_event |-> "storm",
              policy_confirmed |-> FALSE, assets |-> 1,
              stated |-> {"affected_assets", "cause_of_loss", "loss_location",
                          "insured_name"}],
    documents |-> NoRows,
    fields |-> "loss.cause_of_loss" :> [document |-> None, names |-> 0],
    parties |-> NoRows]}

(* What the notice's stages found.                                         *)
Findings ==
  {[analyses |-> NoRows, exceptions |-> NoRows],
   [analyses |->
      "coverage" :> [checks |-> "limit" :> "pass" @@ "peril" :> "unknown",
                     confidence |-> "high"]
        @@ "fraud" :> [indicators |-> <<>>],
    exceptions |->
      "missing" :> [status |-> "open", blocking |-> FALSE]
        @@ "review" :> [status |-> "resolved", blocking |-> TRUE]],
   [analyses |->
      "coverage" :> [checks |-> "limit" :> "attention" @@ "peril" :> "fail"
                                  @@ "location" :> "pass",
                     confidence |-> "low"]
        @@ "fraud" :> [indicators |-> <<"low", "high">>],
    exceptions |-> "held" :> [status |-> "open", blocking |-> TRUE]]}

NoFinding == [analyses |-> NoRows, exceptions |-> NoRows]

Alike(likely, resolution) == [likely |-> likely, resolution |-> resolution]

Others ==
  {[duplicates |-> NoRows, related_claims |-> {}],
   [duplicates |-> NoRows, related_claims |-> {"CLM-A", "CLM-B"}],
   [duplicates |-> "CLM-A" :> Alike(TRUE, "unresolved"),
    related_claims |-> {"CLM-A", "CLM-B"}],
   [duplicates |-> "CLM-B" :> Alike(FALSE, "linked"), related_claims |-> {}]}

Match(rank, selected, strength, strong) ==
  [rank |-> rank, selected |-> selected, strength |-> strength,
   strong |-> strong]

Routings ==
  {[policy_matches |-> NoRows, assignment |-> None, cat_candidate |-> None],
   [policy_matches |-> "p1" :> Match(1, TRUE, "exact", TRUE)
                         @@ "p2" :> Match(0, FALSE, "possible", FALSE),
    assignment |-> [status |-> "assigned", stated |-> {"handler_name"}],
    cat_candidate |-> [reference |-> "storm", peril_matches |-> FALSE]],
   [policy_matches |-> "p2" :> Match(0, FALSE, "high", TRUE),
    assignment |-> [status |-> "recommended", stated |-> {"handler_name"}],
    cat_candidate |-> [reference |-> "flood", peril_matches |-> TRUE]]}

Desk(c, n, f, o, r) ==
  [claim |-> c, assignment |-> r.assignment, case |-> n.case,
   documents |-> n.documents, fields |-> n.fields, exceptions |-> f.exceptions,
   parties |-> n.parties, duplicates |-> o.duplicates,
   policy_matches |-> r.policy_matches, analyses |-> f.analyses,
   cat_candidate |-> r.cat_candidate, related_claims |-> o.related_claims]

(* A claim has the policy of its notice or none, and a claim without a     *)
(* notice has no findings.                                                 *)
Agree(c, n) ==
  n.case # None => c.policy_id \in {None, n.case.policy_id}

MCDesks ==
  UNION {
    {Desk(c, n, f, o, r) :
       c \in {c \in ClaimRows : Agree(c, n)},
       f \in IF n.case = None THEN {NoFinding} ELSE Findings,
       o \in Others, r \in Routings} :
    n \in Notices}

(* The notice is matched with another policy and assessed again; its older *)
(* rows are gone, or one more was read.                                    *)
MCRereadings ==
  {Desk(CHOOSE c \in ClaimRows : TRUE, n, f, o, r) :
     n \in {[case |-> [policy_id |-> "p2", cat_event |-> None,
                       policy_confirmed |-> FALSE, assets |-> 0,
                       stated |-> {"insured_name"}],
             documents |-> "d1" :> [failed |-> TRUE] @@ "d3" :> [failed |-> FALSE],
             fields |-> "loss.affected_assets" :>
                          [document |-> "d3", names |-> 1],
             parties |-> NoRows]},
     f \in Findings \ {NoFinding},
     o \in {[duplicates |-> "CLM-C" :> Alike(TRUE, "duplicate"),
             related_claims |-> {"CLM-A"}]},
     r \in {[policy_matches |-> "p2" :> Match(0, TRUE, "manual", TRUE),
             assignment |-> [status |-> "assigned",
                             stated |-> {"handler_name"}],
             cat_candidate |-> None]}}

=============================================================================
