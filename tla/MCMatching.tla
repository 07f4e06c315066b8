----------------------------- MODULE MCMatching -----------------------------
(***************************************************************************)
(* A book of three policies, two with the same digits and one whose number *)
(* holds them, and three other reports: a notice of the same loss in other *)
(* words, a newer notice of the same day and no more, and a claim with     *)
(* nothing but another policy and a day.                                   *)
(***************************************************************************)
EXTENDS Matching

Number(digits, style) == [digits |-> digits, style |-> style]

Acme == <<"acme", "ltd">>
Bolt == <<"bolt", "shop">>

MCNames == {Acme, Bolt, <<"acme", "limited">>, <<"marsh">>, <<"link">>, <<"m", "7">>}

MCWords ==
  {"acme", "ltd", "limited", "bolt", "shop", "marsh", "link", "m", "7", "dock",
   "leeds", "york", "fire", "roof", "water", "cargo"}

(* No two names of this cast have a letter in common.                      *)
MCRatio(x, y) == IF x = y THEN 60 ELSE 0

MCInside(x, y) == x = y \/ <<x, y>> = <<"m", "marsh">>

MCPolicies == {"p1", "p2", "p3"}

(* 0-1-2, 1 2, 1-2.                                                        *)
MCBefore(p, q) == <<p, q>> \in {<<"p2", "p3">>, <<"p2", "p1">>, <<"p3", "p1">>}

Policy(number, insured, domain, from, to) ==
  [policy_number |-> number, insured_name |-> insured,
   insured_organisation |-> Acme,
   broker_name |-> <<"marsh">>, broker_reference |-> <<"m", "7">>,
   insured_email |-> [mailbox |-> "claims", domain |-> domain],
   primary_location |-> {"dock", "leeds"}, line_of_business |-> "property",
   effective_date |-> from, expiry_date |-> to]

MCBook ==
  [p \in MCPolicies |->
     CASE p = "p1" -> Policy(Number(<<1, 2>>, "dashed"), Acme, "acme", 0, 9)
       [] p = "p2" -> Policy(Number(<<0, 1, 2>>, "dashed"),
                             <<"acme", "limited">>, "acme", 0, 9)
       [] p = "p3" -> Policy(Number(<<1, 2>>, "spaced"), Bolt, "bolt", 20, 29)]

Blank ==
  [policy_number |-> None, insured_name |-> None,
   insured_organisation |-> None, reporter_organisation |-> None,
   reporter_email |-> None, loss_location |-> None,
   line_of_business |-> None, date_of_loss |-> None, claimant_name |-> None,
   loss_description |-> None, affected_assets |-> None,
   external_reference |-> None]

At(day, hour) == 24 * day + hour

(* Everything stated; the loss stated and nobody named.                    *)
Stated ==
  [Blank EXCEPT !.policy_number = Number(<<1, 2>>, "spaced"),
                !.insured_name = Acme, !.date_of_loss = At(5, 0),
                !.loss_location = {"york"}, !.line_of_business = "marine",
                !.insured_organisation = Bolt,
                !.reporter_organisation = <<"link">>,
                !.reporter_email = [mailbox |-> "desk", domain |-> "link"],
                !.loss_description = {"fire", "roof"},
                !.affected_assets = {"roof"}]

Nameless ==
  [Blank EXCEPT !.date_of_loss = At(5, 0), !.loss_location = {"leeds"},
                !.line_of_business = "property",
                !.reporter_email = [mailbox |-> "claims", domain |-> "acme"],
                !.external_reference = "B-1"]

MCNotices == {Stated, Nameless}

(* Nothing new, or a document that names another of the policies.          *)
MCReadings ==
  {Blank, [Blank EXCEPT !.policy_number = Number(<<0, 1, 2>>, "dashed"),
                        !.insured_name = Acme]}

MCValues ==
  [column \in {"policy_number", "insured_name", "date_of_loss"} |->
     CASE column = "policy_number" ->
            {None, Number(<<1, 2>>, "dashed")}
       [] column = "insured_name" -> {None, Acme, Bolt}
       [] column = "date_of_loss" -> {None, At(25, 0)}]

MCReports == {"n1", "n2", "k1"}

MCNewer(o, q) == <<o, q>> \in {<<"n2", "n1">>, <<"n2", "k1">>, <<"k1", "n1">>}

Report(kind, reference, policy, facts) ==
  [kind |-> kind, reference |-> reference, policy_id |-> policy,
   policy_number |-> facts.policy_number, insured_name |-> facts.insured_name,
   claimant_name |-> facts.claimant_name, date_of_loss |-> facts.date_of_loss,
   loss_location |-> facts.loss_location,
   loss_description |-> facts.loss_description,
   affected_assets |-> facts.affected_assets,
   external_reference |-> facts.external_reference]

MCFile ==
  [o \in MCReports |->
     CASE o = "n1" ->
            Report("notice", "FNOL-1", "p1",
              [Blank EXCEPT !.policy_number = Number(<<1, 2>>, "dashed"),
                            !.insured_name = Acme, !.date_of_loss = At(6, 12),
                            !.loss_location = {"dock", "leeds"},
                            !.loss_description = {"water", "cargo"},
                            !.affected_assets = {"cargo"},
                            !.external_reference = "B-1"])
       [] o = "n2" ->
            Report("notice", "FNOL-2", None, [Blank EXCEPT !.date_of_loss = At(5, 12)])
       [] o = "k1" ->
            Report("claim", "CLM-1", None,
              [Blank EXCEPT !.policy_number = Number(<<9>>, "dashed"),
                            !.date_of_loss = At(5, 0)])]

=============================================================================
