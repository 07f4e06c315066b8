----------------------------- MODULE MCFindings -----------------------------
(* Small values for the constants of the findings module. *)
EXTENDS Findings, TLC

CONSTANTS here, away, p1, p2, e1

(* A quiet loss in the window of the flood, and what may be added to it.   *)
Quiet == [estimated_loss |-> 1, repair_estimate |-> Unstated,
          injuries |-> Unstated, fatalities |-> Unstated,
          date_of_loss |-> 5, received_at |-> 6, loss_location |-> here,
          loss_description |-> {"water"}, source_body |-> {},
          affected_assets |-> {}, authorities_involved |-> {},
          business_interruption |-> FALSE, structural_damage |-> FALSE,
          environmental_exposure |-> FALSE, potential_litigation |-> FALSE]

OneNotice == {Quiet}

Nothing == [path \in Paths |-> Unstated]

FewReadings ==
  {Nothing,
   [Nothing EXCEPT !.estimated_loss = 5, !.fatalities = 2, !.date_of_loss = 1,
                   !.loss_description = {"water", "solicitor"},
                   !.authorities_involved = {"hospital"},
                   !.business_interruption = TRUE]}

FewCorrections ==
  {[path |-> "date_of_loss", value |-> Unstated],
   [path |-> "business_interruption", value |-> TRUE]}

Building == [effective_date |-> 0, expiry_date |-> 9, active |-> TRUE,
             perils |-> {"water"}, exclusions |-> {"theft"}, limit |-> 4,
             locations |-> {here, away}]

Lapsed == [Building EXCEPT !.effective_date = 3, !.expiry_date = 4,
                           !.exclusions = {}, !.limit = 0]

TwoPolicies == [p \in {p1, p2} |-> IF p = p1 THEN Building ELSE Lapsed]

Flood == [start_date |-> 4, end_date |-> 5, perils |-> {"water"},
          near |-> [place \in {here, away} |-> IF place = here THEN 100 ELSE 0]]

FewSigns == {[duplicates |-> FALSE, unreadable |-> FALSE],
             [duplicates |-> TRUE, unreadable |-> TRUE]}

OneEvent == [e \in {e1} |-> Flood]
=============================================================================
