------------------------------- MODULE Triage -------------------------------
(***************************************************************************)
(* Where a new claim goes: its categories, the route of the most           *)
(* specialised one, its priority, and who may be recommended for it.       *)
(***************************************************************************)
EXTENDS Assessment

CONSTANTS
  MajorFrom,        \* major_loss_threshold
  LitigationWords,  \* LITIGATION_SIGNALS
  InjuryWords,      \* INJURY_SIGNALS
  SpecialistLines   \* SPECIALIST_LINES

ASSUME TriageAssumption == MajorFrom \in Nat \ {0}

Categories == {"fraud_review", "litigation_risk", "major_loss", "cat_claim",
               "specialist_required", "complex", "simple"}

(* What everybody wrote of the loss, the notice itself included.  The cause*)
(* of loss is of the description.                                          *)
TextSignals(f) ==
  f.loss_description \cup f.affected_assets \cup f.authorities_involved
    \cup f.source_body

(***************************************************************************)
(* The categories that a fact demands.  c is the claim, f the facts of its *)
(* notice, fraud the risk the notice was last given.                       *)
(***************************************************************************)
Special(c, f, fraud) ==
  {k \in Categories :
     \/ k = "fraud_review" /\ fraud \in {"medium", "high"}
     \/ k = "litigation_risk" /\ \/ f.potential_litigation
                                 \/ TextSignals(f) \cap LitigationWords # {}
     \/ k = "major_loss" /\ \/ c.reserve >= MajorFrom
                            \/ c.severity = "critical"
                            \/ Value(f.fatalities) > 0
                            \/ TextSignals(f) \cap InjuryWords # {}
     \/ k = "cat_claim" /\ c.cat_event # NoEvent
     \/ k = "specialist_required" /\ c.line_of_business \in SpecialistLines}

ComplexBySeverity(c, f) == c.severity = "high"                 \* mutant

Complex(c, f) ==
  \/ f.business_interruption
  \/ Value(f.injuries) > 0
  \/ c.severity = "high"

CategoriesOf(c, f, fraud) ==
  IF Special(c, f, fraud) # {} THEN Special(c, f, fraud)
  ELSE IF Complex(c, f) THEN {"complex"} ELSE {"simple"}

(* Ordered most specialised first.                                         *)
Routes == <<[category |-> "fraud_review", key |-> "siu"],
            [category |-> "litigation_risk", key |-> "litigation"],
            [category |-> "major_loss", key |-> "major_loss"],
            [category |-> "cat_claim", key |-> "cat"],
            [category |-> "specialist_required", key |-> "specialist"],
            [category |-> "complex", key |-> "complex"],
            [category |-> "simple", key |-> "fast_track"]>>

RouteKeys == {Routes[i].key : i \in DOMAIN Routes}

RouteFor(cats) ==
  LET first == CHOOSE i \in DOMAIN Routes :
                 /\ Routes[i].category \in cats
                 /\ \A j \in 1 .. i - 1 : Routes[j].category \notin cats
  IN  Routes[first].key

(* Reads the severity and not what was reported.                           *)
PriorityBySeverity(severity, cats) ==                          \* mutant
  CASE severity = "critical" -> "urgent"
    [] severity = "high"     -> "high"
    [] severity = "medium"   -> "standard"
    [] OTHER                 -> "routine"

PriorityOf(severity, cats) ==
  IF severity = "critical" \/ "major_loss" \in cats THEN "urgent"
  ELSE IF severity = "high" \/ cats \cap {"fraud_review", "litigation_risk", "cat_claim"} # {} THEN "high"
  ELSE IF severity = "medium" \/ "complex" \in cats THEN "standard"
  ELSE "routine"

Skill == [siu |-> "fraud_investigation", litigation |-> "litigation",
          major_loss |-> "major_loss", cat |-> "catastrophe",
          specialist |-> "none", complex |-> "none", fast_track |-> "none"]

(* A handler with a blocker is never recommended, whatever the score.      *)
Eligible(h, open_claims, route, severity) ==
  /\ Skill[route] = "none" \/ Skill[route] \in h.skills
  /\ severity \in Severities => Rank[h.max_severity] >= Rank[severity]
  /\ open_claims < h.capacity
=============================================================================
