----------------------------- MODULE Assessment -----------------------------
(***************************************************************************)
(* What a notice means: severity, fraud signals, coverage and the          *)
(* catastrophe it may belong to.  Pure functions of what is stated of the  *)
(* loss, of a policy and of the events on file.                            *)
(*                                                                         *)
(* A text is the set of phrases the rules find in it; amounts and days are *)
(* whole numbers in a unit of the instance's choosing.                     *)
(***************************************************************************)
EXTENDS Integers, FiniteSets

CONSTANTS
  Unstated,       \* None
  NoPolicy,       \* no policy was located
  NoEvent,        \* no event was suggested
  MediumFrom, HighFrom, CriticalFrom,   \* the severity thresholds
  EdgeDays,       \* policy_edge_window_days
  LateDays,       \* a notification later than this is late
  FewWords,       \* a description of fewer is sparse
  ManyChanges,    \* corrections that count as repeated
  Tolerance,      \* cat_date_tolerance_days
  CatThreshold,   \* cat_match_threshold, in hundredths
  FraudMedium, FraudHigh   \* fraud_medium_threshold, fraud_high_threshold, too

ASSUME ThresholdsAssumption ==
  /\ {MediumFrom, HighFrom, CriticalFrom, EdgeDays, LateDays, FewWords,
      ManyChanges, Tolerance, CatThreshold, FraudMedium, FraudHigh} \subseteq Nat
  /\ Unstated \notin Int

(* The heaviest indicator weighs 0.3, and a notice is suspect from 0.35 on *)
(* unless the setting is changed.                                          *)
ASSUME SuspicionAssumption == FraudMedium > 30 /\ FraudHigh > 30

Severities == {"low", "medium", "high", "critical"}

Rank == [low |-> 0, medium |-> 1, high |-> 2, critical |-> 3]

Flags == {"business_interruption", "structural_damage",
          "environmental_exposure", "potential_litigation"}

(* The number behind a value that may be missing; missing counts as zero.  *)
Value(v) == IF v = Unstated THEN 0 ELSE v

Stated(v) == v # Unstated

-----------------------------------------------------------------------------
(***************************************************************************)
(* Severity.                                                               *)
(***************************************************************************)
Band(f) ==
  IF ~ Stated(f.estimated_loss) THEN "medium"
  ELSE IF f.estimated_loss >= CriticalFrom THEN "critical"
  ELSE IF f.estimated_loss >= HighFrom THEN "high"
  ELSE IF f.estimated_loss >= MediumFrom THEN "medium"
  ELSE "low"

NearLimit(f, p) ==
  /\ p # NoPolicy
  /\ p.limit > 0
  /\ Value(f.estimated_loss) > 0
  /\ 4 * f.estimated_loss >= 3 * p.limit

(* The band the money gives, and the floors of what else is reported.      *)
Floors(f, p, cat) ==
  {s \in Severities :
     \/ s = Band(f)
     \/ s = "critical" /\ Value(f.fatalities) > 0
     \/ s = "high" /\ \/ Value(f.injuries) >= 3
                      \/ \E flag \in Flags : f[flag]
                      \/ cat
                      \/ NearLimit(f, p)
     \/ s = "medium" /\ Value(f.injuries) > 0}

Highest(S) == CHOOSE s \in S : \A t \in S : Rank[t] <= Rank[s]

(* Takes the first floor that applies instead of the highest.              *)
SeverityOfFirst(f, p, cat) ==                                  \* mutant
  IF Value(f.injuries) > 0 THEN "medium" ELSE Highest(Floors(f, p, cat))

SeverityOf(f, p, cat) == Highest(Floors(f, p, cat))

-----------------------------------------------------------------------------
(***************************************************************************)
(* Fraud signals.  Each leaves a part of the doubt that remains: the score *)
(* is what is gone of it.                                                  *)
(***************************************************************************)
Conflicting(f) ==
  {c \in {"date_of_loss", "repair_estimate", "injuries"} :
     \/ c = "date_of_loss" /\ Stated(f.date_of_loss)
                           /\ f.date_of_loss > f.received_at
     \/ c = "repair_estimate" /\ Value(f.estimated_loss) > 0
                              /\ Value(f.repair_estimate) > 3 * f.estimated_loss
     \/ c = "injuries" /\ Value(f.fatalities) > 0 /\ f.injuries = 0}

IndicatorNames ==
  {"loss_near_inception", "loss_near_expiry", "late_notification",
   "duplicate_submission", "inconsistent_information",
   "supplied_information_changed", "document_inconsistency",
   "sparse_description"}

Indicators(f, p, duplicates, changes, unreadable) ==
  {i \in IndicatorNames :
     \/ /\ Stated(f.date_of_loss)
        /\ \/ /\ i = "loss_near_inception"
              /\ p # NoPolicy
              /\ f.date_of_loss - p.effective_date \in 0 .. EdgeDays
           \/ /\ i = "loss_near_expiry"
              /\ p # NoPolicy
              /\ p.expiry_date - f.date_of_loss \in 0 .. EdgeDays
           \/ /\ i = "late_notification"
              /\ f.received_at - f.date_of_loss >= LateDays
     \/ i = "duplicate_submission" /\ duplicates
     \/ i = "inconsistent_information" /\ Conflicting(f) # {}
     \/ i = "supplied_information_changed" /\ changes >= ManyChanges
     \/ i = "document_inconsistency" /\ unreadable
     \/ i = "sparse_description" /\ f.loss_description # {}
                                 /\ Cardinality(f.loss_description) < FewWords}

(* What an indicator leaves of the doubt, over Whole.                      *)
Left == [loss_near_inception |-> 7, loss_near_expiry |-> 4,
         late_notification |-> 3, duplicate_submission |-> 7,
         inconsistent_information |-> 3, supplied_information_changed |-> 17,
         document_inconsistency |-> 9, sparse_description |-> 9]

Whole == [loss_near_inception |-> 10, loss_near_expiry |-> 5,
          late_notification |-> 4, duplicate_submission |-> 10,
          inconsistent_information |-> 4, supplied_information_changed |-> 20,
          document_inconsistency |-> 10, sparse_description |-> 10]

Part(S, i) == IF i \in S THEN Left[i] ELSE Whole[i]

Doubt(S) ==
  Part(S, "loss_near_inception") * Part(S, "loss_near_expiry")
    * Part(S, "late_notification") * Part(S, "duplicate_submission")
    * Part(S, "inconsistent_information") * Part(S, "supplied_information_changed")
    * Part(S, "document_inconsistency") * Part(S, "sparse_description")

Full == Doubt({})

(* Adds the weights up.                                                    *)
FraudLevelSummed(S) ==                                         \* mutant
  IF S = {} THEN "low" ELSE IF Cardinality(S) = 1 THEN "medium" ELSE "high"

(* The score is what is left of no doubt: one minus Doubt over Full.       *)
Suspect(S, threshold) == 100 * (Full - Doubt(S)) >= threshold * Full

FraudLevel(S) ==
  IF Suspect(S, FraudHigh) THEN "high"
  ELSE IF Suspect(S, FraudMedium) THEN "medium"
  ELSE "low"

-----------------------------------------------------------------------------
(***************************************************************************)
(* Coverage.                                                               *)
(***************************************************************************)
InForceCheck(f, p) ==
  CASE ~ Stated(f.date_of_loss) -> "unknown"
    [] f.date_of_loss \in p.effective_date .. p.expiry_date -> "pass"
    [] OTHER -> "fail"

PerilCheck(f, p) ==
  IF f.loss_description = {} THEN "unknown"
  ELSE IF f.loss_description \cap p.exclusions # {} THEN "fail"
  ELSE IF f.loss_description \cap p.perils # {} THEN "pass"
  ELSE IF p.perils = {} THEN "unknown"
  ELSE "attention"

LimitCheck(f, p) ==
  IF ~ Stated(f.estimated_loss) \/ p.limit = 0 THEN "unknown"
  ELSE IF f.estimated_loss > p.limit THEN "fail"
  ELSE IF 4 * f.estimated_loss > 3 * p.limit THEN "attention"
  ELSE "pass"

LocationCheck(f, p) ==
  CASE ~ Stated(f.loss_location)       -> "unknown"
    [] f.loss_location \in p.locations -> "pass"
    [] OTHER                           -> "attention"

Checks(f, p) ==
  [in_force |-> InForceCheck(f, p),
   policy_status |-> IF p.active THEN "pass" ELSE "attention",
   peril |-> PerilCheck(f, p),
   limit |-> LimitCheck(f, p),
   location |-> LocationCheck(f, p)]

NoChecks == [in_force |-> "unknown", policy_status |-> "unknown",
             peril |-> "unknown", limit |-> "unknown", location |-> "unknown"]

Attention(checks) == \E k \in DOMAIN checks : checks[k] = "attention"

Verdict(checks, bound) ==
  IF checks.in_force = "fail" \/ checks.peril = "fail" THEN "possible_exclusion"
  ELSE IF checks.in_force = "unknown" \/ checks.peril = "unknown" THEN "insufficient_information"
  ELSE IF Attention(checks) \/ ~ bound THEN "review_required"
  ELSE "likely_covered"

Coverage(f, p, bound) ==
  IF p = NoPolicy THEN "policy_not_located" ELSE Verdict(Checks(f, p), bound)

-----------------------------------------------------------------------------
(***************************************************************************)
(* Catastrophes.  An event e has a window, the phrases of its perils and,  *)
(* for each place, how near it is in hundredths.                           *)
(***************************************************************************)
DateScore(f, e) == IF f.date_of_loss \in e.start_date .. e.end_date THEN 100 ELSE 60

PlaceScore(f, e) == IF Stated(f.loss_location) THEN e.near[f.loss_location] ELSE 0

PerilScore(f, e) ==
  CASE f.loss_description = {}               -> 35
    [] f.loss_description \cap e.perils # {} -> 100
    [] OTHER                                 -> 15

Confidence(f, e) ==
  30 * DateScore(f, e) + 35 * PlaceScore(f, e) + 35 * PerilScore(f, e)

(* Date, place and peril each rule an event out.                           *)
Attributable(f, e) ==
  /\ Stated(f.date_of_loss)
  /\ f.date_of_loss \in e.start_date - Tolerance .. e.end_date + Tolerance
  /\ PlaceScore(f, e) > 0
  /\ PerilScore(f, e) > 15
  /\ Confidence(f, e) >= 100 * CatThreshold
=============================================================================
