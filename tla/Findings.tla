------------------------------ MODULE Findings ------------------------------
(***************************************************************************)
(* The findings of one notice through readings, corrections, overrides and *)
(* runs that fail half way, up to the claim that is routed by them.        *)
(*                                                                         *)
(* One request at a time: what two of them do to each other's rows is in   *)
(* NoticeRequests, which takes the findings as given.                      *)
(***************************************************************************)
EXTENDS Triage

CONSTANTS
  Policies,     \* the policies on file
  Events,       \* the catastrophes on file
  PolicyRow,    \* the row of each policy
  EventRow,     \* the row of each catastrophe
  Places,       \* where a loss may be
  Phrases,      \* what may be said of it
  Lines,        \* lines of business
  Notices,      \* the facts a notice may be logged with
  Readings,     \* what a reading may state: a value or Unstated for each path
  Corrections,  \* what an officer may correct: [path, value]
  OfficerSeverities,  \* the severities an officer may set
  Signs,        \* what the scan and the attachments show: [duplicates, unreadable]
  Failures,     \* the stages before which a run may raise
  NoClaim       \* no claim was made

Given == {"received_at", "source_body"}

Paths == {"estimated_loss", "repair_estimate", "injuries", "fatalities",
          "date_of_loss", "loss_location", "loss_description",
          "affected_assets", "authorities_involved"} \cup Flags

Texts == {"loss_description", "affected_assets", "authorities_involved",
          "source_body"}

Values == [path \in Paths \cup Given |->
  CASE path \in Flags          -> BOOLEAN
    [] path = "date_of_loss"   -> Int \cup {Unstated}
    [] path = "received_at"    -> Int
    [] path = "loss_location"  -> Places \cup {Unstated}
    [] path \in Texts          -> SUBSET Phrases
    [] OTHER                   -> Nat \cup {Unstated}]

IsFacts(f) ==
  /\ f = [path \in Paths \cup Given |-> f[path]]
  /\ \A path \in Paths \cup Given : f[path] \in Values[path]

ASSUME FindingsAssumption ==
  /\ \A f \in Notices : IsFacts(f)
  /\ \A r \in Readings :
       /\ DOMAIN r \subseteq Paths
       /\ \A path \in DOMAIN r : Stated(r[path]) => r[path] \in Values[path]
  /\ \A c \in Corrections : c.path \in Paths /\ c.value \in Values[c.path]
  /\ OfficerSeverities \subseteq Severities
  /\ NoPolicy \notin Policies /\ NoEvent \notin Events
  /\ Failures \subseteq {"classification", "assessments", "summary"}

VARIABLES
  facts,      \* what is stated of the loss
  corrected,  \* the paths whose field row an officer modified
  case,       \* the columns the findings are kept in
  analysis,   \* the stored analysis rows of the last assessment, and the
              \* policy whose terms were checked, which no row names
  claim       \* the claim it became

vars == <<facts, corrected, case, analysis, claim>>

Risks == {"none", "low", "medium", "high"}

Indications == {"none", "policy_not_located", "insufficient_information",
                "possible_exclusion", "review_required", "likely_covered"}

Case == [severity: Severities \cup {"none"}, severity_overridden: BOOLEAN,
         line_of_business: Lines \cup {"none"}, classification_overridden: BOOLEAN,
         policy_id: Policies \cup {NoPolicy}, policy_confirmed: BOOLEAN,
         cat_event: Events \cup {NoEvent}, cat_confirmed: BOOLEAN,
         fraud_risk: Risks, coverage_indicator: Indications,
         processing_state: {"idle", "completed", "failed"}]

TypeOK ==
  /\ IsFacts(facts)
  /\ corrected \subseteq Paths \ Flags
  /\ case \in Case
  /\ case.policy_confirmed => case.policy_id # NoPolicy
  /\ case.cat_confirmed => case.cat_event # NoEvent
  /\ analysis.indicators \subseteq IndicatorNames
  /\ analysis.policy \in Policies \cup {NoPolicy}
  /\ claim # NoClaim => claim.cat_event \in Events \cup {NoEvent}

Init ==
  /\ facts \in Notices
  /\ corrected = {}
  /\ case = [severity |-> "none", severity_overridden |-> FALSE,
             line_of_business |-> "none", classification_overridden |-> FALSE,
             policy_id |-> NoPolicy, policy_confirmed |-> FALSE,
             cat_event |-> NoEvent, cat_confirmed |-> FALSE,
             fraud_risk |-> "none", coverage_indicator |-> "none",
             processing_state |-> "idle"]
  /\ analysis = [indicators |-> {}, checks |-> NoChecks, policy |-> NoPolicy]
  /\ claim = NoClaim

-----------------------------------------------------------------------------
(***************************************************************************)
(* FNOLPipeline.run.  A stage that raises ends the run; what the stages    *)
(* before it wrote is committed, and the notice is marked failed.          *)
(***************************************************************************)
(* A fact an officer corrected is kept.  The four flags have no field row. *)
Applied(f, reading, locked) ==
  [path \in DOMAIN f |->
     IF path \in DOMAIN reading \ locked /\ Stated(reading[path])
     THEN reading[path] ELSE f[path]]

Classified(c) ==
  IF c.classification_overridden THEN {c}
  ELSE {[c EXCEPT !.line_of_business = l] : l \in Lines}

(* The columns after the match, and the policy the run then reasons with.  *)
(* An exact match is bound unless an officer confirmed a policy; the bound *)
(* policy counts, or else the strongest candidate.                         *)
Matched(c) ==
  LET bound(q) == [case |-> [c EXCEPT !.policy_id = q], policy |-> q]
      kept(best) == [case |-> c, policy |-> IF c.policy_id # NoPolicy
                                            THEN c.policy_id ELSE best]
  IN  {kept(best) : best \in Policies \cup {NoPolicy}}
        \cup (IF c.policy_confirmed THEN {} ELSE {bound(q) : q \in Policies})

(* The strongest of the events; which of equals is the query's order.      *)
Suggestions(f) ==
  LET fit == {e \in Events : Attributable(f, EventRow[e])}
  IN  IF fit = {} THEN {NoEvent}
      ELSE {e \in fit : \A d \in fit :
              Confidence(f, EventRow[d]) <= Confidence(f, EventRow[e])}

(* Without a date nothing is looked for, and an earlier suggestion stays.   *)
Attributed(c, f) ==
  IF c.cat_confirmed \/ ~ Stated(f.date_of_loss) THEN {c}
  ELSE {[c EXCEPT !.cat_event = e] : e \in Suggestions(f)}

RowOf(p) == IF p = NoPolicy THEN NoPolicy ELSE PolicyRow[p]

AssessedAnyway(c, f, p, found) ==                              \* mutant
  [c EXCEPT
     !.severity = SeverityOf(f, p, c.cat_event # NoEvent),
     !.fraud_risk = FraudLevel(found),
     !.coverage_indicator = Coverage(f, p, c.policy_id # NoPolicy)]

Assessed(c, f, p, found) ==
  [c EXCEPT
     !.severity = IF c.severity_overridden THEN @
                  ELSE SeverityOf(f, p, c.cat_event # NoEvent),
     !.fraud_risk = FraudLevel(found),
     !.coverage_indicator = Coverage(f, p, c.policy_id # NoPolicy)]

RaisesBefore(stage, f, c) ==
  /\ stage \in Failures
  /\ facts' = f
  /\ case' = [c EXCEPT !.processing_state = "failed"]
  /\ UNCHANGED analysis

(* The summary comes after the assessments and may still raise.            *)
Ends == {"completed"} \cup (IF "summary" \in Failures THEN {"failed"} ELSE {})

Assesses(f, c, policy) ==
  LET p == RowOf(policy) IN
  \E sign \in Signs, end \in Ends :
    LET found == Indicators(f, p, sign.duplicates, Cardinality(corrected'),
                            sign.unreadable)
    IN  /\ facts' = f
        /\ case' = [Assessed(c, f, p, found) EXCEPT !.processing_state = end]
        /\ analysis' = [indicators |-> found,
                        checks |-> IF p = NoPolicy THEN NoChecks ELSE Checks(f, p),
                        policy |-> policy]

(* A run over facts f and columns c; corrected' is what the officer has    *)
(* corrected by then.                                                      *)
Run(f, c) ==
  \E read \in {Applied(f, r, corrected') : r \in Readings} :
    \/ RaisesBefore("classification", read, c)
    \/ \E m \in UNION {Matched(classified) : classified \in Classified(c)} :
       \E attributed \in Attributed(m.case, read) :
         \/ RaisesBefore("assessments", read, attributed)
         \/ Assesses(read, attributed, m.policy)

(* POST /process: a converted notice is not refused.                       *)
Process ==
  /\ UNCHANGED <<corrected, claim>>
  /\ Run(facts, case)

-----------------------------------------------------------------------------
(***************************************************************************)
(* The routes of officers.  They refuse a converted notice.                *)
(***************************************************************************)
Correct(f, c) == [f EXCEPT ![c.path] = c.value]

(* A value equal to the one that is there is not a change.                 *)
Changes(c) ==
  /\ claim = NoClaim
  /\ facts[c.path] # c.value
  /\ corrected' = corrected \cup ({c.path} \ Flags)
  /\ UNCHANGED claim

UpdateFieldsOnly ==
  \E c \in Corrections :
    /\ Changes(c)
    /\ facts' = Correct(facts, c)
    /\ UNCHANGED <<case, analysis>>

UpdateFieldsAndRun ==
  \E c \in Corrections :
    /\ Changes(c)
    /\ Run(Correct(facts, c), case)

(* Does not look at the notice again.                                      *)
SelectPolicyOnly ==                                            \* mutant
  /\ claim = NoClaim
  /\ \E p \in Policies :
       case' = [case EXCEPT !.policy_id = p, !.policy_confirmed = TRUE]
  /\ UNCHANGED <<facts, corrected, analysis, claim>>

(* The policy is one of the candidates of a match, and any may have been.  *)
SelectPolicy ==
  /\ claim = NoClaim
  /\ UNCHANGED <<corrected, claim>>
  /\ \E p \in Policies :
       Run(facts, [case EXCEPT !.policy_id = p, !.policy_confirmed = TRUE])

Overrides(c) ==
  /\ claim = NoClaim
  /\ case' = c
  /\ UNCHANGED <<facts, corrected, analysis, claim>>

OverrideSeverity ==
  \E s \in OfficerSeverities :
    Overrides([case EXCEPT !.severity = s, !.severity_overridden = TRUE])

OverrideClassification ==
  \E l \in Lines :
    Overrides([case EXCEPT !.line_of_business = l,
                           !.classification_overridden = TRUE])

(* The event the officer names, or the suggested one.                      *)
ConfirmCatMatch ==
  \E e \in Events :
    Overrides([case EXCEPT !.cat_event = e, !.cat_confirmed = TRUE])

RemoveCatMatch ==
  Overrides([case EXCEPT !.cat_event = NoEvent, !.cat_confirmed = FALSE])

-----------------------------------------------------------------------------
(***************************************************************************)
(* FNOLClaimService.create and TriageService.run, in one transaction.  The *)
(* claim takes the findings as they are stored and the facts as they are   *)
(* now.  Whether a blocking code is open is NoticeRequests' part.          *)
(***************************************************************************)
EventOfSuggested == case.cat_event                             \* mutant

EventOf == IF case.cat_confirmed THEN case.cat_event ELSE NoEvent

Copy ==
  [severity |-> case.severity,
   reserve |-> Value(facts.estimated_loss),
   line_of_business |-> case.line_of_business,
   cat_event |-> EventOf]

CreateClaim ==
  /\ claim = NoClaim
  /\ case.policy_id # NoPolicy
  /\ Stated(facts.date_of_loss)
  /\ facts.loss_description # {}
  /\ LET cats == CategoriesOf(Copy, facts, case.fraud_risk)
     IN  claim' = [cat_event |-> EventOf,
                   route |-> RouteFor(cats),
                   priority |-> PriorityOf(Copy.severity, cats)]
  /\ UNCHANGED <<facts, corrected, case, analysis>>

Next ==
  \/ Process
  \/ UpdateFieldsOnly
  \/ UpdateFieldsAndRun
  \/ SelectPolicy
  \/ OverrideSeverity
  \/ OverrideClassification
  \/ ConfirmCatMatch
  \/ RemoveCatMatch
  \/ CreateClaim

Spec == Init /\ [][Next]_vars

-----------------------------------------------------------------------------
(***************************************************************************)
(* Properties.                                                             *)
(***************************************************************************)
(* One more thing reported never makes a loss less severe: "the human and  *)
(* structural facts can only push it up" (assess_severity).                *)
SignalsOnlyRaise ==
  \A p \in {PolicyRow[q] : q \in Policies} \cup {NoPolicy}, cat \in BOOLEAN :
    LET was == Rank[SeverityOf(facts, p, cat)]
    IN  /\ \A flag \in Flags :
             was <= Rank[SeverityOf([facts EXCEPT ![flag] = TRUE], p, cat)]
        /\ was <= Rank[SeverityOf([facts EXCEPT !.injuries = 3], p, cat)]
        /\ was <= Rank[SeverityOf([facts EXCEPT !.fatalities = 1], p, cat)]
        /\ was <= Rank[SeverityOf(facts, p, TRUE)]

(* What an officer set by hand is changed by hand only: the severity, the  *)
(* line of business and a confirmed catastrophe outlast every run,         *)
(* whatever it reads and wherever it stops.                                *)
OverridesStand ==
  [][ /\ case.severity_overridden /\ ~ OverrideSeverity
           => case'.severity = case.severity
      /\ case.classification_overridden /\ ~ OverrideClassification
           => case'.line_of_business = case.line_of_business
      /\ case.cat_confirmed /\ ~ ConfirmCatMatch /\ ~ RemoveCatMatch
           => case'.cat_event = case.cat_event ]_vars

(* A notice is suspect on no less than two indicators, found in the same   *)
(* assessment: none is enough alone, whatever was run since.               *)
SuspicionNeedsTwo ==
  case.fraud_risk \in {"medium", "high"} =>
    \E i, j \in analysis.indicators : i # j

(* While "likely covered" is stored, it is of a policy: the one it was     *)
(* assessed against was active, in force on the day stated then and names  *)
(* the peril, and no other place than its own was stated.  That policy is  *)
(* the one bound now unless the last run failed: an officer's selection, or*)
(* an exact match, whose run raises before the assessments leaves the      *)
(* verdict of the policy before, and only the failed state tells.          *)
LikelyCoveredIsSettled ==
  case.coverage_indicator = "likely_covered" =>
    /\ case.policy_id # NoPolicy
    /\ analysis.policy = case.policy_id \/ case.processing_state = "failed"
    /\ analysis.checks.in_force = "pass"
    /\ analysis.checks.policy_status = "pass"
    /\ analysis.checks.peril = "pass"
    /\ analysis.checks.location \in {"pass", "unknown"}

(* Only an attribution an officer accepted gets to the claim, and it is    *)
(* still the one on the notice.                                            *)
AttributionIsConfirmed ==
  claim # NoClaim /\ claim.cat_event # NoEvent =>
    case.cat_confirmed /\ case.cat_event = claim.cat_event

(* Whoever overrode what, and however old the stored severity: where a     *)
(* death is reported when the claim is made, the claim is urgent and goes  *)
(* to a desk for it.                                                       *)
DeathsAreUrgent ==
  [][ claim = NoClaim /\ claim' # NoClaim /\ Value(facts.fatalities) > 0 =>
        /\ claim'.priority = "urgent"
        /\ claim'.route \in {"siu", "litigation", "major_loss"} ]_vars

(* The fast track is for claims nothing was raised about: no injury, no    *)
(* interruption, no litigation, no major amount, no confirmed catastrophe, *)
(* no suspicion, no specialist line and no stored severity above medium.   *)
FastTrackIsQuiet ==
  [][ claim = NoClaim /\ claim' # NoClaim /\ claim'.route = "fast_track" =>
        /\ Value(facts.injuries) = 0
        /\ ~ facts.business_interruption
        /\ ~ facts.potential_litigation
        /\ TextSignals(facts) \cap (LitigationWords \cup InjuryWords) = {}
        /\ Value(facts.estimated_loss) < MajorFrom
        /\ ~ case.cat_confirmed
        /\ case.fraud_risk \in {"none", "low"}
        /\ case.line_of_business \notin SpecialistLines
        /\ case.severity \in {"none", "low", "medium"} ]_vars

(* assess_coverage: "likely covered" requires "an estimate under the       *)
(* limit".                                                                 *)
LikelyCoveredIsUnderLimit ==
  case.coverage_indicator = "likely_covered" => analysis.checks.limit # "fail"
=============================================================================
