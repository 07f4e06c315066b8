--------------------------- MODULE FindingsProofs ---------------------------
(* Theorems about the findings of a notice, for any policies, events,      *)
(* readings, corrections and thresholds.                                   *)
EXTENDS Findings, TLAPS

-----------------------------------------------------------------------------
(***************************************************************************)
(* The pure rules.                                                         *)
(***************************************************************************)
LEMMA BandType == ASSUME NEW f PROVE Band(f) \in Severities
BY DEF Band, Severities

LEMMA HighestIs ==
  ASSUME NEW S, S \subseteq Severities, S # {}
  PROVE  /\ Highest(S) \in S
         /\ \A t \in S : Rank[t] <= Rank[Highest(S)]
<1>1. \E s \in S : \A t \in S : Rank[t] <= Rank[s]
  <2>1. CASE "critical" \in S
    BY <2>1 DEF Severities, Rank
  <2>2. CASE "critical" \notin S /\ "high" \in S
    BY <2>2 DEF Severities, Rank
  <2>3. CASE "critical" \notin S /\ "high" \notin S /\ "medium" \in S
    BY <2>3 DEF Severities, Rank
  <2>4. CASE "critical" \notin S /\ "high" \notin S /\ "medium" \notin S
    <3>1. S = {"low"}
      BY <2>4 DEF Severities
    <3> QED
      BY <3>1 DEF Rank
  <2> QED
    BY <2>1, <2>2, <2>3, <2>4
<1> QED
  BY <1>1 DEF Highest

LEMMA FloorsType ==
  ASSUME NEW f, NEW p, NEW cat
  PROVE  Floors(f, p, cat) \subseteq Severities /\ Band(f) \in Floors(f, p, cat)
BY BandType DEF Floors

LEMMA SeverityType ==
  ASSUME NEW f, NEW p, NEW cat
  PROVE  SeverityOf(f, p, cat) \in Severities
BY FloorsType, HighestIs DEF SeverityOf

(* More floors, no lower severity.                                         *)
LEMMA MoreFloors ==
  ASSUME NEW f, NEW p, NEW cat, NEW g, NEW more,
         Floors(f, p, cat) \subseteq Floors(g, p, more)
  PROVE  Rank[SeverityOf(f, p, cat)] <= Rank[SeverityOf(g, p, more)]
<1>1. Highest(Floors(f, p, cat)) \in Floors(g, p, more)
  BY FloorsType, HighestIs
<1> QED
  BY <1>1, FloorsType, HighestIs DEF SeverityOf

LEMMA RiskType == ASSUME NEW S PROVE FraudLevel(S) \in {"low", "medium", "high"}
BY DEF FraudLevel

LEMMA FullIs == Full = 10 * 5 * 4 * 10 * 4 * 20 * 10 * 10
BY DEF Full, Doubt, Part, Whole

(* What leaves seven tenths of the doubt is no suspicion.                  *)
LEMMA TooLittle ==
  ASSUME NEW S, Doubt(S) \in Int, 10 * Doubt(S) >= 7 * Full
  PROVE  FraudLevel(S) = "low"
<1>1. ASSUME NEW threshold \in Nat, threshold > 30
      PROVE  ~ Suspect(S, threshold)
  BY <1>1, FullIs DEF Suspect
<1> QED
  BY <1>1, ThresholdsAssumption, SuspicionAssumption DEF FraudLevel

(* One indicator leaves as much.                                           *)
LEMMA OneIsNotEnough ==
  ASSUME NEW i \in IndicatorNames
  PROVE  FraudLevel({i}) = "low"
<1>1. Doubt({i}) \in Int /\ 10 * Doubt({i}) >= 7 * Full
  BY FullIs DEF Doubt, Part, Whole, Left, IndicatorNames
<1> QED
  BY <1>1, TooLittle

LEMMA NoneIsNotEnough == FraudLevel({}) = "low"
<1>1. Doubt({}) \in Int /\ 10 * Doubt({}) >= 7 * Full
  BY FullIs DEF Full
<1> QED
  BY <1>1, TooLittle

LEMMA TwoNeeded ==
  ASSUME NEW S \in SUBSET IndicatorNames, FraudLevel(S) # "low"
  PROVE  \E i, j \in S : i # j
<1>1. S # {}
  BY NoneIsNotEnough
<1>2. PICK i \in S : TRUE
  BY <1>1
<1>3. S # {i}
  BY <1>2, OneIsNotEnough
<1> QED
  BY <1>2, <1>3

LEMMA CoverageSettled ==
  ASSUME NEW f, NEW p, NEW bound \in BOOLEAN, p # NoPolicy,
         Verdict(Checks(f, p), bound) = "likely_covered"
  PROVE  /\ bound
         /\ Checks(f, p).in_force = "pass"
         /\ Checks(f, p).policy_status = "pass"
         /\ Checks(f, p).peril = "pass"
         /\ Checks(f, p).location \in {"pass", "unknown"}
<1> DEFINE checks == Checks(f, p)
<1>1. /\ checks.in_force \in {"unknown", "pass", "fail"}
      /\ checks.policy_status \in {"pass", "attention"}
      /\ checks.peril \in {"unknown", "pass", "fail", "attention"}
      /\ checks.location \in {"unknown", "pass", "attention"}
      /\ {"policy_status", "peril", "location"} \subseteq DOMAIN checks
  BY DEF Checks, InForceCheck, PerilCheck, LocationCheck
<1>2. /\ ~ (checks.in_force = "fail" \/ checks.peril = "fail")
      /\ ~ (checks.in_force = "unknown" \/ checks.peril = "unknown")
      /\ ~ (Attention(checks) \/ ~ bound)
  BY DEF Verdict
<1> QED
  BY <1>1, <1>2 DEF Attention

-----------------------------------------------------------------------------
(***************************************************************************)
(* What a run keeps of the columns c it was given, in the columns d.       *)
(***************************************************************************)
Keeps(c, d) ==
  /\ d \in Case
  /\ d.severity_overridden = c.severity_overridden
  /\ d.classification_overridden = c.classification_overridden
  /\ d.policy_confirmed = c.policy_confirmed
  /\ d.cat_confirmed = c.cat_confirmed
  /\ c.severity_overridden => d.severity = c.severity
  /\ c.classification_overridden => d.line_of_business = c.line_of_business
  /\ c.cat_confirmed => d.cat_event = c.cat_event
  /\ c.policy_id # NoPolicy => d.policy_id # NoPolicy

(* The findings of c are those of d.                                       *)
SameFindings(c, d) ==
  /\ d.fraud_risk = c.fraud_risk
  /\ d.coverage_indicator = c.coverage_indicator

LEMMA ClassifiedKeeps ==
  ASSUME NEW c \in Case, NEW d \in Classified(c)
  PROVE  Keeps(c, d) /\ SameFindings(c, d)
BY DEF Classified, Keeps, SameFindings, Case

LEMMA MatchedKeeps ==
  ASSUME NEW c \in Case, NEW m \in Matched(c)
  PROVE  /\ Keeps(c, m.case) /\ SameFindings(c, m.case)
         /\ m.policy \in Policies \cup {NoPolicy}
         /\ m.case.policy_id # NoPolicy => m.policy = m.case.policy_id
<1>1. CASE \E best \in Policies \cup {NoPolicy} :
             m = [case |-> c, policy |-> IF c.policy_id # NoPolicy
                                         THEN c.policy_id ELSE best]
  BY <1>1 DEF Keeps, SameFindings, Case
<1>2. CASE \E q \in Policies : m = [case |-> [c EXCEPT !.policy_id = q], policy |-> q]
  BY <1>2, FindingsAssumption DEF Keeps, SameFindings, Case
<1> QED
  BY <1>1, <1>2 DEF Matched

LEMMA AttributedKeeps ==
  ASSUME NEW c \in Case, NEW f, NEW d \in Attributed(c, f)
  PROVE  Keeps(c, d) /\ SameFindings(c, d) /\ d.policy_id = c.policy_id
<1>1. Suggestions(f) \subseteq Events \cup {NoEvent}
  BY DEF Suggestions
<1> QED
  BY <1>1 DEF Attributed, Keeps, SameFindings, Case

LEMMA CoverageType ==
  ASSUME NEW f, NEW p, NEW bound
  PROVE  Coverage(f, p, bound) \in Indications
BY DEF Coverage, Verdict, Indications

LEMMA AssessedKeeps ==
  ASSUME NEW c \in Case, NEW f, NEW p, NEW found, NEW end \in {"completed", "failed"}
  PROVE  Keeps(c, [Assessed(c, f, p, found) EXCEPT !.processing_state = end])
<1>1. SeverityOf(f, p, c.cat_event # NoEvent) \in Severities
  BY SeverityType
<1>2. FraudLevel(found) \in Risks
  BY RiskType DEF Risks
<1>3. Coverage(f, p, c.policy_id # NoPolicy) \in Indications
  BY CoverageType
<1> DEFINE severity == IF c.severity_overridden THEN c.severity
                       ELSE SeverityOf(f, p, c.cat_event # NoEvent)
           risk == FraudLevel(found)
           verdict == Coverage(f, p, c.policy_id # NoPolicy)
           d == [c EXCEPT !.severity = severity, !.fraud_risk = risk,
                          !.coverage_indicator = verdict,
                          !.processing_state = end]
<1>4. [Assessed(c, f, p, found) EXCEPT !.processing_state = end] = d
  BY DEF Assessed, Case
<1>5. /\ severity \in Severities \cup {"none"}
      /\ c.severity_overridden => severity = c.severity
  BY <1>1 DEF Case
<1> HIDE DEF severity, risk, verdict
<1>6. d \in Case
  BY <1>2, <1>3, <1>5 DEF Case, risk, verdict
<1>7. /\ d.severity_overridden = c.severity_overridden
      /\ d.classification_overridden = c.classification_overridden
      /\ d.policy_confirmed = c.policy_confirmed
      /\ d.cat_confirmed = c.cat_confirmed
      /\ d.severity = severity
      /\ d.line_of_business = c.line_of_business
      /\ d.cat_event = c.cat_event
      /\ d.policy_id = c.policy_id
  BY DEF Case
<1> HIDE DEF d
<1> QED
  BY <1>4, <1>5, <1>6, <1>7 DEF Keeps

LEMMA AppliedType ==
  ASSUME NEW f, IsFacts(f), NEW r \in Readings, NEW locked
  PROVE  IsFacts(Applied(f, r, locked))
<1> DEFINE g == Applied(f, r, locked)
<1>1. DOMAIN f = Paths \cup Given
  BY DEF IsFacts
<1>2. g = [path \in Paths \cup Given |-> g[path]]
  BY <1>1 DEF Applied
<1>3. ASSUME NEW path \in Paths \cup Given
      PROVE  g[path] \in Values[path]
  BY <1>1, <1>3, FindingsAssumption DEF Applied, IsFacts
<1> QED
  BY <1>2, <1>3 DEF IsFacts

(* What a run that assessed found, against the bound policy if there is one.*)
LEMMA AssessesSettles ==
  ASSUME NEW c \in Case, NEW f, NEW policy \in Policies \cup {NoPolicy},
         c.policy_id # NoPolicy => policy = c.policy_id,
         Assesses(f, c, policy)
  PROVE  /\ facts' = f
         /\ Keeps(c, case')
         /\ SuspicionNeedsTwo' /\ LikelyCoveredIsSettled'
         /\ analysis'.indicators \subseteq IndicatorNames
         /\ analysis'.policy \in Policies \cup {NoPolicy}
<1> DEFINE p == RowOf(policy)
<1>1. PICK sign \in Signs, end \in Ends :
        LET found == Indicators(f, p, sign.duplicates, Cardinality(corrected'),
                                sign.unreadable)
        IN  /\ facts' = f
            /\ case' = [Assessed(c, f, p, found) EXCEPT !.processing_state = end]
            /\ analysis' = [indicators |-> found,
                            checks |-> IF p = NoPolicy THEN NoChecks ELSE Checks(f, p),
                            policy |-> policy]
  BY DEF Assesses
<1> HIDE DEF p
<1> DEFINE found == Indicators(f, p, sign.duplicates, Cardinality(corrected'),
                               sign.unreadable)
<1>2. found \in SUBSET IndicatorNames
  BY DEF Indicators
<1>3. /\ facts' = f
      /\ case' = [Assessed(c, f, p, found) EXCEPT !.processing_state = end]
      /\ analysis'.indicators = found
      /\ analysis'.checks = IF p = NoPolicy THEN NoChecks ELSE Checks(f, p)
      /\ analysis'.policy = policy
  BY <1>1
<1> HIDE DEF found
<1>4. Keeps(c, case')
  <2>1. end \in {"completed", "failed"}
    BY DEF Ends
  <2> QED
    BY <2>1, <1>3, AssessedKeeps
<1>5. /\ case'.policy_id = c.policy_id
      /\ case'.fraud_risk = FraudLevel(found)
      /\ case'.coverage_indicator = Coverage(f, p, c.policy_id # NoPolicy)
  BY <1>3 DEF Assessed, Case
<1>6. SuspicionNeedsTwo'
  <2>1. CASE FraudLevel(found) = "low"
    BY <2>1, <1>5 DEF SuspicionNeedsTwo
  <2>2. CASE FraudLevel(found) # "low"
    BY <2>2, <1>2, <1>3, TwoNeeded DEF SuspicionNeedsTwo
  <2> QED
    BY <2>1, <2>2
<1>7. LikelyCoveredIsSettled'
  <2> SUFFICES ASSUME Coverage(f, p, c.policy_id # NoPolicy) = "likely_covered"
               PROVE  LikelyCoveredIsSettled'
    BY <1>5 DEF LikelyCoveredIsSettled
  <2>1. p # NoPolicy
    BY DEF Coverage
  <2>2. Verdict(Checks(f, p), c.policy_id # NoPolicy) = "likely_covered"
    BY <2>1 DEF Coverage
  <2>3. (c.policy_id # NoPolicy) \in BOOLEAN
    OBVIOUS
  <2>4. /\ c.policy_id # NoPolicy
        /\ Checks(f, p).in_force = "pass"
        /\ Checks(f, p).policy_status = "pass"
        /\ Checks(f, p).peril = "pass"
        /\ Checks(f, p).location \in {"pass", "unknown"}
    BY <2>1, <2>2, <2>3, CoverageSettled
  <2> QED
    BY <2>1, <2>4, <1>3, <1>5 DEF LikelyCoveredIsSettled
<1> QED
  BY <1>2, <1>3, <1>4, <1>6, <1>7

(***************************************************************************)
(* A run: the facts stay facts, what officers set stays, and the findings  *)
(* and what they rest on change together or not at all.                    *)
(***************************************************************************)
Findings(c) ==
  \/ /\ SameFindings(c, case') /\ UNCHANGED analysis
     /\ case'.processing_state = "failed"
  \/ /\ SuspicionNeedsTwo' /\ LikelyCoveredIsSettled'
     /\ analysis'.indicators \subseteq IndicatorNames
     /\ analysis'.policy \in Policies \cup {NoPolicy}

LEMMA RunKeeps ==
  ASSUME NEW c \in Case, NEW f, IsFacts(f), Run(f, c)
  PROVE  IsFacts(facts') /\ Keeps(c, case') /\ Findings(c)
<1>1. PICK r \in Readings :
        LET read == Applied(f, r, corrected')
        IN  \/ RaisesBefore("classification", read, c)
            \/ \E m \in UNION {Matched(classified) : classified \in Classified(c)} :
               \E attributed \in Attributed(m.case, read) :
                 \/ RaisesBefore("assessments", read, attributed)
                 \/ Assesses(read, attributed, m.policy)
  BY DEF Run
<1> DEFINE read == Applied(f, r, corrected')
<1>2. IsFacts(read)
  BY AppliedType
<1> HIDE DEF read
<1>3. CASE RaisesBefore("classification", read, c)
  <2>1. case' = [c EXCEPT !.processing_state = "failed"]
    BY <1>3 DEF RaisesBefore
  <2>2. Keeps(c, case') /\ SameFindings(c, case') /\ case'.processing_state = "failed"
    BY <2>1 DEF SameFindings, Keeps, Case
  <2> QED
    BY <1>2, <1>3, <2>2 DEF RaisesBefore, Findings
<1>4. ASSUME NEW classified \in Classified(c),
             NEW m \in Matched(classified),
             NEW attributed \in Attributed(m.case, read)
      PROVE  /\ Keeps(c, attributed) /\ SameFindings(c, attributed)
             /\ m.policy \in Policies \cup {NoPolicy}
             /\ attributed.policy_id # NoPolicy => m.policy = attributed.policy_id
  <2>1. Keeps(c, classified) /\ SameFindings(c, classified)
    BY ClassifiedKeeps
  <2>2. classified \in Case
    BY <2>1 DEF Keeps
  <2>3. /\ Keeps(classified, m.case) /\ SameFindings(classified, m.case)
        /\ m.policy \in Policies \cup {NoPolicy}
        /\ m.case.policy_id # NoPolicy => m.policy = m.case.policy_id
    BY <2>2, MatchedKeeps
  <2>4. m.case \in Case
    BY <2>3 DEF Keeps
  <2>5. /\ Keeps(m.case, attributed) /\ SameFindings(m.case, attributed)
        /\ attributed.policy_id = m.case.policy_id
    BY <2>4, AttributedKeeps
  <2> QED
    BY <2>1, <2>3, <2>5 DEF Keeps, SameFindings
<1>5. ASSUME NEW d, Keeps(c, d), SameFindings(c, d),
             RaisesBefore("assessments", read, d)
      PROVE  IsFacts(facts') /\ Keeps(c, case') /\ Findings(c)
  <2>1. case' = [d EXCEPT !.processing_state = "failed"] /\ d \in Case
    BY <1>5 DEF RaisesBefore, Keeps
  <2>2. Keeps(c, case') /\ SameFindings(c, case') /\ case'.processing_state = "failed"
    BY <1>5, <2>1 DEF SameFindings, Keeps, Case
  <2> QED
    BY <1>2, <1>5, <2>2 DEF RaisesBefore, Findings
<1>6. ASSUME NEW d, Keeps(c, d), NEW p \in Policies \cup {NoPolicy},
             d.policy_id # NoPolicy => p = d.policy_id, Assesses(read, d, p)
      PROVE  IsFacts(facts') /\ Keeps(c, case') /\ Findings(c)
  <2>1. d \in Case
    BY <1>6 DEF Keeps
  <2>2. /\ facts' = read /\ Keeps(d, case')
        /\ SuspicionNeedsTwo' /\ LikelyCoveredIsSettled'
        /\ analysis'.indicators \subseteq IndicatorNames
        /\ analysis'.policy \in Policies \cup {NoPolicy}
    BY <2>1, <1>6, AssessesSettles
  <2> QED
    BY <2>2, <1>2, <1>6 DEF Keeps, Findings
<1> QED
  BY <1>1, <1>3, <1>4, <1>5, <1>6 DEF read

-----------------------------------------------------------------------------
(***************************************************************************)
(* The inductive invariant: the parts that hold together.                  *)
(***************************************************************************)
Inv ==
  /\ TypeOK
  /\ SuspicionNeedsTwo
  /\ LikelyCoveredIsSettled
  /\ AttributionIsConfirmed

LEMMA InitInv == Init => Inv
<1> SUFFICES ASSUME Init PROVE Inv
  OBVIOUS
<1>1. TypeOK
  BY FindingsAssumption DEF Init, TypeOK, Case, Risks, Indications
<1> QED
  BY <1>1 DEF Init, Inv, SuspicionNeedsTwo, LikelyCoveredIsSettled, AttributionIsConfirmed

(* The columns a run may start from: those of the notice, or those with a  *)
(* policy that an officer selected.                                        *)
Starts(c) ==
  /\ c \in Case
  /\ c.policy_confirmed => c.policy_id # NoPolicy
  /\ case.policy_id # NoPolicy => c.policy_id # NoPolicy
  /\ c.cat_confirmed = case.cat_confirmed /\ c.cat_event = case.cat_event
  /\ SameFindings(case, c)

LEMMA RunInv ==
  ASSUME Inv, NEW f, IsFacts(f), NEW c, Starts(c), Run(f, c),
         corrected' \subseteq Paths \ Flags, claim' = claim
  PROVE  Inv'
<1>0. c \in Case
  BY DEF Starts
<1>1. IsFacts(facts') /\ Keeps(c, case') /\ Findings(c)
  BY <1>0, RunKeeps
<1>2. /\ c.policy_confirmed => c.policy_id # NoPolicy
      /\ c.cat_confirmed => c.cat_event # NoEvent
  BY DEF Inv, TypeOK, Starts
<1>3. /\ analysis'.indicators \subseteq IndicatorNames
      /\ analysis'.policy \in Policies \cup {NoPolicy}
  BY <1>1 DEF Findings, Inv, TypeOK
<1>4. TypeOK'
  BY <1>1, <1>2, <1>3 DEF Inv, TypeOK, Keeps
<1>5. SuspicionNeedsTwo' /\ LikelyCoveredIsSettled'
  BY <1>1 DEF Findings, SameFindings, Keeps, Starts, Inv, SuspicionNeedsTwo,
              LikelyCoveredIsSettled
<1>6. AttributionIsConfirmed'
  BY <1>1 DEF Keeps, Starts, Inv, AttributionIsConfirmed
<1> QED
  BY <1>4, <1>5, <1>6 DEF Inv

(* What an override may leave in the columns.                              *)
Sets(c) ==
  /\ c \in Case
  /\ c.policy_id = case.policy_id /\ c.policy_confirmed = case.policy_confirmed
  /\ c.processing_state = case.processing_state
  /\ c.cat_confirmed => c.cat_event # NoEvent
  /\ SameFindings(case, c)

LEMMA CorrectType ==
  ASSUME IsFacts(facts), NEW c \in Corrections
  PROVE  IsFacts(Correct(facts, c))
BY FindingsAssumption DEF Correct, IsFacts

LEMMA KeepsItself ==
  ASSUME NEW c \in Case
  PROVE  Keeps(c, c) /\ SameFindings(c, c)
BY DEF Keeps, SameFindings

LEMMA NextInv == Inv /\ [Next]_vars => Inv'
<1> SUFFICES ASSUME Inv, [Next]_vars PROVE Inv'
  OBVIOUS
<1>0. /\ IsFacts(facts) /\ case \in Case /\ corrected \subseteq Paths \ Flags
      /\ Starts(case)
  BY KeepsItself DEF Inv, TypeOK, Starts
<1>1. CASE Process
  <2>1. Run(facts, case) /\ corrected' = corrected /\ claim' = claim
    BY <1>1 DEF Process
  <2> QED
    BY <2>1, <1>0, RunInv
<1>2. CASE UpdateFieldsOnly
  <2>1. PICK c \in Corrections :
          Changes(c) /\ facts' = Correct(facts, c) /\ UNCHANGED <<case, analysis>>
    BY <1>2 DEF UpdateFieldsOnly
  <2>2. c.path \in Paths
    BY FindingsAssumption
  <2>3. IsFacts(facts') /\ corrected' \subseteq Paths \ Flags
    BY <2>1, <2>2, <1>0, CorrectType DEF Changes
  <2> QED
    BY <2>1, <2>3 DEF Changes, Inv, TypeOK, SuspicionNeedsTwo,
                      LikelyCoveredIsSettled, AttributionIsConfirmed
<1>3. CASE UpdateFieldsAndRun
  <2>1. PICK c \in Corrections : Changes(c) /\ Run(Correct(facts, c), case)
    BY <1>3 DEF UpdateFieldsAndRun
  <2>2. c.path \in Paths
    BY FindingsAssumption
  <2>3. IsFacts(Correct(facts, c)) /\ corrected' \subseteq Paths \ Flags
    BY <2>1, <2>2, <1>0, CorrectType DEF Changes
  <2> QED
    BY <2>1, <2>3, <1>0, RunInv DEF Changes
<1>4. CASE SelectPolicy
  <2>1. PICK p \in Policies :
          Run(facts, [case EXCEPT !.policy_id = p, !.policy_confirmed = TRUE])
    BY <1>4 DEF SelectPolicy
  <2>2. corrected' = corrected /\ claim' = claim
    BY <1>4 DEF SelectPolicy
  <2> DEFINE c == [case EXCEPT !.policy_id = p, !.policy_confirmed = TRUE]
  <2>3. Starts(c)
    BY <1>0, FindingsAssumption DEF Case, SameFindings, Starts
  <2> HIDE DEF c
  <2>4. Run(facts, c)
    BY <2>1 DEF c
  <2> QED
    BY <2>2, <2>3, <2>4, <1>0, RunInv
<1>5. ASSUME NEW c, Sets(c), Overrides(c)
      PROVE  Inv'
  BY <1>5 DEF Overrides, Sets, Inv, TypeOK, SameFindings, SuspicionNeedsTwo,
              LikelyCoveredIsSettled, AttributionIsConfirmed
<1>6. CASE OverrideSeverity
  <2>1. PICK s \in OfficerSeverities :
          Overrides([case EXCEPT !.severity = s, !.severity_overridden = TRUE])
    BY <1>6 DEF OverrideSeverity
  <2> DEFINE c == [case EXCEPT !.severity = s, !.severity_overridden = TRUE]
  <2>2. s \in Severities
    BY FindingsAssumption
  <2>3. Sets(c)
    BY <2>2, <1>0 DEF Sets, Case, SameFindings, Inv, TypeOK
  <2> QED
    BY <2>1, <2>3, <1>5
<1>7. CASE OverrideClassification
  <2>1. PICK l \in Lines :
          Overrides([case EXCEPT !.line_of_business = l,
                                 !.classification_overridden = TRUE])
    BY <1>7 DEF OverrideClassification
  <2> DEFINE c == [case EXCEPT !.line_of_business = l,
                               !.classification_overridden = TRUE]
  <2>2. Sets(c)
    BY <1>0 DEF Sets, Case, SameFindings, Inv, TypeOK
  <2> QED
    BY <2>1, <2>2, <1>5
<1>8. CASE ConfirmCatMatch
  <2>1. PICK e \in Events :
          Overrides([case EXCEPT !.cat_event = e, !.cat_confirmed = TRUE])
    BY <1>8 DEF ConfirmCatMatch
  <2> DEFINE c == [case EXCEPT !.cat_event = e, !.cat_confirmed = TRUE]
  <2>2. Sets(c)
    BY <1>0, FindingsAssumption DEF Sets, Case, SameFindings
  <2> QED
    BY <2>1, <2>2, <1>5
<1>9. CASE RemoveCatMatch
  <2> DEFINE c == [case EXCEPT !.cat_event = NoEvent, !.cat_confirmed = FALSE]
  <2>1. Sets(c)
    BY <1>0 DEF Sets, Case, SameFindings
  <2> QED
    BY <2>1, <1>5, <1>9 DEF RemoveCatMatch
<1>10. CASE CreateClaim
  <2>1. /\ UNCHANGED <<facts, corrected, case, analysis>>
        /\ claim'.cat_event = EventOf
    BY <1>10 DEF CreateClaim
  <2>2. EventOf \in Events \cup {NoEvent}
    BY <1>0 DEF EventOf, Case
  <2> QED
    BY <2>1, <2>2 DEF EventOf, Inv, TypeOK, SuspicionNeedsTwo,
                      LikelyCoveredIsSettled, AttributionIsConfirmed
<1>11. CASE UNCHANGED vars
  BY <1>11 DEF vars, Inv, TypeOK, SuspicionNeedsTwo, LikelyCoveredIsSettled,
               AttributionIsConfirmed
<1> QED
  BY <1>1, <1>2, <1>3, <1>4, <1>6, <1>7, <1>8, <1>9, <1>10, <1>11 DEF Next

-----------------------------------------------------------------------------
(***************************************************************************)
(* The theorems.                                                           *)
(***************************************************************************)
LEMMA InvAlways == Spec => []Inv
BY InitInv, NextInv, PTL DEF Spec

(* The types of the findings hold whatever is read, corrected, set by hand *)
(* or left half done.                                                      *)
THEOREM TypeCorrect == Spec => []TypeOK
<1>1. Inv => TypeOK
  BY DEF Inv
<1> QED
  BY <1>1, InvAlways, PTL

(* No stored suspicion rests on one indicator, whatever ran since.         *)
THEOREM SuspicionCorrect == Spec => []SuspicionNeedsTwo
<1>1. Inv => SuspicionNeedsTwo
  BY DEF Inv
<1> QED
  BY <1>1, InvAlways, PTL

(* A stored "likely covered" is of a policy that was in force, active and  *)
(* names the peril as far as the facts went when it was assessed, and that *)
(* policy is still the bound one unless the last run failed: for any       *)
(* policies, any facts and a run that stops before any stage.              *)
THEOREM CoverageCorrect == Spec => []LikelyCoveredIsSettled
<1>1. Inv => LikelyCoveredIsSettled
  BY DEF Inv
<1> QED
  BY <1>1, InvAlways, PTL

(* Only an accepted attribution reaches the claim, and no run takes it     *)
(* from the notice afterwards.                                             *)
THEOREM AttributionCorrect == Spec => []AttributionIsConfirmed
<1>1. Inv => AttributionIsConfirmed
  BY DEF Inv
<1> QED
  BY <1>1, InvAlways, PTL

(* What else is reported only adds floors, so no fact lowers the severity. *)
LEMMA FactsRaise == TypeOK => SignalsOnlyRaise
<1> SUFFICES ASSUME IsFacts(facts),
                    NEW p, NEW cat \in BOOLEAN
             PROVE  LET was == Rank[SeverityOf(facts, p, cat)]
                    IN  /\ \A flag \in Flags :
                             was <= Rank[SeverityOf([facts EXCEPT ![flag] = TRUE], p, cat)]
                        /\ was <= Rank[SeverityOf([facts EXCEPT !.injuries = 3], p, cat)]
                        /\ was <= Rank[SeverityOf([facts EXCEPT !.fatalities = 1], p, cat)]
                        /\ was <= Rank[SeverityOf(facts, p, TRUE)]
  BY DEF TypeOK, SignalsOnlyRaise
<1>1. DOMAIN facts = Paths \cup Given
  BY DEF IsFacts
<1>2. Unstated \notin Nat
  BY ThresholdsAssumption
<1>3. ASSUME NEW flag \in Flags
      PROVE  Floors(facts, p, cat) \subseteq Floors([facts EXCEPT ![flag] = TRUE], p, cat)
  BY <1>1 DEF Floors, Band, NearLimit, Value, Stated, Flags, Paths
<1>4. Floors(facts, p, cat) \subseteq Floors([facts EXCEPT !.injuries = 3], p, cat)
  BY <1>1, <1>2 DEF Floors, Band, NearLimit, Value, Stated, Flags, Paths
<1>5. Floors(facts, p, cat) \subseteq Floors([facts EXCEPT !.fatalities = 1], p, cat)
  BY <1>1, <1>2 DEF Floors, Band, NearLimit, Value, Stated, Flags, Paths
<1>6. Floors(facts, p, cat) \subseteq Floors(facts, p, TRUE)
  BY DEF Floors
<1> QED
  BY <1>3, <1>4, <1>5, <1>6, MoreFloors

(* One more thing reported never makes a loss less severe, for any         *)
(* thresholds, any policy and any facts.                                   *)
THEOREM RaisedAlways == Spec => []SignalsOnlyRaise
BY FactsRaise, TypeCorrect, PTL

(* A run gives back what an officer set.                                   *)
LEMMA RunStands ==
  ASSUME Inv, NEW f, IsFacts(f), NEW c, c \in Case, Run(f, c),
         c.severity_overridden = case.severity_overridden /\ c.severity = case.severity,
         c.classification_overridden = case.classification_overridden,
         c.line_of_business = case.line_of_business,
         c.cat_confirmed = case.cat_confirmed /\ c.cat_event = case.cat_event
  PROVE  /\ case.severity_overridden => case'.severity = case.severity
         /\ case.classification_overridden => case'.line_of_business = case.line_of_business
         /\ case.cat_confirmed => case'.cat_event = case.cat_event
<1>1. Keeps(c, case')
  BY RunKeeps
<1> QED
  BY <1>1 DEF Keeps

(* What an officer set by hand outlasts every run, for any reading and     *)
(* wherever the run stops.                                                 *)
THEOREM OverridesCorrect == Spec => OverridesStand
<1> DEFINE Stand ==
      /\ case.severity_overridden /\ ~ OverrideSeverity
           => case'.severity = case.severity
      /\ case.classification_overridden /\ ~ OverrideClassification
           => case'.line_of_business = case.line_of_business
      /\ case.cat_confirmed /\ ~ ConfirmCatMatch /\ ~ RemoveCatMatch
           => case'.cat_event = case.cat_event
<1>1. Inv /\ [Next]_vars => [Stand]_vars
  <2> SUFFICES ASSUME Inv, Next PROVE Stand
    OBVIOUS
  <2>0. IsFacts(facts) /\ case \in Case
    BY DEF Inv, TypeOK
  <2>1. CASE Process
    <3>1. Run(facts, case)
      BY <2>1 DEF Process
    <3> QED
      BY <3>1, <2>0, RunStands
  <2>2. CASE UpdateFieldsOnly
    BY <2>2 DEF UpdateFieldsOnly
  <2>3. CASE UpdateFieldsAndRun
    <3>1. PICK c \in Corrections : Changes(c) /\ Run(Correct(facts, c), case)
      BY <2>3 DEF UpdateFieldsAndRun
    <3>2. IsFacts(Correct(facts, c))
      BY <2>0, CorrectType
    <3> QED
      BY <3>1, <3>2, <2>0, RunStands
  <2>4. CASE SelectPolicy
    <3>1. PICK p \in Policies :
            Run(facts, [case EXCEPT !.policy_id = p, !.policy_confirmed = TRUE])
      BY <2>4 DEF SelectPolicy
    <3> DEFINE c == [case EXCEPT !.policy_id = p, !.policy_confirmed = TRUE]
    <3>2. /\ c \in Case
          /\ c.severity_overridden = case.severity_overridden /\ c.severity = case.severity
          /\ c.classification_overridden = case.classification_overridden
          /\ c.line_of_business = case.line_of_business
          /\ c.cat_confirmed = case.cat_confirmed /\ c.cat_event = case.cat_event
      BY <2>0 DEF Case
    <3> HIDE DEF c
    <3>3. Run(facts, c)
      BY <3>1 DEF c
    <3> QED
      BY <3>2, <3>3, <2>0, RunStands
  <2>5. CASE OverrideSeverity
    <3>1. /\ case'.line_of_business = case.line_of_business
          /\ case'.cat_event = case.cat_event
      BY <2>5, <2>0 DEF OverrideSeverity, Overrides, Case
    <3> QED
      BY <3>1, <2>5
  <2>6. CASE OverrideClassification
    <3>1. case'.severity = case.severity /\ case'.cat_event = case.cat_event
      BY <2>6, <2>0 DEF OverrideClassification, Overrides, Case
    <3> QED
      BY <3>1, <2>6
  <2>7. CASE ConfirmCatMatch
    <3>1. /\ case'.severity = case.severity
          /\ case'.line_of_business = case.line_of_business
      BY <2>7, <2>0 DEF ConfirmCatMatch, Overrides, Case
    <3> QED
      BY <3>1, <2>7
  <2>8. CASE RemoveCatMatch
    <3>1. /\ case'.severity = case.severity
          /\ case'.line_of_business = case.line_of_business
      BY <2>8, <2>0 DEF RemoveCatMatch, Overrides, Case
    <3> QED
      BY <3>1, <2>8
  <2>9. CASE CreateClaim
    BY <2>9 DEF CreateClaim
  <2> QED
    BY <2>1, <2>2, <2>3, <2>4, <2>5, <2>6, <2>7, <2>8, <2>9 DEF Next
<1> QED
  BY <1>1, InvAlways, PTL DEF Spec, OverridesStand

-----------------------------------------------------------------------------
(***************************************************************************)
(* Routing.                                                                *)
(***************************************************************************)
(* The claim is made by one action; every other leaves it alone.           *)
LEMMA OnlyCreateClaim ==
  ASSUME [Next]_vars, claim' # claim
  PROVE  CreateClaim
BY DEF Next, vars, Process, UpdateFieldsOnly, UpdateFieldsAndRun, Changes,
       SelectPolicy, OverrideSeverity, OverrideClassification, ConfirmCatMatch,
       RemoveCatMatch, Overrides

LEMMA RoutesAre ==
  /\ Routes[1].category = "fraud_review" /\ Routes[1].key = "siu"
  /\ Routes[2].category = "litigation_risk" /\ Routes[2].key = "litigation"
  /\ Routes[3].category = "major_loss" /\ Routes[3].key = "major_loss"
  /\ Routes[4].category = "cat_claim" /\ Routes[4].key = "cat"
  /\ Routes[5].category = "specialist_required" /\ Routes[5].key = "specialist"
  /\ Routes[6].category = "complex" /\ Routes[6].key = "complex"
  /\ Routes[7].category = "simple" /\ Routes[7].key = "fast_track"
BY DEF Routes

LEMMA RouteIs ==
  ASSUME NEW cats, cats \subseteq Categories, cats # {}
  PROVE  \E i \in 1 .. 7 :
           /\ RouteFor(cats) = Routes[i].key
           /\ Routes[i].category \in cats
           /\ \A j \in 1 .. i - 1 : Routes[j].category \notin cats
<1> DEFINE First(i) == /\ Routes[i].category \in cats
                       /\ \A j \in 1 .. i - 1 : Routes[j].category \notin cats
<1>1. DOMAIN Routes = 1 .. 7
  BY DEF Routes
<1>2. \E i \in 1 .. 7 : First(i)
  <2>1. \E i \in 1 .. 7 : Routes[i].category \in cats
    <3>1. PICK k \in cats : TRUE
      OBVIOUS
    <3>2. k \in Categories
      BY <3>1
    <3>3. \E i \in 1 .. 7 : Routes[i].category = k
      BY <3>2, RoutesAre DEF Categories
    <3> QED
      BY <3>1, <3>3
  <2> QED
    BY <2>1 DEF Routes
<1>3. First(CHOOSE i \in 1 .. 7 : First(i)) /\ (CHOOSE i \in 1 .. 7 : First(i)) \in 1 .. 7
  BY <1>2
<1> QED
  BY <1>1, <1>3 DEF RouteFor

LEMMA CategoriesType ==
  ASSUME NEW c, NEW f, NEW fraud
  PROVE  CategoriesOf(c, f, fraud) \subseteq Categories /\ CategoriesOf(c, f, fraud) # {}
BY DEF CategoriesOf, Special, Categories

(* Where a death is reported when the claim is made, the claim is urgent   *)
(* and goes to a desk for it, for any overrides and however old the stored *)
(* severity.                                                               *)
THEOREM DeathsCorrect == Spec => DeathsAreUrgent
<1> DEFINE Urgent ==
      claim = NoClaim /\ claim' # NoClaim /\ Value(facts.fatalities) > 0 =>
        /\ claim'.priority = "urgent"
        /\ claim'.route \in {"siu", "litigation", "major_loss"}
<1>1. Inv /\ [Next]_vars => [Urgent]_vars
  <2> SUFFICES ASSUME Inv, [Next]_vars, claim = NoClaim, claim' # NoClaim,
                      Value(facts.fatalities) > 0
               PROVE  /\ claim'.priority = "urgent"
                      /\ claim'.route \in {"siu", "litigation", "major_loss"}
    OBVIOUS
  <2> DEFINE cats == CategoriesOf(Copy, facts, case.fraud_risk)
  <2>1. CreateClaim
    BY OnlyCreateClaim
  <2>2. claim'.route = RouteFor(cats) /\ claim'.priority = PriorityOf(Copy.severity, cats)
    BY <2>1 DEF CreateClaim
  <2>3. "major_loss" \in cats
    BY DEF CategoriesOf, Special, Categories
  <2>4. cats \subseteq Categories /\ cats # {}
    BY CategoriesType
  <2> HIDE DEF cats
  <2>5. PriorityOf(Copy.severity, cats) = "urgent"
    BY <2>3 DEF PriorityOf
  <2>6. RouteFor(cats) \in {"siu", "litigation", "major_loss"}
    BY <2>3, <2>4, RouteIs, RoutesAre
  <2> QED
    BY <2>2, <2>5, <2>6
<1> QED
  BY <1>1, InvAlways, PTL DEF Spec, DeathsAreUrgent

(* The fast track is the route of claims that no category is of.           *)
LEMMA FastTrackIs ==
  ASSUME NEW c, NEW f, NEW fraud, RouteFor(CategoriesOf(c, f, fraud)) = "fast_track"
  PROVE  Special(c, f, fraud) = {} /\ ~ Complex(c, f)
<1> DEFINE cats == CategoriesOf(c, f, fraud)
<1>1. cats \subseteq Categories /\ cats # {}
  BY CategoriesType
<1>2. PICK i \in 1 .. 7 :
        /\ RouteFor(cats) = Routes[i].key
        /\ \A j \in 1 .. i - 1 : Routes[j].category \notin cats
  BY <1>1, RouteIs
<1>3. i = 7
  BY <1>2, RoutesAre
<1>4. cats \subseteq {"simple"}
  <2>1. \A j \in 1 .. 6 : Routes[j].category \notin cats
    BY <1>2, <1>3
  <2> QED
    BY <2>1, <1>1, RoutesAre DEF Categories
<1>5. "simple" \notin Special(c, f, fraud) /\ Special(c, f, fraud) \subseteq Categories
  BY DEF Special
<1> QED
  BY <1>4, <1>5 DEF CategoriesOf

(* A claim on the fast track has nothing reported, suspected or confirmed  *)
(* that another desk is for, for any thresholds and any words.             *)
THEOREM FastTrackCorrect == Spec => FastTrackIsQuiet
<1> DEFINE Quiet ==
      /\ Value(facts.injuries) = 0
      /\ ~ facts.business_interruption
      /\ ~ facts.potential_litigation
      /\ TextSignals(facts) \cap (LitigationWords \cup InjuryWords) = {}
      /\ Value(facts.estimated_loss) < MajorFrom
      /\ ~ case.cat_confirmed
      /\ case.fraud_risk \in {"none", "low"}
      /\ case.line_of_business \notin SpecialistLines
      /\ case.severity \in {"none", "low", "medium"}
<1> DEFINE QuietTrack ==
      claim = NoClaim /\ claim' # NoClaim /\ claim'.route = "fast_track" => Quiet
<1>1. Inv /\ [Next]_vars => [QuietTrack]_vars
  <2> SUFFICES ASSUME Inv, [Next]_vars, claim = NoClaim, claim' # NoClaim,
                      claim'.route = "fast_track"
               PROVE  Quiet
    OBVIOUS
  <2>1. CreateClaim
    BY OnlyCreateClaim
  <2>2. RouteFor(CategoriesOf(Copy, facts, case.fraud_risk)) = "fast_track"
    BY <2>1 DEF CreateClaim
  <2>3. Special(Copy, facts, case.fraud_risk) = {} /\ ~ Complex(Copy, facts)
    BY <2>2, FastTrackIs
  <2>4. /\ ~ (case.fraud_risk \in {"medium", "high"})
        /\ ~ facts.potential_litigation
        /\ TextSignals(facts) \cap LitigationWords = {}
        /\ ~ (Copy.reserve >= MajorFrom)
        /\ Copy.severity # "critical"
        /\ TextSignals(facts) \cap InjuryWords = {}
        /\ Copy.cat_event = NoEvent
        /\ Copy.line_of_business \notin SpecialistLines
    BY <2>3 DEF Special, Categories
  <2>5. /\ case.fraud_risk \in Risks /\ case.severity \in Severities \cup {"none"}
        /\ case.cat_confirmed => case.cat_event # NoEvent
    BY DEF Inv, TypeOK, Case
  <2>6. Value(facts.injuries) \in Nat /\ Value(facts.estimated_loss) \in Nat
    <3>1. \A path \in {"injuries", "estimated_loss"} : facts[path] \in Nat \cup {Unstated}
      <4>1. ASSUME NEW path \in {"injuries", "estimated_loss"}
            PROVE  path \in Paths \cup Given /\ Values[path] = Nat \cup {Unstated}
        BY DEF Paths, Values, Flags, Texts, Given
      <4>2. \A path \in Paths \cup Given : facts[path] \in Values[path]
        BY DEF Inv, TypeOK, IsFacts
      <4> QED
        BY <4>1, <4>2
    <3> QED
      BY <3>1 DEF Value
  <2>7. Value(facts.injuries) = 0
    BY <2>3, <2>6 DEF Complex
  <2>8. Value(facts.estimated_loss) < MajorFrom
    BY <2>4, <2>6, TriageAssumption DEF Copy
  <2>9. ~ case.cat_confirmed
    BY <2>4, <2>5 DEF Copy, EventOf
  <2>10. ~ facts.business_interruption /\ case.severity \in {"none", "low", "medium"}
    BY <2>3, <2>4, <2>5 DEF Complex, Copy, Severities
  <2> QED
    BY <2>4, <2>5, <2>7, <2>8, <2>9, <2>10 DEF Copy, Risks
<1> QED
  BY <1>1, InvAlways, PTL DEF Spec, FastTrackIsQuiet
=============================================================================
