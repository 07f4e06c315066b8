--------------------------- MODULE MatchingProofs ---------------------------
(* Theorems about the matching of a notice, for any book of policies, any  *)
(* other reports, any facts, readings and corrections.                     *)
EXTENDS Matching, FiniteSetTheorems, SequenceTheorems, TLAPS

-----------------------------------------------------------------------------
(* What a signal may be.                                                   *)
Signal == {Uncompared} \cup 0 .. Full

LEMMA ShareBounds ==
  ASSUME NEW part \in Nat, NEW whole \in Nat, whole > 0, part <= whole
  PROVE  Share(part, whole) \in 0 .. Full
<1> DEFINE q == (60 * part) \div whole
<1>1. q \in Int /\ whole * q <= 60 * part
  OBVIOUS
<1>2. 60 * part < whole * (q + 1)
  OBVIOUS
<1>3. q >= 0
  <2> SUFFICES ASSUME q <= -1 PROVE FALSE
    BY <1>1
  <2> HIDE DEF q
  <2>1. whole * (q + 1) <= 0
    BY <1>1
  <2>2. QED
    BY <1>1, <1>2, <2>1
<1>4. q <= 60
  <2> SUFFICES ASSUME q >= 61 PROVE FALSE
    BY <1>1
  <2> HIDE DEF q
  <2>1. whole * q >= whole * 61
    BY <1>1
  <2>2. QED
    BY <1>1, <2>1
<1>5. QED
  BY <1>1, <1>3, <1>4 DEF Share, Full

LEMMA JaccardBounds ==
  ASSUME NEW a, NEW b, IsFiniteSet(a), IsFiniteSet(b)
  PROVE  Jaccard(a, b) \in 0 .. Full
<1>1. CASE a = {} \/ b = {}
  BY <1>1 DEF Jaccard, Full
<1>2. CASE a # {} /\ b # {}
  <2>1. /\ IsFiniteSet(a \cap b) /\ IsFiniteSet(a \cup b)
        /\ Cardinality(a \cap b) <= Cardinality(a)
        /\ Cardinality(a) <= Cardinality(a \cup b)
    BY FS_Intersection, FS_Union, FS_Subset
  <2>2. Cardinality(a) \in Nat /\ Cardinality(a) # 0
    BY <1>2, FS_CardinalityType, FS_EmptySet
  <2>3. Cardinality(a \cap b) \in Nat /\ Cardinality(a \cup b) \in Nat
    BY <2>1, FS_CardinalityType
  <2>4. Share(Cardinality(a \cap b), Cardinality(a \cup b)) \in 0 .. Full
    BY <2>1, <2>2, <2>3, ShareBounds
  <2>5. QED
    BY <1>2, <2>4 DEF Jaccard
<1>3. QED
  BY <1>1, <1>2

LEMMA ContainmentBounds ==
  ASSUME NEW a, NEW b, IsFiniteSet(a), IsFiniteSet(b)
  PROVE  Containment(a, b) \in 0 .. Full
<1>1. CASE a = {} \/ b = {}
  BY <1>1 DEF Containment, Full
<1>2. CASE a # {} /\ b # {}
  <2> DEFINE less == Smaller(Cardinality(a), Cardinality(b))
  <2>1. /\ IsFiniteSet(a \cap b)
        /\ Cardinality(a \cap b) <= Cardinality(a)
        /\ Cardinality(a \cap b) <= Cardinality(b)
    BY FS_Intersection, FS_Subset
  <2>2. /\ Cardinality(a) \in Nat /\ Cardinality(a) # 0
        /\ Cardinality(b) \in Nat /\ Cardinality(b) # 0
        /\ Cardinality(a \cap b) \in Nat
    BY <1>2, <2>1, FS_CardinalityType, FS_EmptySet
  <2>3. less \in Nat /\ less > 0 /\ Cardinality(a \cap b) <= less
    BY <2>1, <2>2 DEF Smaller
  <2>4. Share(Cardinality(a \cap b), less) \in 0 .. Full
    BY <2>2, <2>3, ShareBounds
  <2>5. QED
    BY <1>2, <2>4 DEF Containment
<1>3. QED
  BY <1>1, <1>2

(* What is left of a name without its company form is among its words.     *)
LEMMA OwnWords ==
  ASSUME NEW x \in Names
  PROVE  /\ UNION {WordsOf(n) : n \in NormaliseOrganisation(x)} \subseteq Words
         /\ IsFiniteSet(UNION {WordsOf(n) : n \in NormaliseOrganisation(x)})
<1>1. x \in Seq(Words)
  BY LikenessAssumption
<1>2. \A i \in DOMAIN x : WordsOf(SubSeq(x, 1, i)) \subseteq Words
  <2> SUFFICES ASSUME NEW i \in DOMAIN x, NEW j \in DOMAIN SubSeq(x, 1, i)
               PROVE  SubSeq(x, 1, i)[j] \in Words
    BY DEF WordsOf
  <2>1. i \in 1 .. Len(x)
    BY <1>1
  <2>2. SubSeq(x, 1, i) \in Seq(Words)
    BY <1>1, <2>1
  <2>3. QED
    BY <2>2
<1>3. \A n \in NormaliseOrganisation(x) : WordsOf(n) \subseteq Words
  BY <1>2 DEF NormaliseOrganisation
<1>4. UNION {WordsOf(n) : n \in NormaliseOrganisation(x)} \subseteq Words
  BY <1>3
<1>5. QED
  BY <1>4, FS_Subset, LikenessAssumption

LEMMA NameBounds ==
  ASSUME NEW x \in Names, NEW y \in Names
  PROVE  NameSimilarity(x, y) \in 0 .. Full
<1> DEFINE a == UNION {WordsOf(n) : n \in NormaliseOrganisation(x)}
           b == UNION {WordsOf(n) : n \in NormaliseOrganisation(y)}
<1>1. Containment(a, b) \in 0 .. Full
  BY OwnWords, ContainmentBounds
<1>2. Ratio(x, y) \in 0 .. Full
  BY LikenessAssumption
<1> HIDE DEF a, b
<1>3. Larger(Containment(a, b), Ratio(x, y)) \in 0 .. Full
  BY <1>1, <1>2 DEF Larger
<1>4. QED
  BY <1>3 DEF NameSimilarity, a, b, Full

LEMMA TextBounds ==
  ASSUME NEW a \in SUBSET Words, NEW b \in SUBSET Words
  PROVE  Containment(a, b) \in 0 .. Full /\ Jaccard(a, b) \in 0 .. Full
BY ContainmentBounds, JaccardBounds, FS_Subset, LikenessAssumption

LEMMA ComparedBounds ==
  ASSUME NEW x, NEW y, NEW similarity,
         x # None /\ y # None => similarity \in 0 .. Full
  PROVE  Compared(x, y, similarity) \in Signal
BY DEF Compared, Signal

(* The columns of a notice.                                                *)
LEMMA Columns ==
  ASSUME NEW n, IsNotice(n)
  PROVE  /\ n.policy_number \in {None} \cup Numbers
         /\ n.insured_name \in {None} \cup Names
         /\ n.insured_organisation \in {None} \cup Names
         /\ n.reporter_organisation \in {None} \cup Names
         /\ n.claimant_name \in {None} \cup Names
         /\ n.reporter_email \in {None} \cup Emails
         /\ n.loss_location \in {None} \cup SUBSET Words
         /\ n.loss_description \in {None} \cup SUBSET Words
         /\ n.affected_assets \in {None} \cup SUBSET Words
         /\ n.date_of_loss \in {None} \cup Nat
<1>1. \A c \in DOMAIN Facts : n[c] \in Facts[c]
  BY DEF IsNotice
<1>2. QED
  BY <1>1 DEF Facts

LEMMA SignalsType ==
  ASSUME NEW n, IsNotice(n), NEW p \in PolicyRow
  PROVE  Signals(n, p) \in
           [policy_number: Signal, insured_name: Signal, organisation: Signal,
            broker: Signal, email: Signal, location: Signal,
            line_of_business: Signal, in_force: Signal]
<1>1. /\ n.insured_name \in {None} \cup Names
      /\ n.insured_organisation \in {None} \cup Names
      /\ n.reporter_organisation \in {None} \cup Names
      /\ n.loss_location \in {None} \cup SUBSET Words
  BY Columns
<1>2. /\ p.insured_name \in Names
      /\ p.insured_organisation \in {None} \cup Names
      /\ p.broker_name \in {None} \cup Names
      /\ p.primary_location \in {None} \cup SUBSET Words
  BY DEF PolicyRow
<1>3. Signals(n, p).policy_number \in Signal
  BY DEF Signals, NumberSignal, Signal, Full
<1>4. Signals(n, p).insured_name \in Signal
  <2>1. n.insured_name # None => NameSimilarity(n.insured_name, p.insured_name) \in 0 .. Full
    BY <1>1, <1>2, NameBounds
  <2>2. QED
    BY <2>1, ComparedBounds DEF Signals
<1>5. Signals(n, p).organisation \in Signal
  <2>1. n.insured_organisation # None /\ p.insured_organisation # None
          => NameSimilarity(n.insured_organisation, p.insured_organisation) \in 0 .. Full
    BY <1>1, <1>2, NameBounds
  <2>2. QED
    BY <2>1, ComparedBounds DEF Signals
<1>6. Signals(n, p).broker \in Signal
  <2>1. n.reporter_organisation # None /\ p.broker_name # None
          => NameSimilarity(n.reporter_organisation, p.broker_name) \in 0 .. Full
    BY <1>1, <1>2, NameBounds
  <2>2. QED
    BY <2>1, ComparedBounds DEF Signals
<1>7. Signals(n, p).email \in Signal
  BY DEF Signals, Compared, EmailSignal, Signal, Full
<1>8. Signals(n, p).location \in Signal
  <2>1. n.loss_location # None /\ p.primary_location # None
          => Containment(n.loss_location, p.primary_location) \in 0 .. Full
    BY <1>1, <1>2, TextBounds
  <2>2. QED
    BY <2>1, ComparedBounds DEF Signals
<1>9. Signals(n, p).line_of_business \in Signal /\ Signals(n, p).in_force \in Signal
  BY DEF Signals, Compared, Same, Signal, Full
<1>10. QED
  BY <1>3, <1>4, <1>5, <1>6, <1>7, <1>8, <1>9 DEF Signals

(* What one signal adds to a score.                                        *)
LEMMA Parts ==
  ASSUME NEW signal \in Signal, NEW weight \in Nat
  PROVE  /\ Agreed(signal, weight) \in Int /\ Weighed(signal, weight) \in Int
         /\ 0 <= Weighed(signal, weight) /\ Weighed(signal, weight) <= weight
         /\ signal <= 0 => Agreed(signal, weight) = 0
         /\ 0 <= Agreed(signal, weight)
         /\ Agreed(signal, weight) <= 60 * Weighed(signal, weight)
         /\ signal # Uncompared => Weighed(signal, weight) = weight
         /\ signal = Full => /\ Agreed(signal, weight) = 60 * weight
                             /\ Weighed(signal, weight) = weight
<1>1. CASE signal = Uncompared
  BY <1>1 DEF Agreed, Weighed, Uncompared, Full
<1>2. CASE signal # Uncompared
  <2>1. signal \in 0 .. 60
    BY <1>2 DEF Signal, Full
  <2>2. 0 <= signal * weight /\ signal * weight <= 60 * weight
    BY <2>1
  <2>3. QED
    BY <1>2, <2>1, <2>2 DEF Agreed, Weighed, Uncompared, Full
<1>3. QED
  BY <1>1, <1>2

(* A signal of a given weight agrees in part, and no more than it weighs.  *)
Part(signal, weight) ==
  /\ Agreed(signal, weight) \in Nat
  /\ Weighed(signal, weight) \in Nat
  /\ Weighed(signal, weight) <= weight
  /\ Agreed(signal, weight) <= 60 * Weighed(signal, weight)
  /\ signal <= 0 => Agreed(signal, weight) = 0

LEMMA SignalIsPart ==
  ASSUME NEW signal \in Signal, NEW weight \in Nat
  PROVE  Part(signal, weight)
BY Parts DEF Part

PolicySignals ==
  [policy_number: Signal, insured_name: Signal, organisation: Signal,
   broker: Signal, email: Signal, location: Signal,
   line_of_business: Signal, in_force: Signal]

LEMMA PolicyParts ==
  ASSUME NEW s \in PolicySignals
  PROVE  /\ Part(s.policy_number, 50)
         /\ Part(s.insured_name, 20)
         /\ Part(s.organisation, 12)
         /\ Part(s.broker, 8)
         /\ Part(s.email, 10)
         /\ Part(s.location, 8)
         /\ Part(s.line_of_business, 6)
         /\ Part(s.in_force, 15)
BY SignalIsPart DEF PolicySignals

LEMMA PolicyScoreType ==
  ASSUME NEW s \in PolicySignals
  PROVE  PolicyScore(s).agreed \in Int /\ PolicyScore(s).of \in Int
BY PolicyParts DEF Part, PolicyScore

(* 50 of at most 129 tenths, and 60 of 129 with half of a name.            *)
LEMMA NumberScores ==
  ASSUME NEW s \in PolicySignals, s.policy_number = Full,
         s.insured_name = Uncompared \/ 2 * s.insured_name >= Full
  PROVE  RoundedReaches(PolicyScore(s), PolicyCandidateThreshold)
<1>1. /\ Agreed(s.policy_number, 50) = 3000 /\ Weighed(s.policy_number, 50) = 50
  BY Parts DEF PolicySignals
<1>2. \/ Agreed(s.insured_name, 20) = 0 /\ Weighed(s.insured_name, 20) = 0
      \/ Agreed(s.insured_name, 20) >= 600 /\ Weighed(s.insured_name, 20) = 20
  <2>1. CASE s.insured_name = Uncompared
    BY <2>1 DEF Agreed, Weighed
  <2>2. CASE s.insured_name # Uncompared
    BY <2>2 DEF Agreed, Weighed, PolicySignals, Signal, Full
  <2>3. QED
    BY <2>1, <2>2
<1>3. QED
  BY <1>1, <1>2, PolicyParts
  DEF Part, RoundedReaches, PolicyScore, PolicyCandidateThreshold, Full

PairOfSignals ==
  [policy: Signal, loss_date: Signal, insured: Signal, claimant: Signal,
   location: Signal, description: Signal, assets: Signal,
   external_reference: Signal]

LEMMA PairParts ==
  ASSUME NEW s \in PairOfSignals
  PROVE  /\ Part(s.policy, 30)
         /\ Part(s.loss_date, 25)
         /\ Part(s.insured, 15)
         /\ Part(s.claimant, 10)
         /\ Part(s.location, 20)
         /\ Part(s.description, 20)
         /\ Part(s.external_reference, 30)
         /\ Part(s.assets, 8)
BY SignalIsPart DEF PairOfSignals

(* 80 of at most 128 tenths.                                               *)
LEMMA RepeatScores ==
  ASSUME NEW s \in PairOfSignals, s.policy = Full, s.loss_date = Full,
         s.insured = Full, s.claimant = Full, s.external_reference = Uncompared
  PROVE  RoundedReaches(PairScore(s), DuplicateThreshold)
<1>1. /\ Agreed(s.policy, 30) = 1800 /\ Weighed(s.policy, 30) = 30
      /\ Agreed(s.loss_date, 25) = 1500 /\ Weighed(s.loss_date, 25) = 25
      /\ Agreed(s.insured, 15) = 900 /\ Weighed(s.insured, 15) = 15
      /\ Agreed(s.claimant, 10) = 600 /\ Weighed(s.claimant, 10) = 10
  BY Parts DEF PairOfSignals
<1>2. Agreed(s.external_reference, 30) = 0 /\ Weighed(s.external_reference, 30) = 0
  BY DEF Agreed, Weighed
<1>3. QED
  BY <1>1, <1>2, PairParts
  DEF Part, RoundedReaches, PairScore, DuplicateThreshold, Full

(* Against another policy, one signal is at most 30 of 60 tenths.          *)
LEMMA LoneScores ==
  ASSUME NEW s \in PairOfSignals, s.policy = 0,
         NEW lone \in DOMAIN s \ {"policy"},
         \A k \in DOMAIN s \ {"policy", lone} : s[k] <= 0
  PROVE  ~ RoundedReaches(PairScore(s), DuplicateThreshold)
<1>1. Agreed(s.policy, 30) = 0 /\ Weighed(s.policy, 30) = 30
  BY DEF Agreed, Weighed, Uncompared
<1>2. /\ lone # "loss_date" => s.loss_date <= 0
      /\ lone # "insured" => s.insured <= 0
      /\ lone # "claimant" => s.claimant <= 0
      /\ lone # "location" => s.location <= 0
      /\ lone # "description" => s.description <= 0
      /\ lone # "external_reference" => s.external_reference <= 0
      /\ lone # "assets" => s.assets <= 0
  BY DEF PairOfSignals
<1>3. /\ lone # "loss_date" => Agreed(s.loss_date, 25) = 0
      /\ lone # "insured" => Agreed(s.insured, 15) = 0
      /\ lone # "claimant" => Agreed(s.claimant, 10) = 0
      /\ lone # "location" => Agreed(s.location, 20) = 0
      /\ lone # "description" => Agreed(s.description, 20) = 0
      /\ lone # "external_reference" => Agreed(s.external_reference, 30) = 0
      /\ lone # "assets" => Agreed(s.assets, 8) = 0
  BY <1>2, PairParts DEF Part
<1>4. lone \in {"loss_date", "insured", "claimant", "location",
                "description", "external_reference", "assets"}
  BY DEF PairOfSignals
<1>5. PairScore(s).agreed <= 1800 /\ 60 * PairScore(s).of >= 1800 + PairScore(s).agreed
  <2>1. CASE lone = "loss_date"
    BY <1>1, <1>3, <2>1, PairParts DEF Part, PairScore
  <2>2. CASE lone = "insured"
    BY <1>1, <1>3, <2>2, PairParts DEF Part, PairScore
  <2>3. CASE lone = "claimant"
    BY <1>1, <1>3, <2>3, PairParts DEF Part, PairScore
  <2>4. CASE lone = "location"
    BY <1>1, <1>3, <2>4, PairParts DEF Part, PairScore
  <2>5. CASE lone = "description"
    BY <1>1, <1>3, <2>5, PairParts DEF Part, PairScore
  <2>6. CASE lone = "external_reference"
    BY <1>1, <1>3, <2>6, PairParts DEF Part, PairScore
  <2>7. CASE lone = "assets"
    BY <1>1, <1>3, <2>7, PairParts DEF Part, PairScore
  <2>8. QED
    BY <1>4, <2>1, <2>2, <2>3, <2>4, <2>5, <2>6, <2>7
<1>6. PairScore(s).agreed \in Int /\ PairScore(s).of \in Int
  BY PairParts DEF Part, PairScore
<1>7. QED
  BY <1>5, <1>6 DEF RoundedReaches, DuplicateThreshold, Full

-----------------------------------------------------------------------------
(* A notice and another report.                                            *)
LEMMA ReportColumns ==
  ASSUME NEW o, IsReport(o)
  PROVE  /\ o.policy_number \in {None} \cup Numbers
         /\ o.insured_name \in {None} \cup Names
         /\ o.claimant_name \in {None} \cup Names
         /\ o.date_of_loss \in {None} \cup Nat
         /\ o.loss_location \in {None} \cup SUBSET Words
         /\ o.loss_description \in {None} \cup SUBSET Words
         /\ o.affected_assets \in {None} \cup SUBSET Words
<1>1. \A c \in {"policy_number", "insured_name", "claimant_name", "date_of_loss",
                "loss_location", "loss_description", "affected_assets",
                "external_reference"} : o[c] \in Facts[c]
  BY DEF IsReport
<1>2. QED
  BY <1>1 DEF Facts

LEMMA DateBounds ==
  ASSUME NEW x \in Nat, NEW y \in Nat
  PROVE  DateSignal(x, y) \in 0 .. Full
<1> DEFINE g == Gap(x, y)
<1>1. g \in Nat
  BY DEF Gap
<1> HIDE DEF g
<1>2. g <= 96 => 0 <= g \div 24 /\ g \div 24 <= 4
  BY <1>1
<1>3. g \div 24 \in Int
  BY <1>1
<1>4. QED
  BY <1>2, <1>3 DEF DateSignal, Full, g

LEMMA PairType ==
  ASSUME NEW n, IsNotice(n), NEW o, IsReport(o), NEW policy
  PROVE  PairSignals(n, policy, o) \in PairOfSignals
<1> DEFINE s == PairSignals(n, policy, o)
<1>1. /\ n.insured_name \in {None} \cup Names
      /\ n.claimant_name \in {None} \cup Names
      /\ n.date_of_loss \in {None} \cup Nat
      /\ n.loss_location \in {None} \cup SUBSET Words
      /\ n.loss_description \in {None} \cup SUBSET Words
      /\ n.affected_assets \in {None} \cup SUBSET Words
  BY Columns
<1>2. /\ o.insured_name \in {None} \cup Names
      /\ o.claimant_name \in {None} \cup Names
      /\ o.date_of_loss \in {None} \cup Nat
      /\ o.loss_location \in {None} \cup SUBSET Words
      /\ o.loss_description \in {None} \cup SUBSET Words
      /\ o.affected_assets \in {None} \cup SUBSET Words
  BY ReportColumns
<1>3. s.policy \in Signal
  BY DEF PairSignals, PolicySignal, Same, Signal, Full
<1>4. s.loss_date \in Signal
  <2>1. n.date_of_loss # None /\ o.date_of_loss # None
          => DateSignal(n.date_of_loss, o.date_of_loss) \in 0 .. Full
    BY <1>1, <1>2, DateBounds
  <2>2. QED
    BY <2>1, ComparedBounds DEF PairSignals
<1>5. s.insured \in Signal
  <2>1. n.insured_name # None /\ o.insured_name # None
          => NameSimilarity(n.insured_name, o.insured_name) \in 0 .. Full
    BY <1>1, <1>2, NameBounds
  <2>2. QED
    BY <2>1, ComparedBounds DEF PairSignals
<1>6. s.claimant \in Signal
  <2> DEFINE x == Or(n.claimant_name, n.insured_name)
             y == Or(o.claimant_name, o.insured_name)
  <2>1. x \in {None} \cup Names /\ y \in {None} \cup Names
    BY <1>1, <1>2 DEF Or
  <2> HIDE DEF x, y
  <2>2. x # None /\ y # None => NameSimilarity(x, y) \in 0 .. Full
    BY <2>1, NameBounds
  <2>3. Compared(x, y, NameSimilarity(x, y)) \in Signal
    BY <2>2, ComparedBounds
  <2>4. QED
    BY <2>3 DEF PairSignals, x, y
<1>7. s.location \in Signal
  <2>1. n.loss_location # None /\ o.loss_location # None
          => Containment(n.loss_location, o.loss_location) \in 0 .. Full
    BY <1>1, <1>2, TextBounds
  <2>2. QED
    BY <2>1, ComparedBounds DEF PairSignals
<1>8. s.description \in Signal
  <2>1. n.loss_description # None /\ o.loss_description # None
          => Jaccard(n.loss_description, o.loss_description) \in 0 .. Full
    BY <1>1, <1>2, TextBounds
  <2>2. QED
    BY <2>1, ComparedBounds DEF PairSignals
<1>9. s.assets \in Signal
  <2>1. n.affected_assets # None /\ o.affected_assets # None
          => Jaccard(n.affected_assets, o.affected_assets) \in 0 .. Full
    BY <1>1, <1>2, TextBounds
  <2>2. QED
    BY <2>1, ComparedBounds DEF PairSignals
<1>10. s.external_reference \in Signal
  BY DEF PairSignals, Compared, Same, Signal, Full
<1>11. QED
  BY <1>3, <1>4, <1>5, <1>6, <1>7, <1>8, <1>9, <1>10 DEF PairSignals, PairOfSignals

(* A name with words of its own is wholly like itself.                     *)
LEMMA OwnLikeness ==
  ASSUME NEW x \in Names, NormaliseOrganisation(x) # {}
  PROVE  NameSimilarity(x, x) = Full
<1> DEFINE own == {i \in DOMAIN x : x[i] \notin CompanyForms}
<1>1. x \in Seq(Words)
  BY LikenessAssumption
<1>2. PICK i \in DOMAIN x : SubSeq(x, 1, i) \in NormaliseOrganisation(x)
  BY DEF NormaliseOrganisation
<1>3. i \in 1 .. Len(x)
  BY <1>1
<1>4. SubSeq(x, 1, i) \in Seq(Words) /\ Len(SubSeq(x, 1, i)) = i
  BY <1>1, <1>3
<1>5. 1 \in DOMAIN SubSeq(x, 1, i)
  BY <1>3, <1>4
<1>6. SubSeq(x, 1, i)[1] \in WordsOf(SubSeq(x, 1, i))
  BY <1>5 DEF WordsOf
<1>7. UNION {WordsOf(n) : n \in NormaliseOrganisation(x)} # {}
  BY <1>2, <1>6
<1>8. QED
  BY <1>7 DEF NameSimilarity

LEMMA SameWithin ==
  ASSUME NEW S, NEW a \in Seq(S)
  PROVE  Within(a, a)
<1>1. Len(a) \in Nat /\ 0 \in 0 .. (Len(a) - Len(a))
  OBVIOUS
<1>2. SubSeq(a, 0 + 1, 0 + Len(a)) = a
  <2>1. 0 + 1 = 1 /\ 0 + Len(a) = Len(a)
    BY <1>1
  <2>2. SubSeq(a, 1, Len(a)) = a
    OBVIOUS
  <2>3. QED
    BY <2>1, <2>2
<1>3. QED
  BY <1>1, <1>2 DEF Within

-----------------------------------------------------------------------------
(* What one run of the pipeline leaves behind.                             *)
Fields(d) ==
  d = [notice |-> d.notice, corrected |-> d.corrected, policy |-> d.policy,
       confirmed |-> d.confirmed, matches |-> d.matches,
       duplicates |-> d.duplicates, hold |-> d.hold]

Rows == {None} \cup MatchRow

LEMMA ReadNotice ==
  ASSUME NEW d, IsDesk(d), NEW reading \in Readings, NEW line \in Lines
  PROVE  /\ IsDesk(Read(d, reading, line))
         /\ Read(d, reading, line) =
              [d EXCEPT !.notice = Read(d, reading, line).notice]
<1> DEFINE e == Read(d, reading, line)
           n == [c \in DOMAIN d.notice |->
                   IF c = "line_of_business" THEN line
                   ELSE IF c \in ReadColumns \ d.corrected /\ reading[c] # None
                     THEN reading[c]
                   ELSE d.notice[c]]
<1>1. Fields(d)
  BY DEF IsDesk, Fields
<1>2. e = [d EXCEPT !.notice = n]
  BY <1>1 DEF Read, Fields
<1>3. IsNotice(d.notice) /\ IsNotice(reading) /\ line \in STRING
  BY MatchingAssumption DEF IsDesk
<1>4. DOMAIN d.notice = DOMAIN Facts
  BY <1>3 DEF IsNotice
<1>5. IsNotice(n)
  <2>1. n = [c \in DOMAIN Facts |-> n[c]]
    BY <1>4
  <2>2. \A c \in DOMAIN Facts : n[c] \in Facts[c]
    <3> SUFFICES ASSUME NEW c \in DOMAIN Facts PROVE n[c] \in Facts[c]
      OBVIOUS
    <3>1. d.notice[c] \in Facts[c] /\ reading[c] \in Facts[c]
      BY <1>3 DEF IsNotice
    <3>2. c = "line_of_business" => line \in Facts[c]
      BY <1>3 DEF Facts
    <3>3. QED
      BY <1>4, <3>1, <3>2
  <2>3. QED
    BY <2>1, <2>2 DEF IsNotice
<1> HIDE DEF n
<1>6. IsDesk(e)
  BY <1>2, <1>5 DEF IsDesk
<1>7. e.notice = n
  BY <1>1, <1>2 DEF Fields
<1>8. QED
  BY <1>2, <1>6, <1>7


(* The candidates worth showing, and who is ahead of one.                  *)
Viable(n) ==
  {p \in FindCandidates(n) :
     /\ Identified(Signals(n, Book[p]))
     /\ RoundedReaches(ScoreOf(n, p), PolicyCandidateThreshold)}

Ahead(n, p) ==
  {q \in Viable(n) : \/ Rounded(ScoreOf(n, q)) > Rounded(ScoreOf(n, p))
                     \/ /\ Rounded(ScoreOf(n, q)) = Rounded(ScoreOf(n, p))
                        /\ Before(q, p)}

LEMMA Ranked ==
  ASSUME NEW n
  PROVE  RankCandidates(n) =
           [p \in {p \in Viable(n) : Cardinality(Ahead(n, p)) < MaxShown} |->
              [strength |-> Strength(Signals(n, Book[p])),
               rank     |-> Cardinality(Ahead(n, p)),
               high     |-> RoundedReaches(ScoreOf(n, p), PolicyHighThreshold)]]
<1> DEFINE scores == [p \in FindCandidates(n) |-> ScoreOf(n, p)]
           viable == {p \in DOMAIN scores :
                        /\ Identified(Signals(n, Book[p]))
                        /\ RoundedReaches(scores[p], PolicyCandidateThreshold)}
           values == [p \in viable |-> Rounded(scores[p])]
           ahead  == [p \in viable |->
                        {q \in viable : \/ values[q] > values[p]
                                        \/ values[q] = values[p] /\ Before(q, p)}]
           shown == {p \in viable : Cardinality(ahead[p]) < MaxShown}
<1>1. viable = Viable(n)
  BY DEF Viable
<1>2. \A p \in viable : values[p] = Rounded(ScoreOf(n, p))
  OBVIOUS
<1>3. \A p \in viable : ahead[p] = Ahead(n, p)
  <2> SUFFICES ASSUME NEW p \in viable PROVE ahead[p] = Ahead(n, p)
    OBVIOUS
  <2>1. ahead[p] = {q \in viable : \/ values[q] > values[p]
                                   \/ values[q] = values[p] /\ Before(q, p)}
    OBVIOUS
  <2> HIDE DEF values, viable
  <2>2. QED
    BY <1>1, <1>2, <2>1 DEF Ahead
<1>4. RankCandidates(n) =
        [p \in shown |->
           [strength |-> Strength(Signals(n, Book[p])),
            rank     |-> Cardinality(ahead[p]),
            high     |-> RoundedReaches(scores[p], PolicyHighThreshold)]]
  BY DEF RankCandidates
<1>5. \A p \in viable : scores[p] = ScoreOf(n, p)
  OBVIOUS
<1> HIDE DEF viable, values, ahead, scores
<1>6. shown = {p \in Viable(n) : Cardinality(Ahead(n, p)) < MaxShown}
  BY <1>1, <1>3
<1>7. QED
  BY <1>1, <1>3, <1>4, <1>5, <1>6

LEMMA AheadIsFinite ==
  ASSUME NEW n, NEW p
  PROVE  /\ Viable(n) \subseteq Policies
         /\ IsFiniteSet(Ahead(n, p)) /\ Cardinality(Ahead(n, p)) \in Nat
<1>1. Viable(n) \subseteq Policies
  BY DEF Viable, FindCandidates, Narrowed
<1>2. Ahead(n, p) \subseteq Policies
  BY <1>1 DEF Ahead
<1>3. QED
  BY <1>1, <1>2, FS_Subset, FS_CardinalityType, MatchingAssumption

(* There is one best candidate.                                            *)
LEMMA RoundedType ==
  ASSUME NEW n, IsNotice(n), NEW p \in Policies
  PROVE  Rounded(ScoreOf(n, p)) \in Int
<1>1. Book[p] \in PolicyRow
  BY MatchingAssumption
<1>2. Signals(n, Book[p]) \in PolicySignals
  BY <1>1, SignalsType DEF PolicySignals
<1>3. \A s \in PolicySignals : PolicyScore(s).agreed \in Int /\ PolicyScore(s).of \in Int /\ PolicyScore(s).of >= 0
  BY PolicyParts DEF Part, PolicyScore
<1>4. \A a, b \in Int : b > 0 => (20000 * a + 60 * b) \div (2 * 60 * b) \in Int
  OBVIOUS
<1>5. QED
  BY <1>2, <1>3, <1>4 DEF Rounded, ScoreOf, Full

LEMMA OneLeader ==
  ASSUME NEW n, IsNotice(n),
         NEW p \in Viable(n), Cardinality(Ahead(n, p)) = 0,
         NEW q \in Viable(n), Cardinality(Ahead(n, q)) = 0
  PROVE  p = q
<1>1. Ahead(n, p) = {} /\ Ahead(n, q) = {}
  BY AheadIsFinite, FS_EmptySet
<1>2. p \in Policies /\ q \in Policies
  BY AheadIsFinite
<1>3. Rounded(ScoreOf(n, p)) \in Int /\ Rounded(ScoreOf(n, q)) \in Int
  BY <1>2, RoundedType
<1>4. Rounded(ScoreOf(n, p)) = Rounded(ScoreOf(n, q))
  BY <1>1, <1>3 DEF Ahead
<1>5. ~ Before(p, q) /\ ~ Before(q, p)
  BY <1>1, <1>4 DEF Ahead
<1>6. QED
  BY <1>2, <1>5, MatchingAssumption

(* What a run writes about the policies.                                   *)
LEMMA MatchType ==
  ASSUME NEW d, IsDesk(d)
  PROVE  /\ IsDesk(Match(d))
         /\ Match(d) = [d EXCEPT !.matches = Match(d).matches, !.policy = Match(d).policy]
         /\ \A p \in Policies : Match(d).matches[p] = Row(d, RankCandidates(d.notice), p)
         /\ Match(d).policy =
              IF OverallStrength(RankCandidates(d.notice)) = "exact" /\ ~ d.confirmed
                THEN Best(RankCandidates(d.notice)) ELSE d.policy
<1> DEFINE ranked == RankCandidates(d.notice)
           rows == [p \in Policies |-> Row(d, ranked, p)]
           bound == IF OverallStrength(ranked) = "exact" /\ ~ d.confirmed
                      THEN Best(ranked) ELSE d.policy
<1>1. Fields(d)
  BY DEF IsDesk, Fields
<1>2. Match(d) = [d EXCEPT !.matches = rows, !.policy = bound]
  BY <1>1 DEF Match, Fields
<1>3. \A p \in DOMAIN ranked :
        /\ p \in Policies
        /\ ranked[p].rank \in Nat
        /\ ranked[p].strength \in {"none", "possible", "high", "exact"}
  BY Ranked, AheadIsFinite DEF Strength
<1>4. d.matches \in [Policies -> Rows]
  BY DEF IsDesk, Rows
<1>5. \A p \in Policies : Chosen(d, p) \in BOOLEAN
  BY <1>4 DEF Chosen, Rows
<1> HIDE DEF ranked
<1>6. \A p \in Policies : Row(d, ranked, p) \in Rows
  <2> SUFFICES ASSUME NEW p \in Policies PROVE Row(d, ranked, p) \in Rows
    OBVIOUS
  <2>1. CASE p \in DOMAIN ranked
    BY <1>3, <1>5, <2>1 DEF Row, Rows, MatchRow
  <2>2. CASE p \notin DOMAIN ranked
    BY <1>4, <2>2 DEF Row, Rows
  <2>3. QED
    BY <2>1, <2>2
<1>7. rows \in [Policies -> Rows]
  BY <1>6
<1>8. bound \in Policies \cup {None}
  <2>1. CASE OverallStrength(ranked) = "exact" /\ ~ d.confirmed
    <3>1. Leaders(ranked) # {}
      BY <2>1 DEF OverallStrength
    <3>2. Best(ranked) \in Leaders(ranked)
      BY <3>1 DEF Best
    <3>3. QED
      BY <1>3, <2>1, <3>2 DEF Leaders
  <2>2. CASE ~ (OverallStrength(ranked) = "exact" /\ ~ d.confirmed)
    BY <2>2 DEF IsDesk
  <2>3. QED
    BY <2>1, <2>2
<1> HIDE DEF rows, bound
<1>9. /\ Match(d) = [notice |-> d.notice, corrected |-> d.corrected, policy |-> bound,
                     confirmed |-> d.confirmed, matches |-> rows,
                     duplicates |-> d.duplicates, hold |-> d.hold]
  BY <1>1, <1>2 DEF Fields
<1>10. Match(d).matches = rows /\ Match(d).policy = bound
  BY <1>9
<1>11. IsDesk(Match(d))
  BY <1>7, <1>8, <1>9 DEF IsDesk, Rows
<1>12. QED
  BY <1>2, <1>10, <1>11 DEF rows, bound, ranked

(* What a scan writes about the other reports, and the hold that follows.  *)
LEMMA DetectType ==
  ASSUME NEW d, IsDesk(d), NEW there
  PROVE  /\ IsDesk(Detect(d, there))
         /\ Detect(d, there) = [d EXCEPT !.duplicates = Detect(d, there).duplicates]
         /\ \A o \in Reports :
              Detect(d, there).duplicates[o] =
                IF o \in Alike(d, there) /\ d.duplicates[o] = "absent" THEN "unresolved"
                ELSE IF o \notin Alike(d, there) /\ d.duplicates[o] = "unresolved"
                  THEN "absent"
                ELSE d.duplicates[o]
<1> DEFINE States == {"absent", "unresolved"} \cup Resolutions
           column == [o \in Reports |->
                IF o \in Alike(d, there) /\ d.duplicates[o] = "absent" THEN "unresolved"
                ELSE IF o \notin Alike(d, there) /\ d.duplicates[o] = "unresolved"
                  THEN "absent"
                ELSE d.duplicates[o]]
<1>1. Fields(d)
  BY DEF IsDesk, Fields
<1>2. Detect(d, there) = [d EXCEPT !.duplicates = column]
  BY <1>1 DEF Detect, Fields
<1>3. d.duplicates \in [Reports -> States]
  BY DEF IsDesk
<1>4. column \in [Reports -> States]
  BY <1>3
<1> HIDE DEF column
<1>5. Detect(d, there) =
        [notice |-> d.notice, corrected |-> d.corrected, policy |-> d.policy,
         confirmed |-> d.confirmed, matches |-> d.matches,
         duplicates |-> column, hold |-> d.hold]
  BY <1>1, <1>2 DEF Fields
<1>6. IsDesk(Detect(d, there))
  BY <1>4, <1>5 DEF IsDesk
<1>7. Detect(d, there).duplicates = column
  BY <1>5
<1>8. QED
  BY <1>2, <1>6, <1>7 DEF column

LEMMA RaiseType ==
  ASSUME NEW d, IsDesk(d)
  PROVE  /\ IsDesk(Raise(d))
         /\ Raise(d) = [notice |-> d.notice, corrected |-> d.corrected,
                        policy |-> d.policy, confirmed |-> d.confirmed,
                        matches |-> d.matches, duplicates |-> d.duplicates,
                        hold |-> Raise(d).hold]
         /\ Undecided(d) # {} => Raise(d).hold # "absent"
         /\ Raise(d).hold = "open" => Undecided(d) # {}
<1> DEFINE hold == IF Undecided(d) # {} /\ d.hold = "absent" THEN "open"
                   ELSE IF Undecided(d) = {} /\ d.hold = "open" THEN "absent"
                   ELSE d.hold
<1>1. Fields(d)
  BY DEF IsDesk, Fields
<1>2. Raise(d) = [d EXCEPT !.hold = hold]
  BY <1>1 DEF Raise, Fields
<1>3. d.hold \in {"absent", "open", "closed"}
  BY DEF IsDesk
<1>4. /\ hold \in {"absent", "open", "closed"}
      /\ Undecided(d) # {} => hold # "absent"
      /\ hold = "open" => Undecided(d) # {}
  BY <1>3
<1> HIDE DEF hold
<1>5. Raise(d) =
        [notice |-> d.notice, corrected |-> d.corrected, policy |-> d.policy,
         confirmed |-> d.confirmed, matches |-> d.matches,
         duplicates |-> d.duplicates, hold |-> hold]
  BY <1>1, <1>2 DEF Fields
<1>6. IsDesk(Raise(d))
  BY <1>4, <1>5 DEF IsDesk
<1>7. Raise(d).hold = hold
  BY <1>5
<1>8. QED
  BY <1>4, <1>5, <1>6, <1>7

(* A candidate is marked as chosen only when an officer has confirmed one. *)
ChosenIsConfirmed(d) == \A p \in Policies : Chosen(d, p) => d.confirmed

Listed(d) == \A p \in DOMAIN RankCandidates(d.notice) : d.matches[p] # None

Asked(d, there) ==
  /\ \A o \in Alike(d, there) \cap Reports : d.duplicates[o] # "absent"
  /\ Undecided(d) \subseteq Alike(d, there)

HoldStands(d) ==
  /\ Undecided(d) # {} => d.hold # "absent"
  /\ d.hold = "open" =>
       \E o \in Reports : d.duplicates[o] \in {"unresolved", "duplicate"}

LEMMA MatchBinds ==
  ASSUME NEW d, IsDesk(d), ChosenIsConfirmed(d)
  PROVE  /\ ChosenIsConfirmed(Match(d))
         /\ Listed(Match(d))
         /\ (Match(d).policy # d.policy /\ ~ d.confirmed) => BoundAlone(Match(d))
<1> DEFINE e == Match(d)
           n == d.notice
           ranked == RankCandidates(n)
<1>1. Fields(d) /\ IsNotice(n)
  BY DEF IsDesk, Fields
<1>2. e.notice = n /\ e.confirmed = d.confirmed
  BY <1>1, MatchType DEF Fields
<1>3. \A p \in Policies : e.matches[p] = Row(d, ranked, p)
  BY MatchType
<1>4. d.matches \in [Policies -> Rows]
  BY DEF IsDesk, Rows
<1>5. DOMAIN ranked \subseteq Policies
  BY Ranked, AheadIsFinite
<1>6. ASSUME NEW p \in DOMAIN ranked
      PROVE  \E chosen \in BOOLEAN :
               /\ chosen => Chosen(d, p)
               /\ e.matches[p] = [strength |-> ranked[p].strength,
                                  rank |-> ranked[p].rank, selected |-> chosen]
  <2>1. p \in Policies
    BY <1>5, <1>6
  <2>2. CASE Chosen(d, p)
    <3>1. Chosen(d, p) = TRUE
      BY <1>4, <2>1, <2>2 DEF Chosen, Rows, MatchRow
    <3>2. e.matches[p] = [strength |-> ranked[p].strength,
                          rank |-> ranked[p].rank, selected |-> TRUE]
      BY <1>3, <1>6, <2>1, <3>1 DEF Row
    <3>3. QED
      BY <2>2, <3>2
  <2>3. CASE ~ Chosen(d, p)
    <3>1. Chosen(d, p) = FALSE
      BY <1>4, <2>1, <2>3 DEF Chosen, Rows, MatchRow
    <3>2. e.matches[p] = [strength |-> ranked[p].strength,
                          rank |-> ranked[p].rank, selected |-> FALSE]
      BY <1>3, <1>6, <2>1, <3>1 DEF Row
    <3>3. QED
      BY <3>2
  <2>4. QED
    BY <2>2, <2>3
<1>7. ASSUME NEW p \in Policies, p \notin DOMAIN ranked, e.matches[p] # None
      PROVE  e.matches[p] = d.matches[p] /\ Chosen(d, p)
  BY <1>3, <1>7 DEF Row
<1>8. ChosenIsConfirmed(e)
  <2> SUFFICES ASSUME NEW p \in Policies, Chosen(e, p) PROVE d.confirmed
    BY <1>2 DEF ChosenIsConfirmed
  <2>1. e.matches[p] # None /\ e.matches[p].selected
    BY DEF Chosen
  <2>2. CASE p \in DOMAIN ranked
    <3>1. PICK chosen \in BOOLEAN :
                 /\ chosen => Chosen(d, p)
                 /\ e.matches[p] = [strength |-> ranked[p].strength,
                                    rank |-> ranked[p].rank, selected |-> chosen]
      BY <1>6, <2>2
    <3>2. e.matches[p].selected = chosen
      BY <3>1
    <3>3. Chosen(d, p)
      BY <2>1, <3>1, <3>2
    <3>4. QED
      BY <3>3 DEF ChosenIsConfirmed
  <2>3. CASE p \notin DOMAIN ranked
    BY <1>7, <2>1, <2>3 DEF ChosenIsConfirmed
  <2>4. QED
    BY <2>2, <2>3
<1>9. Listed(e)
  <2>1. \A p \in DOMAIN ranked : e.matches[p] # None
    <3> SUFFICES ASSUME NEW p \in DOMAIN ranked PROVE e.matches[p] # None
      OBVIOUS
    <3>1. /\ ranked[p].strength \in {"none", "possible", "high", "exact"}
          /\ ranked[p].rank \in Nat
      BY Ranked, AheadIsFinite DEF Strength
    <3>2. PICK chosen \in BOOLEAN :
                 /\ chosen => Chosen(d, p)
                 /\ e.matches[p] = [strength |-> ranked[p].strength,
                                    rank |-> ranked[p].rank, selected |-> chosen]
      BY <1>6
    <3>3. e.matches[p] \in MatchRow
      BY <3>1, <3>2 DEF MatchRow
    <3>4. QED
      BY <3>3, MatchingAssumption
  <2>2. QED
    BY <1>2, <2>1 DEF Listed
<1>10. ASSUME e.policy # d.policy, ~ d.confirmed
       PROVE  BoundAlone(e)
  <2> DEFINE p == Best(ranked)
  <2>1. OverallStrength(ranked) = "exact" /\ e.policy = p
    BY <1>10, MatchType
  <2>2. p \in Leaders(ranked)
    BY <2>1 DEF OverallStrength, Best
  <2> HIDE DEF p
  <2>3. p \in DOMAIN ranked /\ ranked[p].rank = 0 /\ p \in Policies
    BY <1>5, <2>2 DEF Leaders
  <2>4. ranked[p].strength = "exact"
    BY <2>1, <2>2 DEF OverallStrength, p
  <2>5. \A q \in DOMAIN ranked : ~ (ranked[q].rank > 0 /\ ranked[q].high)
    BY <2>1, <2>2 DEF OverallStrength
  <2>6. Strength(Signals(n, Book[p])) = "exact"
    BY <2>3, <2>4, Ranked
  <2>7. Signals(n, Book[p]).policy_number = Full /\ Signals(n, Book[p]).in_force # 0
    BY <2>6 DEF Strength
  <2>8. SameNumber(n, Book[p])
    <3>1. Book[p].policy_number \in Numbers
      BY <2>3, MatchingAssumption DEF PolicyRow
    <3>2. n.policy_number # None
      BY <2>7 DEF Signals, Uncompared, Full
    <3>3. NumberSignal(n.policy_number, Book[p].policy_number) = 60
      BY <2>7, <3>2 DEF Signals, Full
    <3>4. n.policy_number.digits = Book[p].policy_number.digits
      BY <3>3 DEF NumberSignal
    <3>5. QED
      BY <3>1, <3>2, <3>4, LikenessAssumption DEF SameNumber
  <2>9. n.date_of_loss = None \/ InForce(n.date_of_loss, Book[p])
    BY <2>7 DEF Signals
  <2>10. ASSUME NEW q \in Policies \ {p}, e.matches[q] # None
         PROVE  ~ RoundedReaches(ScoreOf(n, q), PolicyHighThreshold)
    <3>1. q \in DOMAIN ranked
      BY <1>7, <1>10, <2>10 DEF ChosenIsConfirmed
    <3>2. /\ p \in Viable(n) /\ Cardinality(Ahead(n, p)) = 0
          /\ q \in Viable(n) /\ ranked[q].rank = Cardinality(Ahead(n, q))
          /\ ranked[q].high = RoundedReaches(ScoreOf(n, q), PolicyHighThreshold)
      BY <2>3, <3>1, Ranked
    <3>3. Cardinality(Ahead(n, q)) # 0
      BY <1>1, <2>10, <3>2, OneLeader
    <3>4. ranked[q].rank > 0
      BY <3>2, <3>3, AheadIsFinite
    <3>5. QED
      BY <2>5, <3>1, <3>2, <3>4
  <2>11. QED
    BY <1>2, <2>1, <2>8, <2>9, <2>10 DEF BoundAlone
<1>11. QED
  BY <1>8, <1>9, <1>10


LEMMA RunLeaves ==
  ASSUME NEW d, IsDesk(d), ChosenIsConfirmed(d),
         NEW there, there \subseteq Reports, NEW e \in Runs(d, there)
  PROVE  /\ IsDesk(e) /\ ChosenIsConfirmed(e)
         /\ Listed(e) /\ Asked(e, there) /\ HoldStands(e)
         /\ e.confirmed = d.confirmed
         /\ (e.policy # d.policy /\ ~ e.confirmed) => BoundAlone(e)
<1>1. PICK reading \in Readings, line \in Lines :
        e = Raise(Detect(Match(Read(d, reading, line)), there))
  BY DEF Runs
<1> DEFINE r == Read(d, reading, line)
           m == Match(r)
           t == Detect(m, there)
<1>2. e = Raise(t)
  BY <1>1
<1>3. IsDesk(r) /\ r = [d EXCEPT !.notice = r.notice]
  BY ReadNotice
<1> HIDE DEF r
<1>4. r.policy = d.policy /\ r.confirmed = d.confirmed /\ r.matches = d.matches
  BY <1>3 DEF IsDesk
<1>5. ChosenIsConfirmed(r)
  BY <1>4 DEF ChosenIsConfirmed, Chosen
<1>6. /\ IsDesk(m) /\ ChosenIsConfirmed(m) /\ Listed(m)
      /\ (m.policy # r.policy /\ ~ r.confirmed) => BoundAlone(m)
  BY <1>3, <1>5, MatchType, MatchBinds
<1>7. m.confirmed = r.confirmed
  <2>1. m = [r EXCEPT !.matches = m.matches, !.policy = m.policy]
    BY <1>3, MatchType
  <2> HIDE DEF m
  <2>2. QED
    BY <1>3, <2>1 DEF IsDesk
<1> HIDE DEF m
<1>8. /\ IsDesk(t) /\ t = [m EXCEPT !.duplicates = t.duplicates]
      /\ \A o \in Reports :
           t.duplicates[o] =
             IF o \in Alike(m, there) /\ m.duplicates[o] = "absent" THEN "unresolved"
             ELSE IF o \notin Alike(m, there) /\ m.duplicates[o] = "unresolved"
               THEN "absent"
             ELSE m.duplicates[o]
  BY <1>6, DetectType
<1> HIDE DEF t
<1>9. /\ IsDesk(e)
      /\ e = [notice |-> t.notice, corrected |-> t.corrected, policy |-> t.policy,
              confirmed |-> t.confirmed, matches |-> t.matches,
              duplicates |-> t.duplicates, hold |-> e.hold]
      /\ Undecided(t) # {} => e.hold # "absent"
      /\ e.hold = "open" => Undecided(t) # {}
  BY <1>2, <1>8, RaiseType
<1>10. /\ e.notice = m.notice /\ e.policy = m.policy /\ e.confirmed = m.confirmed
       /\ e.matches = m.matches /\ e.duplicates = t.duplicates
  <2>1. /\ t.notice = m.notice /\ t.policy = m.policy /\ t.confirmed = m.confirmed
        /\ t.matches = m.matches
    BY <1>6, <1>8 DEF IsDesk
  <2>2. QED
    BY <1>9, <2>1
<1>11. ChosenIsConfirmed(e) /\ Listed(e)
  BY <1>6, <1>10 DEF ChosenIsConfirmed, Chosen, Listed
<1>12. Alike(e, there) = Alike(m, there) /\ Undecided(e) = Undecided(t)
  BY <1>10 DEF Alike, Scanned, ScanPool, PairOf, Undecided
<1>13. Asked(e, there)
  <2>1. \A o \in Reports : m.duplicates[o] = "unresolved" => m.duplicates[o] # "absent"
    OBVIOUS
  <2>2. \A o \in Alike(e, there) \cap Reports : e.duplicates[o] # "absent"
    BY <1>8, <1>10, <1>12
  <2>3. Undecided(e) \subseteq Alike(e, there)
    BY <1>8, <1>10, <1>12 DEF Undecided
  <2>4. QED
    BY <2>2, <2>3 DEF Asked
<1>14. HoldStands(e)
  BY <1>9, <1>12 DEF HoldStands, Undecided
<1>15. (e.policy # d.policy /\ ~ e.confirmed) => BoundAlone(e)
  BY <1>4, <1>6, <1>7, <1>10 DEF BoundAlone
<1>16. QED
  BY <1>4, <1>7, <1>9, <1>10, <1>11, <1>13, <1>14, <1>15

(* What a confirmation leaves.                                             *)
LEMMA SelectType ==
  ASSUME NEW d, IsDesk(d), NEW p \in Policies, d.matches[p] # None
  PROVE  IsDesk(Select(d, p)) /\ ChosenIsConfirmed(Select(d, p))
         /\ Select(d, p).confirmed = TRUE
<1> DEFINE e == Select(d, p)
           rows == [q \in Policies |->
                      IF d.matches[q] = None THEN None
                      ELSE [d.matches[q] EXCEPT !.selected = q = p]]
           n == [d.notice EXCEPT !.policy_number = Book[p].policy_number,
                   !.insured_name = Or(d.notice.insured_name, Book[p].insured_name)]
<1>1. Fields(d) /\ IsNotice(d.notice)
  BY DEF IsDesk, Fields
<1>2. DOMAIN d.notice = DOMAIN Facts
  BY <1>1 DEF IsNotice
<1>3. "policy_number" \in DOMAIN Facts /\ "insured_name" \in DOMAIN Facts
  BY DEF Facts
<1>4. e = [notice |-> n, corrected |-> d.corrected, policy |-> p, confirmed |-> TRUE,
           matches |-> rows, duplicates |-> d.duplicates, hold |-> d.hold]
  <2>1. e = [d EXCEPT !.matches = rows, !.policy = p, !.confirmed = TRUE, !.notice = n]
    BY <1>1, <1>2, <1>3 DEF Select, Fields
  <2> HIDE DEF rows, n
  <2>2. QED
    BY <1>1, <2>1 DEF Fields
<1>5. d.matches \in [Policies -> Rows]
  BY DEF IsDesk, Rows
<1>6. rows \in [Policies -> Rows]
  <2> SUFFICES ASSUME NEW q \in Policies, d.matches[q] # None
               PROVE  [d.matches[q] EXCEPT !.selected = q = p] \in MatchRow
    BY DEF Rows
  <2>1. d.matches[q] \in MatchRow
    BY <1>5 DEF Rows
  <2>2. QED
    BY <2>1 DEF MatchRow
<1>7. IsNotice(n)
  <2>1. Book[p] \in PolicyRow
    BY MatchingAssumption
  <2>2. /\ Book[p].policy_number \in Facts["policy_number"]
        /\ Or(d.notice.insured_name, Book[p].insured_name) \in Facts["insured_name"]
    <3>1. d.notice.insured_name \in {None} \cup Names
      BY <1>1, Columns
    <3>2. QED
      BY <2>1, <3>1 DEF PolicyRow, Facts, Or
  <2>3. n = [c \in DOMAIN Facts |-> n[c]]
    BY <1>2
  <2>4. \A c \in DOMAIN Facts : n[c] \in Facts[c]
    <3> SUFFICES ASSUME NEW c \in DOMAIN Facts PROVE n[c] \in Facts[c]
      OBVIOUS
    <3>1. d.notice[c] \in Facts[c]
      BY <1>1 DEF IsNotice
    <3>2. QED
      BY <1>2, <2>2, <3>1
  <2>5. QED
    BY <2>3, <2>4 DEF IsNotice
<1> HIDE DEF n, rows
<1>8. IsDesk(e)
  BY <1>4, <1>6, <1>7 DEF IsDesk, Rows
<1>9. e.confirmed = TRUE
  BY <1>4
<1>10. QED
  BY <1>8, <1>9 DEF ChosenIsConfirmed

-----------------------------------------------------------------------------
(* The inductive invariant: the parts the properties follow from.          *)
Inv ==
  /\ TypeOK
  /\ ChosenIsConfirmed(desk)
  /\ HoldStands(desk)
  /\ fresh => Listed(desk) /\ Asked(desk, around)

LEMMA Initially == Init => Inv
<1> SUFFICES ASSUME Init PROVE Inv
  OBVIOUS
<1>1. PICK n \in Notices :
        desk = [notice |-> n, corrected |-> {}, policy |-> None, confirmed |-> FALSE,
                matches |-> [p \in Policies |-> None],
                duplicates |-> [o \in Reports |-> "absent"],
                hold |-> "absent"]
  BY DEF Init
<1>2. IsNotice(n)
  BY MatchingAssumption
<1>3. TypeOK
  BY <1>1, <1>2 DEF Init, TypeOK, IsDesk
<1>4. ChosenIsConfirmed(desk)
  BY <1>1 DEF ChosenIsConfirmed, Chosen
<1>5. HoldStands(desk)
  BY <1>1 DEF HoldStands, Undecided
<1>6. QED
  BY <1>3, <1>4, <1>5 DEF Inv, Init

(* A run of the pipeline establishes the invariant from any legal desk.    *)
LEMMA RunKeeps ==
  ASSUME Inv, NEW d, IsDesk(d), ChosenIsConfirmed(d), desk' \in Runs(d, around),
         around' = around, fresh' = TRUE
  PROVE  Inv'
<1>1. around \subseteq Reports
  BY DEF Inv, TypeOK
<1>2. /\ IsDesk(desk') /\ ChosenIsConfirmed(desk')
      /\ Listed(desk') /\ Asked(desk', around) /\ HoldStands(desk')
  BY <1>1, RunLeaves
<1>3. TypeOK'
  BY <1>1, <1>2 DEF TypeOK, IsDesk
<1>4. QED
  BY <1>2, <1>3 DEF Inv, ChosenIsConfirmed, Chosen, Listed, Asked, HoldStands,
                   Alike, Scanned, ScanPool, PairOf, Undecided


LEMMA EditedDesk ==
  ASSUME NEW d, IsDesk(d), NEW column \in DOMAIN Values, NEW value \in Values[column]
  PROVE  /\ IsDesk(Correct(d, column, value))
         /\ Correct(d, column, value).policy = d.policy
         /\ Correct(d, column, value).confirmed = d.confirmed
         /\ Correct(d, column, value).matches = d.matches
         /\ Correct(d, column, value).duplicates = d.duplicates
         /\ Correct(d, column, value).hold = d.hold
<1> DEFINE edited == Correct(d, column, value)
           n == [d.notice EXCEPT ![column] = value]
<1>1. Fields(d) /\ IsNotice(d.notice)
  BY DEF IsDesk, Fields
<1>2. column \in DOMAIN Facts /\ value \in Facts[column]
  BY MatchingAssumption
<1>3. edited = [notice |-> n, corrected |-> d.corrected \cup {column},
                policy |-> d.policy, confirmed |-> d.confirmed,
                matches |-> d.matches, duplicates |-> d.duplicates, hold |-> d.hold]
  <2>1. edited = [d EXCEPT !.notice = n, !.corrected = d.corrected \cup {column}]
    BY DEF Correct
  <2> HIDE DEF n, edited
  <2>2. QED
    BY <1>1, <2>1 DEF Fields
<1>4. IsNotice(n)
  <2>1. DOMAIN d.notice = DOMAIN Facts
    BY <1>1 DEF IsNotice
  <2>2. \A c \in DOMAIN Facts : n[c] \in Facts[c]
    BY <1>1, <1>2, <2>1 DEF IsNotice
  <2>3. n = [c \in DOMAIN Facts |-> n[c]]
    BY <2>1
  <2>4. QED
    BY <2>2, <2>3 DEF IsNotice
<1> HIDE DEF n
<1>5. IsDesk(edited)
  BY <1>3, <1>4 DEF IsDesk
<1>6. QED
  BY <1>3, <1>5

LEMMA ResolvedDesk ==
  ASSUME NEW d, IsDesk(d), HoldStands(d),
         NEW o \in Reports, d.duplicates[o] # "absent", NEW resolution \in Resolutions
  PROVE  LET e == Resolve(d, o, resolution)
         IN  /\ IsDesk(e) /\ HoldStands(e)
             /\ e.notice = d.notice /\ e.policy = d.policy
             /\ e.confirmed = d.confirmed /\ e.matches = d.matches
             /\ Undecided(e) \subseteq Undecided(d)
             /\ \A q \in Reports : d.duplicates[q] # "absent" => e.duplicates[q] # "absent"
<1> DEFINE e == Resolve(d, o, resolution)
           column == [d.duplicates EXCEPT ![o] = resolution]
           hold == IF /\ resolution # "duplicate"
                      /\ Outstanding(d, o) = {}
                      /\ d.hold = "open"
                   THEN "absent" ELSE d.hold
           States == {"absent", "unresolved"} \cup Resolutions
<1>1. Fields(d)
  BY DEF IsDesk, Fields
<1>2. e = [d EXCEPT !.duplicates = column, !.hold = hold]
  BY <1>1 DEF Resolve, Fields
<1>3. d.duplicates \in [Reports -> States] /\ d.hold \in {"absent", "open", "closed"}
  BY DEF IsDesk
<1>4. /\ column \in [Reports -> States]
      /\ column[o] = resolution
      /\ \A q \in Reports \ {o} : column[q] = d.duplicates[q]
  BY <1>3
<1>5. resolution \notin {"absent", "unresolved"}
  BY DEF Resolutions
<1>6. /\ hold \in {"absent", "open", "closed"}
      /\ hold = "open" => d.hold = "open"
      /\ hold = "absent" => d.hold = "absent" \/ Outstanding(d, o) = {}
      /\ hold = "open" => resolution = "duplicate" \/ Outstanding(d, o) # {}
  BY <1>3
<1> HIDE DEF hold, column
<1>7. e = [notice |-> d.notice, corrected |-> d.corrected, policy |-> d.policy,
           confirmed |-> d.confirmed, matches |-> d.matches,
           duplicates |-> column, hold |-> hold]
  BY <1>1, <1>2 DEF Fields
<1> HIDE DEF e
<1>8. IsDesk(e)
  BY <1>4, <1>6, <1>7 DEF IsDesk
<1>9. Undecided(e) = Outstanding(d, o)
  BY <1>4, <1>5, <1>7 DEF Undecided, Outstanding
<1>10. Undecided(e) # {} => e.hold # "absent"
  BY <1>6, <1>7, <1>9 DEF HoldStands, Outstanding
<1>11. ASSUME e.hold = "open"
       PROVE  \E q \in Reports : e.duplicates[q] \in {"unresolved", "duplicate"}
  <2>1. CASE resolution = "duplicate"
    BY <1>4, <1>7, <2>1
  <2>2. CASE Outstanding(d, o) # {}
    BY <1>4, <1>7, <2>2 DEF Outstanding, Undecided
  <2>3. QED
    BY <1>6, <1>7, <1>11, <2>1, <2>2
<1>12. QED
  BY <1>4, <1>5, <1>7, <1>8, <1>9, <1>10, <1>11 DEF HoldStands, e, Outstanding

LEMMA StepKeeps == Inv /\ [Next]_vars => Inv'
<1> SUFFICES ASSUME Inv, [Next]_vars PROVE Inv'
  OBVIOUS
<1> USE DEF Inv
<1>0. IsDesk(desk) /\ ChosenIsConfirmed(desk) /\ HoldStands(desk) /\ around \subseteq Reports
  BY DEF TypeOK
<1>1. CASE Process
  BY <1>0, <1>1, RunKeeps DEF Process
<1>2. CASE UpdateFields
  <2>1. PICK column \in DOMAIN Values : \E value \in Values[column] :
          \/ desk' \in Runs(Correct(desk, column, value), around) /\ fresh' = TRUE
          \/ desk' = Correct(desk, column, value) /\ fresh' = FALSE
    BY <1>2 DEF UpdateFields
  <2>0. PICK value \in Values[column] :
          \/ desk' \in Runs(Correct(desk, column, value), around) /\ fresh' = TRUE
          \/ desk' = Correct(desk, column, value) /\ fresh' = FALSE
    BY <2>1
  <2> DEFINE edited == Correct(desk, column, value)
  <2> HIDE DEF edited
  <2>2. /\ IsDesk(edited)
        /\ edited.confirmed = desk.confirmed /\ edited.matches = desk.matches
        /\ edited.duplicates = desk.duplicates /\ edited.hold = desk.hold
    BY <1>0, EditedDesk DEF edited
  <2>3. \/ desk' \in Runs(edited, around) /\ fresh' = TRUE
        \/ desk' = edited /\ fresh' = FALSE
    BY <2>0 DEF edited
  <2>4. ChosenIsConfirmed(edited) /\ HoldStands(edited)
    BY <1>0, <2>2 DEF ChosenIsConfirmed, Chosen, HoldStands, Undecided
  <2>5. CASE desk' \in Runs(edited, around) /\ fresh' = TRUE
    BY <1>2, <2>2, <2>4, <2>5, RunKeeps DEF UpdateFields
  <2>6. CASE desk' = edited /\ fresh' = FALSE
    <3>1. TypeOK'
      BY <1>0, <1>2, <2>2, <2>6 DEF UpdateFields, TypeOK, IsDesk
    <3>2. ChosenIsConfirmed(desk)' /\ HoldStands(desk)'
      BY <2>4, <2>6 DEF ChosenIsConfirmed, Chosen, HoldStands, Undecided
    <3>3. QED
      BY <2>6, <3>1, <3>2
  <2>7. QED
    BY <2>3, <2>5, <2>6
<1>3. CASE SelectPolicy
  <2>1. PICK p \in Policies : desk.matches[p] # None /\ desk' \in Runs(Select(desk, p), around)
    BY <1>3 DEF SelectPolicy
  <2>2. IsDesk(Select(desk, p)) /\ ChosenIsConfirmed(Select(desk, p))
    BY <1>0, <2>1, SelectType
  <2>3. QED
    BY <1>3, <2>1, <2>2, RunKeeps DEF SelectPolicy
<1>4. CASE ResolveDuplicate
  <2>1. PICK o \in Reports, resolution \in Resolutions :
          desk.duplicates[o] # "absent" /\ desk' = Resolve(desk, o, resolution)
    BY <1>4 DEF ResolveDuplicate
  <2>2. /\ IsDesk(desk') /\ HoldStands(desk')
        /\ desk'.notice = desk.notice /\ desk'.policy = desk.policy
        /\ desk'.confirmed = desk.confirmed /\ desk'.matches = desk.matches
        /\ Undecided(desk') \subseteq Undecided(desk)
        /\ \A q \in Reports : desk.duplicates[q] # "absent" => desk'.duplicates[q] # "absent"
    BY <1>0, <2>1, ResolvedDesk
  <2>3. TypeOK'
    BY <1>4, <2>2 DEF ResolveDuplicate, TypeOK, IsDesk
  <2>4. ChosenIsConfirmed(desk)' /\ HoldStands(desk)'
    BY <1>0, <2>2 DEF ChosenIsConfirmed, Chosen, HoldStands, Undecided
  <2>5. Alike(desk', around) = Alike(desk, around) /\ around' = around /\ fresh' = fresh
    BY <1>4, <2>2 DEF ResolveDuplicate, Alike, Scanned, ScanPool, PairOf
  <2>6. fresh => Listed(desk') /\ Asked(desk', around)
    BY <2>2, <2>5 DEF Listed, Asked
  <2>7. fresh' => (Listed(desk) /\ Asked(desk, around))'
    BY <2>5, <2>6 DEF Listed, Asked, Alike, Scanned, ScanPool, PairOf,
                       Undecided
  <2>8. QED
    BY <2>3, <2>4, <2>7
<1>5. CASE ResolveException
  <2>1. /\ desk' = [desk EXCEPT !.hold = "closed"]
        /\ around' = around /\ fresh' = fresh
    BY <1>5 DEF ResolveException
  <2>2. /\ IsDesk(desk') /\ desk'.notice = desk.notice /\ desk'.policy = desk.policy
        /\ desk'.confirmed = desk.confirmed /\ desk'.matches = desk.matches
        /\ desk'.duplicates = desk.duplicates /\ desk'.hold = "closed"
    BY <1>0, <2>1 DEF IsDesk
  <2>3. TypeOK'
    BY <2>1, <2>2 DEF TypeOK, IsDesk
  <2>4. ChosenIsConfirmed(desk)' /\ HoldStands(desk)'
    BY <1>0, <2>2 DEF ChosenIsConfirmed, Chosen, HoldStands, Undecided
  <2>5. fresh' => (Listed(desk) /\ Asked(desk, around))'
    BY <2>1, <2>2 DEF Listed, Asked, Alike, Scanned, ScanPool, PairOf,
                       Undecided
  <2>6. QED
    BY <2>3, <2>4, <2>5
<1>6. CASE ComeOrGo
  <2>1. around' \subseteq Reports
    BY <1>0, <1>6 DEF ComeOrGo
  <2>2. QED
    BY <1>6, <2>1 DEF ComeOrGo, TypeOK, IsDesk, ChosenIsConfirmed, Chosen,
                      HoldStands, Undecided
<1>7. CASE UNCHANGED vars
  BY <1>7 DEF vars, TypeOK, IsDesk, ChosenIsConfirmed, Chosen,
              HoldStands, Undecided, Listed, Asked, Alike, Scanned, ScanPool,
              PairOf
<1>8. QED
  BY <1>1, <1>2, <1>3, <1>4, <1>5, <1>6, <1>7 DEF Next

LEMMA Always == Spec => []Inv
BY Initially, StepKeeps, PTL DEF Spec

(* The desk holds a notice, candidates and a hold of the shapes they have. *)
THEOREM DeskTyped == Spec => []TypeOK
<1>1. Inv => TypeOK
  BY DEF Inv
<1>2. QED
  BY <1>1, Always, PTL

(* While a candidate is undecided the hold for it is on record, whatever   *)
(* runs, corrections and decisions came before.                            *)
THEOREM UndecidedIsHeld == Spec => []DuplicateHeld
<1>1. Inv => DuplicateHeld
  BY DEF Inv, HoldStands, DuplicateHeld
<1>2. QED
  BY <1>1, Always, PTL


(* A policy bound without an officer has the notice's number, is not known *)
(* to be out of force, and no other candidate scores highly.               *)
THEOREM BindingIsClear == Spec => BindsWithoutJudgement
<1>1. Inv /\ [Next]_vars =>
        [(desk'.policy # desk.policy /\ ~ desk'.confirmed) => BoundAlone(desk')]_vars
  <2> SUFFICES ASSUME Inv, Next, desk'.policy # desk.policy, ~ desk'.confirmed
               PROVE  BoundAlone(desk')
    OBVIOUS
  <2>0. IsDesk(desk) /\ ChosenIsConfirmed(desk) /\ around \subseteq Reports
    BY DEF Inv, TypeOK
  <2>1. CASE Process
    BY <2>0, <2>1, RunLeaves DEF Process
  <2>2. CASE UpdateFields
    <3>1. PICK column \in DOMAIN Values : \E value \in Values[column] :
            \/ desk' \in Runs(Correct(desk, column, value), around)
            \/ desk' = Correct(desk, column, value)
      BY <2>2 DEF UpdateFields
    <3>2. PICK value \in Values[column] :
            \/ desk' \in Runs(Correct(desk, column, value), around)
            \/ desk' = Correct(desk, column, value)
      BY <3>1
    <3>3. /\ IsDesk(Correct(desk, column, value))
          /\ Correct(desk, column, value).policy = desk.policy
          /\ Correct(desk, column, value).confirmed = desk.confirmed
          /\ Correct(desk, column, value).matches = desk.matches
      BY <2>0, EditedDesk
    <3>4. ChosenIsConfirmed(Correct(desk, column, value))
      BY <2>0, <3>3 DEF ChosenIsConfirmed, Chosen
    <3>5. QED
      BY <2>0, <3>2, <3>3, <3>4, RunLeaves
  <2>3. CASE SelectPolicy
    <3>1. PICK p \in Policies :
            desk.matches[p] # None /\ desk' \in Runs(Select(desk, p), around)
      BY <2>3 DEF SelectPolicy
    <3>2. /\ IsDesk(Select(desk, p)) /\ ChosenIsConfirmed(Select(desk, p))
          /\ Select(desk, p).confirmed = TRUE
      BY <2>0, <3>1, SelectType
    <3>3. desk'.confirmed = TRUE
      BY <2>0, <3>1, <3>2, RunLeaves
    <3>4. QED
      BY <3>3
  <2>4. CASE ComeOrGo
    BY <2>4 DEF ComeOrGo
  <2>5. CASE ResolveDuplicate
    <3>1. PICK o \in Reports, resolution \in Resolutions :
            desk.duplicates[o] # "absent" /\ desk' = Resolve(desk, o, resolution)
      BY <2>5 DEF ResolveDuplicate
    <3>2. desk'.policy = desk.policy
      BY <2>0, <3>1, ResolvedDesk DEF Inv
    <3>3. QED
      BY <3>2
  <2>6. CASE ResolveException
    BY <2>0, <2>6 DEF ResolveException, IsDesk
  <2>7. QED
    BY <2>1, <2>2, <2>3, <2>4, <2>5, <2>6 DEF Next
<1>2. QED
  BY <1>1, Always, PTL DEF Spec, BindsWithoutJudgement

(* A policy whose number the notice quotes is on its list, or a full list  *)
(* of others scores no worse, or as many policies as the query returns     *)
(* come before it in the order of the numbers: for any book and any limits.*)
THEOREM QuotedIsListed == Spec => []NumberFindsPolicy
<1>1. Inv => NumberFindsPolicy
  <2> DEFINE n == desk.notice
  <2> SUFFICES
        ASSUME Inv, fresh, NEW p \in Policies, SameNumber(n, Book[p]),
               \/ Signals(n, Book[p]).insured_name = Uncompared
               \/ 2 * Signals(n, Book[p]).insured_name >= Full,
               desk.matches[p] = None,
               ~ (MaxCandidates <= Cardinality(LowerNumbers(Narrowed(n), p)))
        PROVE  MaxShown < Cardinality({q \in Policies :
                 Rounded(ScoreOf(n, q)) >= Rounded(ScoreOf(n, p))})
    BY DEF NumberFindsPolicy
  <2> DEFINE s == Signals(n, Book[p])
             level == {q \in Policies :
                         Rounded(ScoreOf(n, q)) >= Rounded(ScoreOf(n, p))}
  <2>1. IsNotice(n) /\ Book[p] \in PolicyRow
    BY MatchingAssumption DEF Inv, TypeOK, IsDesk
  <2>2. s \in PolicySignals
    BY <2>1, SignalsType DEF PolicySignals
  <2>3. s.policy_number = Full
    BY DEF SameNumber, Signals, NumberSignal
  <2>4. RoundedReaches(ScoreOf(n, p), PolicyCandidateThreshold)
    BY <2>2, <2>3, NumberScores DEF ScoreOf
  <2>5. Identified(s)
    BY <2>3 DEF Identified, Full
  <2>6. p \in FindCandidates(n)
    <3>1. n.policy_number # None /\ n.policy_number.digits = Book[p].policy_number.digits
      BY DEF SameNumber
    <3>2. Book[p].policy_number.digits \in Seq(0 .. 9)
      BY <2>1 DEF PolicyRow, Numbers
    <3>3. Within(n.policy_number.digits, Book[p].policy_number.digits)
      BY <3>1, <3>2, SameWithin
    <3>4. p \in Narrowed(n)
      BY <3>1, <3>3 DEF Narrowed, Known
    <3>5. Cardinality(LowerNumbers(Narrowed(n), p)) \in Nat
      <4>1. LowerNumbers(Narrowed(n), p) \subseteq Policies
        BY DEF LowerNumbers, Narrowed
      <4>2. QED
        BY <4>1, FS_Subset, FS_CardinalityType, MatchingAssumption
    <3>6. Cardinality(LowerNumbers(Narrowed(n), p)) < MaxCandidates
      BY <3>5, MatchingAssumption
    <3>7. QED
      BY <3>4, <3>6 DEF FindCandidates
  <2>7. p \in Viable(n)
    BY <2>4, <2>5, <2>6 DEF Viable
  <2>8. p \notin DOMAIN RankCandidates(n)
    BY DEF Inv, Listed
  <2>9. ~ (Cardinality(Ahead(n, p)) < MaxShown)
    BY <2>7, <2>8, Ranked
  <2>10. /\ Ahead(n, p) \subseteq Policies /\ IsFiniteSet(Ahead(n, p))
         /\ Cardinality(Ahead(n, p)) \in Nat
    BY AheadIsFinite DEF Ahead
  <2>11. \A q \in Policies : Rounded(ScoreOf(n, q)) \in Int
    BY <2>1, RoundedType
  <2>12. Ahead(n, p) \cup {p} \subseteq level
    BY <2>10, <2>11 DEF Ahead
  <2>13. p \notin Ahead(n, p)
    BY <2>11, MatchingAssumption DEF Ahead
  <2>14. /\ IsFiniteSet(Ahead(n, p) \cup {p})
         /\ Cardinality(Ahead(n, p) \cup {p}) = Cardinality(Ahead(n, p)) + 1
    BY <2>10, <2>13, FS_AddElement
  <2>15. /\ IsFiniteSet(level)
         /\ Cardinality(Ahead(n, p) \cup {p}) <= Cardinality(level)
    BY <2>12, FS_Subset, MatchingAssumption
  <2>16. MaxShown \in Nat /\ Cardinality(level) \in Nat
    BY <2>15, FS_CardinalityType, MatchingAssumption
  <2> HIDE DEF level
  <2>17. MaxShown < Cardinality(level)
    BY <2>9, <2>10, <2>14, <2>15, <2>16
  <2>18. QED
    BY <2>17 DEF level
<1>2. QED
  BY <1>1, Always, PTL

(* A second report of the same policy, day and insured is asked about,     *)
(* unless the query stops before it: for any reports and any limit.        *)
THEOREM RepeatsAreAsked == Spec => []RepeatIsAsked
<1>1. Inv => RepeatIsAsked
  <2> DEFINE n == desk.notice
  <2> SUFFICES
        ASSUME Inv, fresh, NEW o \in around, SameNumber(n, File[o]),
               n.date_of_loss # None, File[o].date_of_loss # None,
               Gap(n.date_of_loss, File[o].date_of_loss) <= 36,
               n.insured_name # None, n.insured_name = File[o].insured_name,
               NormaliseOrganisation(n.insured_name) # {},
               n.claimant_name = None, File[o].claimant_name = None,
               n.external_reference = None,
               Cardinality(NewerOnes(ScanPool(desk, around), o)) < MaxScanned
        PROVE  desk.duplicates[o] # "absent"
    BY DEF RepeatIsAsked
  <2> DEFINE s == PairOf(desk, o)
  <2>1. IsNotice(n) /\ o \in Reports /\ IsReport(File[o])
    BY MatchingAssumption DEF Inv, TypeOK, IsDesk
  <2>2. s \in PairOfSignals
    BY <2>1, PairType DEF PairOf
  <2>3. NameSimilarity(n.insured_name, n.insured_name) = Full
    BY <2>1, Columns, OwnLikeness
  <2>4. s.policy = Full
    BY DEF PairOf, PairSignals, PolicySignal, SameNumber, Same
  <2>5. s.loss_date = Full
    BY DEF PairOf, PairSignals, Compared, DateSignal
  <2>6. s.insured = Full /\ s.claimant = Full
    BY <2>3 DEF PairOf, PairSignals, Compared, Or
  <2>7. s.external_reference = Uncompared
    BY DEF PairOf, PairSignals, Compared
  <2>8. RoundedReaches(PairScore(s), DuplicateThreshold)
    BY <2>2, <2>4, <2>5, <2>6, <2>7, RepeatScores
  <2>9. InScanPool(n, desk.policy, File[o])
    <3>1. n.date_of_loss \in Nat /\ File[o].date_of_loss \in Nat
      BY <2>1, Columns, ReportColumns
    <3>2. Gap(n.date_of_loss, File[o].date_of_loss) <= 72
      BY <3>1 DEF Gap
    <3>3. QED
      BY <3>2 DEF InScanPool
  <2>10. o \in Alike(desk, around)
    <3>1. o \in ScanPool(desk, around)
      BY <2>9 DEF ScanPool
    <3>2. QED
      BY <2>8, <3>1 DEF Alike, Scanned
  <2>11. QED
    BY <2>1, <2>10 DEF Inv, Asked
<1>2. QED
  BY <1>1, Always, PTL

(* Against another policy number, one thing in common is never enough.     *)
THEOREM OneThingIsNotEnough == Spec => []OtherPolicyNeedsTwo
<1>1. Inv => OtherPolicyNeedsTwo
  <2> DEFINE n == desk.notice
  <2> SUFFICES
        ASSUME Inv, fresh, NEW o \in Undecided(desk),
               n.policy_number # None, File[o].policy_number # None,
               n.policy_number.digits # File[o].policy_number.digits
        PROVE  Cardinality({k \in DOMAIN PairOf(desk, o) \ {"policy"} :
                              PairOf(desk, o)[k] > 0}) >= 2
    BY DEF OtherPolicyNeedsTwo
  <2> DEFINE s == PairOf(desk, o)
             agreeing == {k \in DOMAIN s \ {"policy"} : s[k] > 0}
  <2>1. IsNotice(n) /\ o \in Reports /\ IsReport(File[o])
    BY MatchingAssumption DEF Inv, TypeOK, IsDesk, Undecided
  <2>2. s \in PairOfSignals
    BY <2>1, PairType DEF PairOf
  <2>3. s.policy = 0
    BY DEF PairOf, PairSignals, PolicySignal, Same
  <2>4. RoundedReaches(PairScore(s), DuplicateThreshold)
    BY DEF Inv, Asked, Alike
  <2> HIDE DEF s
  <2>5. \A k \in DOMAIN s : s[k] \in Int
    BY <2>2 DEF PairOfSignals, Signal, Uncompared, Full
  <2>6. \A lone \in DOMAIN s \ {"policy"} :
          \E k \in DOMAIN s \ {"policy", lone} : s[k] > 0
    <3> SUFFICES ASSUME NEW lone \in DOMAIN s \ {"policy"},
                        \A k \in DOMAIN s \ {"policy", lone} : ~ (s[k] > 0)
                 PROVE  FALSE
      OBVIOUS
    <3>1. \A k \in DOMAIN s \ {"policy", lone} : s[k] <= 0
      BY <2>5
    <3>2. QED
      BY <2>2, <2>3, <2>4, <3>1, LoneScores
  <2>7. "assets" \in DOMAIN s \ {"policy"}
    BY <2>2 DEF PairOfSignals
  <2>8. PICK j \in DOMAIN s \ {"policy", "assets"} : s[j] > 0
    BY <2>6, <2>7
  <2>9. PICK k \in DOMAIN s \ {"policy", j} : s[k] > 0
    BY <2>6, <2>8
  <2>10. {j, k} \subseteq agreeing /\ j # k
    BY <2>8, <2>9
  <2>11. IsFiniteSet(agreeing)
    <3>1. DOMAIN s = {"policy", "loss_date", "insured", "claimant", "location",
                      "description", "assets", "external_reference"}
      BY <2>2 DEF PairOfSignals
    <3>2. IsFiniteSet(DOMAIN s)
      <4>1. /\ IsFiniteSet({"policy"}) /\ IsFiniteSet({"loss_date"})
            /\ IsFiniteSet({"insured"}) /\ IsFiniteSet({"claimant"})
            /\ IsFiniteSet({"location"}) /\ IsFiniteSet({"description"})
            /\ IsFiniteSet({"assets"}) /\ IsFiniteSet({"external_reference"})
        BY FS_Singleton
      <4>2. /\ IsFiniteSet({"policy"} \cup {"loss_date"})
            /\ IsFiniteSet({"insured"} \cup {"claimant"})
            /\ IsFiniteSet({"location"} \cup {"description"})
            /\ IsFiniteSet({"assets"} \cup {"external_reference"})
        BY <4>1, FS_Union
      <4>3. /\ IsFiniteSet(({"policy"} \cup {"loss_date"}) \cup ({"insured"} \cup {"claimant"}))
            /\ IsFiniteSet(({"location"} \cup {"description"})
                             \cup ({"assets"} \cup {"external_reference"}))
        BY <4>2, FS_Union
      <4>4. IsFiniteSet((({"policy"} \cup {"loss_date"}) \cup ({"insured"} \cup {"claimant"}))
              \cup (({"location"} \cup {"description"})
                       \cup ({"assets"} \cup {"external_reference"})))
        BY <4>3, FS_Union
      <4>5. DOMAIN s \subseteq
              ((({"policy"} \cup {"loss_date"}) \cup ({"insured"} \cup {"claimant"}))
                 \cup (({"location"} \cup {"description"})
                          \cup ({"assets"} \cup {"external_reference"})))
        BY <3>1
      <4>6. QED
        BY <4>4, <4>5, FS_Subset
    <3>3. QED
      BY <3>2, FS_Subset
  <2>12. Cardinality({j, k}) = 2
    <3>1. IsFiniteSet({j}) /\ Cardinality({j}) = 1
      BY FS_Singleton
    <3>2. Cardinality({j} \cup {k}) = Cardinality({j}) + 1
      BY <2>10, <3>1, FS_AddElement
    <3>3. {j} \cup {k} = {j, k}
      OBVIOUS
    <3>4. QED
      BY <3>1, <3>2, <3>3
  <2>13. Cardinality({j, k}) <= Cardinality(agreeing) /\ Cardinality(agreeing) \in Nat
    BY <2>10, <2>11, FS_Subset, FS_CardinalityType
  <2>14. Cardinality(agreeing) >= 2
    <3> HIDE DEF agreeing
    <3>1. QED
      BY <2>12, <2>13
  <2>15. QED
    BY <2>14 DEF s
<1>2. QED
  BY <1>1, Always, PTL


(* A part that comes to agree in full raises the share that agrees.        *)
LEMMA FullPartRaises ==
  ASSUME NEW a \in Nat, NEW w \in Nat, a <= 60 * w,
         NEW part \in Nat, NEW weight \in Nat, part <= 60 * weight,
         NEW full \in Nat, weight <= full
  PROVE  (a + 60 * full) * (w + weight) >= (a + part) * (w + full)
<1> DEFINE more == full - weight
<1>1. more \in Nat /\ full = weight + more
  OBVIOUS
<1> HIDE DEF more
<1>2. a * more <= 60 * w * more
  BY <1>1
<1>3. part * w <= 60 * weight * w
  OBVIOUS
<1>4. part * full <= 60 * weight * full
  OBVIOUS
<1>5. (a + 60 * full) * (w + weight) =
        a * w + a * weight + 60 * full * w + 60 * full * weight
  OBVIOUS
<1>6. (a + part) * (w + full) = a * w + a * full + part * w + part * full
  OBVIOUS
<1>7. a * full = a * weight + a * more /\ 60 * full * w = 60 * weight * w + 60 * w * more
  BY <1>1
<1>8. 60 * weight * full = 60 * full * weight
  OBVIOUS
<1>9. /\ a * w \in Int /\ a * weight \in Int /\ a * more \in Int
      /\ 60 * w * more \in Int /\ part * w \in Int /\ 60 * weight * w \in Int
      /\ part * full \in Int /\ 60 * weight * full \in Int
  BY <1>1
<1>10. QED
  BY <1>2, <1>3, <1>4, <1>5, <1>6, <1>7, <1>8, <1>9

(* Two sets of signals that differ in the number, and in a name that could *)
(* not be compared: both agree in full in the second.                      *)
LEMMA ConfirmedScores ==
  ASSUME NEW s \in PolicySignals, NEW t \in PolicySignals,
         t.policy_number = Full,
         t.insured_name = s.insured_name
           \/ (s.insured_name = Uncompared /\ t.insured_name = Full),
         t.organisation = s.organisation, t.broker = s.broker,
         t.email = s.email, t.location = s.location,
         t.line_of_business = s.line_of_business, t.in_force = s.in_force
  PROVE  PolicyScore(t).agreed * PolicyScore(s).of
           >= PolicyScore(s).agreed * PolicyScore(t).of
<1> DEFINE others == Agreed(s.organisation, 12) + Agreed(s.broker, 8)
                       + Agreed(s.email, 10) + Agreed(s.location, 8)
                       + Agreed(s.line_of_business, 6) + Agreed(s.in_force, 15)
           weights == Weighed(s.organisation, 12) + Weighed(s.broker, 8)
                       + Weighed(s.email, 10) + Weighed(s.location, 8)
                       + Weighed(s.line_of_business, 6) + Weighed(s.in_force, 15)
           an == Agreed(s.policy_number, 50)
           wn == Weighed(s.policy_number, 50)
           ai == Agreed(s.insured_name, 20)
           wi == Weighed(s.insured_name, 20)
<1>1. others \in Nat /\ weights \in Nat /\ others <= 60 * weights
  BY PolicyParts DEF Part
<1>2. /\ an \in Nat /\ wn \in Nat /\ wn <= 50 /\ an <= 60 * wn
      /\ ai \in Nat /\ wi \in Nat /\ wi <= 20 /\ ai <= 60 * wi
  BY PolicyParts DEF Part
<1>3. Agreed(t.policy_number, 50) = 3000 /\ Weighed(t.policy_number, 50) = 50
  BY Parts DEF PolicySignals
<1>4. PolicyScore(s).agreed = an + ai + others /\ PolicyScore(s).of = wn + wi + weights
  BY PolicyParts DEF PolicyScore, Part
<1>5. /\ PolicyScore(t).agreed = 3000 + Agreed(t.insured_name, 20) + others
      /\ PolicyScore(t).of = 50 + Weighed(t.insured_name, 20) + weights
  <2>1. Agreed(t.insured_name, 20) \in Nat /\ Weighed(t.insured_name, 20) \in Nat
    BY PolicyParts DEF Part
  <2>2. QED
    BY <1>3, <2>1, PolicyParts DEF PolicyScore, Part
<1> HIDE DEF others, weights, an, wn, ai, wi
<1>6. CASE t.insured_name = s.insured_name
  <2>1. /\ PolicyScore(t).agreed = (others + ai) + 60 * 50
        /\ PolicyScore(t).of = (weights + wi) + 50
    BY <1>1, <1>2, <1>5, <1>6 DEF ai, wi
  <2>2. /\ PolicyScore(s).agreed = (others + ai) + an
        /\ PolicyScore(s).of = (weights + wi) + wn
    BY <1>1, <1>2, <1>4
  <2>3. ((others + ai) + 60 * 50) * ((weights + wi) + wn)
          >= ((others + ai) + an) * ((weights + wi) + 50)
    <3>1. others + ai \in Nat /\ weights + wi \in Nat /\ others + ai <= 60 * (weights + wi)
      BY <1>1, <1>2
    <3>2. QED
      BY <1>2, <3>1, FullPartRaises
  <2>4. QED
    BY <2>1, <2>2, <2>3
<1>7. CASE s.insured_name = Uncompared /\ t.insured_name = Full
  <2>1. ai = 0 /\ wi = 0
    BY <1>7 DEF ai, wi, Agreed, Weighed
  <2>2. Agreed(t.insured_name, 20) = 1200 /\ Weighed(t.insured_name, 20) = 20
    BY <1>7, Parts DEF PolicySignals
  <2>3. /\ PolicyScore(t).agreed = others + 60 * 70 /\ PolicyScore(t).of = weights + 70
        /\ PolicyScore(s).agreed = others + an /\ PolicyScore(s).of = weights + wn
    BY <1>1, <1>2, <1>4, <1>5, <2>1, <2>2
  <2>4. (others + 60 * 70) * (weights + wn) >= (others + an) * (weights + 70)
    BY <1>1, <1>2, FullPartRaises
  <2>5. QED
    BY <2>3, <2>4
<1>8. QED
  BY <1>6, <1>7

(* Confirming a candidate never lowers its score, for any book in which no *)
(* holder's name is a company form and nothing else.                       *)
THEOREM ConfirmationRaises ==
  ASSUME \A p \in Policies : NormaliseOrganisation(Book[p].insured_name) # {},
         None \notin Names
  PROVE  Spec => []SelectionRaises
<1>1. Inv => SelectionRaises
  <2> SUFFICES ASSUME Inv, NEW p \in Policies, desk.matches[p] # None
               PROVE  LET was == ScoreOf(desk.notice, p)
                          is  == ScoreOf(Select(desk, p).notice, p)
                      IN  is.agreed * was.of >= was.agreed * is.of
    BY DEF SelectionRaises
  <2> DEFINE n == desk.notice
             m == Select(desk, p).notice
             s == Signals(n, Book[p])
             t == Signals(m, Book[p])
  <2>1. IsDesk(desk) /\ IsNotice(n) /\ Book[p] \in PolicyRow
    BY MatchingAssumption DEF Inv, TypeOK, IsDesk
  <2>2. IsNotice(m)
    BY <2>1, SelectType DEF IsDesk
  <2>3. s \in PolicySignals /\ t \in PolicySignals
    BY <2>1, <2>2, SignalsType DEF PolicySignals
  <2>4. m = [n EXCEPT !.policy_number = Book[p].policy_number,
                      !.insured_name = Or(n.insured_name, Book[p].insured_name)]
    <3>1. Fields(desk)
      BY <2>1 DEF IsDesk, Fields
    <3>2. QED
      BY <3>1 DEF Select, Fields
  <2>5. /\ m.policy_number = Book[p].policy_number
        /\ m.insured_name = Or(n.insured_name, Book[p].insured_name)
        /\ \A c \in DOMAIN Facts \ {"policy_number", "insured_name"} : m[c] = n[c]
    <3>1. DOMAIN n = DOMAIN Facts
      BY <2>1 DEF IsNotice
    <3>2. "policy_number" \in DOMAIN Facts /\ "insured_name" \in DOMAIN Facts
      BY DEF Facts
    <3> HIDE DEF m, n
    <3>3. QED
      BY <2>4, <3>1, <3>2
  <2>6. /\ m.insured_organisation = n.insured_organisation
        /\ m.reporter_organisation = n.reporter_organisation
        /\ m.reporter_email = n.reporter_email
        /\ m.loss_location = n.loss_location
        /\ m.line_of_business = n.line_of_business
        /\ m.date_of_loss = n.date_of_loss
    BY <2>5 DEF Facts
  <2> HIDE DEF m, n
  <2>7. /\ t.organisation = s.organisation /\ t.broker = s.broker
        /\ t.email = s.email /\ t.location = s.location
        /\ t.line_of_business = s.line_of_business /\ t.in_force = s.in_force
    BY <2>6 DEF Signals
  <2>8. t.policy_number = Full
    <3>1. Book[p].policy_number \in Numbers
      BY <2>1 DEF PolicyRow
    <3>2. QED
      BY <2>5, <3>1, LikenessAssumption DEF Signals, NumberSignal
  <2>9. \/ t.insured_name = s.insured_name
        \/ s.insured_name = Uncompared /\ t.insured_name = Full
    <3>1. Book[p].insured_name \in Names /\ Book[p].insured_name # None
      BY <2>1 DEF PolicyRow
    <3>2. CASE n.insured_name = None
      <4>1. NameSimilarity(Book[p].insured_name, Book[p].insured_name) = Full
        BY <3>1, OwnLikeness
      <4>2. m.insured_name = Book[p].insured_name
        BY <2>5, <3>2 DEF Or
      <4>3. QED
        BY <3>1, <3>2, <4>1, <4>2 DEF Signals, Compared
    <3>3. CASE n.insured_name # None
      BY <2>5, <3>3 DEF Or, Signals
    <3>4. QED
      BY <3>2, <3>3
  <2>10. QED
    BY <2>3, <2>7, <2>8, <2>9, ConfirmedScores DEF ScoreOf, m, n
<1>2. QED
  BY <1>1, Always, PTL

=============================================================================
