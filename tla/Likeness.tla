------------------------------ MODULE Likeness ------------------------------
(***************************************************************************)
(* How alike a notice is to a policy, and to another notice or a claim:    *)
(* signals that can be compared or not, their weights, and the thresholds. *)
(*                                                                         *)
(* A number is its digits and the way it is written, a name a sequence of  *)
(* words, an address or a description a set of words, a time a number of   *)
(* hours.  A signal is a number of sixtieths, so that the share of up to   *)
(* six words is exact; weights are tenths, scores ten-thousandths.         *)
(***************************************************************************)
EXTENDS Integers, Sequences, FiniteSets

CONSTANTS
  None,          \* a column that is empty
  Words,         \* the words there are
  Names,         \* the names of people and organisations
  ShortWords,    \* words of one or two letters
  CompanyForms,  \* _COMPANY_SUFFIXES
  Ratio(_, _),   \* sequence_ratio of two names, in sixtieths
  Inside(_, _)   \* one word is found in another: ILIKE takes any substring

Full       == 60
Uncompared == -1

Numbers == [digits: Seq(0 .. 9), style: STRING]
Emails  == [mailbox: STRING, domain: STRING]

ASSUME LikenessAssumption ==
  /\ IsFiniteSet(Words)
  /\ None \notin Numbers
  /\ Names \subseteq Seq(Words)
  /\ \A x, y \in Names : Ratio(x, y) \in 0 .. Full

(* What each column of a notice may hold, dates in hours.                  *)
Facts ==
  [policy_number         |-> {None} \cup Numbers,
   insured_name          |-> {None} \cup Names,
   insured_organisation  |-> {None} \cup Names,
   reporter_organisation |-> {None} \cup Names,
   claimant_name         |-> {None} \cup Names,
   reporter_email        |-> {None} \cup Emails,
   loss_location         |-> {None} \cup SUBSET Words,
   loss_description      |-> {None} \cup SUBSET Words,
   affected_assets       |-> {None} \cup SUBSET Words,
   line_of_business      |-> {None} \cup STRING,
   date_of_loss          |-> {None} \cup Nat,
   external_reference    |-> {None} \cup STRING]

IsNotice(n) ==
  /\ n = [c \in DOMAIN Facts |-> n[c]]
  /\ \A c \in DOMAIN Facts : n[c] \in Facts[c]

PolicyRow ==
  [policy_number: Numbers, insured_name: Names,
   insured_organisation: {None} \cup Names, broker_name: {None} \cup Names,
   broker_reference: {None} \cup Names, insured_email: {None} \cup Emails,
   primary_location: {None} \cup SUBSET Words, line_of_business: STRING,
   effective_date: Int, expiry_date: Int]

(* Another notice, or a claim with the facts it copied.                    *)
IsReport(o) ==
  /\ o.kind \in {"notice", "claim"}
  /\ o.reference \in STRING
  /\ \A c \in {"policy_number", "insured_name", "claimant_name", "date_of_loss",
              "loss_location", "loss_description", "affected_assets",
              "external_reference"} : o[c] \in Facts[c]

WordsOf(s) == {s[i] : i \in DOMAIN s}

Larger(a, b)  == IF a >= b THEN a ELSE b
Smaller(a, b) == IF a <= b THEN a ELSE b

-----------------------------------------------------------------------------
(***************************************************************************)
(* Similarity.                                                             *)
(***************************************************************************)
Share(part, whole) == (Full * part) \div whole

Jaccard(a, b) ==
  IF a = {} \/ b = {} THEN 0
  ELSE Share(Cardinality(a \cap b), Cardinality(a \cup b))

Containment(a, b) ==
  IF a = {} \/ b = {} THEN 0
  ELSE Share(Cardinality(a \cap b), Smaller(Cardinality(a), Cardinality(b)))

(* A name without the company form it ends in.                             *)
NormaliseOrganisation(name) ==
  LET own == {i \in DOMAIN name : name[i] \notin CompanyForms}
  IN  {SubSeq(name, 1, i) : i \in {i \in own : \A j \in own : j <= i}}

NameSimilarity(x, y) ==
  LET a == UNION {WordsOf(n) : n \in NormaliseOrganisation(x)}
      b == UNION {WordsOf(n) : n \in NormaliseOrganisation(y)}
  IN  IF a = {} \/ b = {} THEN 0
      ELSE IF NormaliseOrganisation(x) = NormaliseOrganisation(y) THEN Full
      ELSE Larger(Containment(a, b), Ratio(x, y))

Compared(x, y, similarity) ==
  IF x = None \/ y = None THEN Uncompared ELSE similarity

Same(x, y) == IF x = y THEN Full ELSE 0

(* The digits of one number appear, in a row, in the other.                *)
Within(a, b) ==
  \E i \in 0 .. (Len(b) - Len(a)) : SubSeq(b, i + 1, i + Len(a)) = a

(* What a repository narrows on: the first word of a name that is long     *)
(* enough, or the name; it is found inside longer words too.               *)
Lead(name) ==
  LET long == {i \in DOMAIN name : name[i] \notin ShortWords}
  IN  IF long = {} THEN WordsOf(name)
      ELSE {name[CHOOSE i \in long : \A j \in long : i <= j]}

Led(name, other) ==
  /\ name # None /\ other # None
  /\ \A word \in Lead(name) : \E w \in WordsOf(other) : Inside(word, w)

-----------------------------------------------------------------------------
(***************************************************************************)
(* weighted_score, as the weight that agreed and the weight that could be  *)
(* compared; and the comparison of its rounded value with a threshold.     *)
(***************************************************************************)
Agreed(signal, weight) == IF signal = Uncompared THEN 0 ELSE signal * weight

Weighed(signal, weight) == IF signal = Uncompared THEN 0 ELSE weight

(* The score as it is, and rounded to four digits.                         *)
Reaches(score, threshold) ==
  /\ score.of > 0
  /\ 10000 * score.agreed >= threshold * Full * score.of

RoundedReaches(score, threshold) ==
  /\ score.of > 0
  /\ 20000 * score.agreed + Full * score.of >= 2 * threshold * Full * score.of

Rounded(score) ==
  IF score.of = 0 THEN 0
  ELSE (20000 * score.agreed + Full * score.of) \div (2 * Full * score.of)

PolicyCandidateThreshold == 4500
PolicyHighThreshold      == 8000
DuplicateThreshold       == 6200

-----------------------------------------------------------------------------
(***************************************************************************)
(* A notice and a policy.                                                  *)
(***************************************************************************)
NumberSignalWithinFirst(x, y) ==                               \* mutant
  IF Within(x.digits, y.digits) \/ Within(y.digits, x.digits) THEN 48
  ELSE Same(x.digits, y.digits)

NumberSignal(x, y) ==
  IF x.digits = y.digits THEN Full
  ELSE IF Within(x.digits, y.digits) \/ Within(y.digits, x.digits) THEN 48
  ELSE 0

(* Another mailbox of the same organisation is worth something.            *)
EmailSignal(x, y) ==
  IF x = y THEN Full ELSE IF x.domain = y.domain THEN 36 ELSE 0

Day(hour) == hour \div 24

InForce(date, p) == date # None => Day(date) \in p.effective_date .. p.expiry_date

Signals(n, p) ==
  [policy_number |->
     IF n.policy_number = None THEN Uncompared
     ELSE NumberSignal(n.policy_number, p.policy_number),
   insured_name |->
     Compared(n.insured_name, p.insured_name,
              NameSimilarity(n.insured_name, p.insured_name)),
   organisation |->
     Compared(n.insured_organisation, p.insured_organisation,
              NameSimilarity(n.insured_organisation, p.insured_organisation)),
   broker |->
     Compared(n.reporter_organisation, p.broker_name,
              NameSimilarity(n.reporter_organisation, p.broker_name)),
   email |->
     Compared(n.reporter_email, p.insured_email,
              EmailSignal(n.reporter_email, p.insured_email)),
   location |->
     Compared(n.loss_location, p.primary_location,
              Containment(n.loss_location, p.primary_location)),
   line_of_business |->
     Compared(n.line_of_business, p.line_of_business,
              Same(n.line_of_business, p.line_of_business)),
   in_force |->
     IF n.date_of_loss = None THEN Uncompared
     ELSE IF InForce(n.date_of_loss, p) THEN Full ELSE 0]

PolicyScoreDated(s) ==                                         \* mutant
  [agreed |-> Agreed(s.policy_number, 50) + Agreed(s.insured_name, 20)
                + Agreed(s.organisation, 12) + Agreed(s.broker, 8)
                + Agreed(s.email, 10) + Agreed(s.location, 8)
                + Agreed(s.line_of_business, 6) + Agreed(s.in_force, 20),
   of |-> Weighed(s.policy_number, 50) + Weighed(s.insured_name, 20)
            + Weighed(s.organisation, 12) + Weighed(s.broker, 8)
            + Weighed(s.email, 10) + Weighed(s.location, 8)
            + Weighed(s.line_of_business, 6) + Weighed(s.in_force, 20)]

PolicyScore(s) ==
  [agreed |-> Agreed(s.policy_number, 50) + Agreed(s.insured_name, 20)
                + Agreed(s.organisation, 12) + Agreed(s.broker, 8)
                + Agreed(s.email, 10) + Agreed(s.location, 8)
                + Agreed(s.line_of_business, 6) + Agreed(s.in_force, 15),
   of |-> Weighed(s.policy_number, 50) + Weighed(s.insured_name, 20)
            + Weighed(s.organisation, 12) + Weighed(s.broker, 8)
            + Weighed(s.email, 10) + Weighed(s.location, 8)
            + Weighed(s.line_of_business, 6) + Weighed(s.in_force, 15)]

(* A line of business and dates alone say nothing of whose policy it is.   *)
Identified(s) ==
  \/ s.policy_number > 0 \/ s.insured_name > 0 \/ s.organisation > 0
  \/ s.broker > 0 \/ s.email > 0

StrengthOutOfForce(s) ==                                       \* mutant
  IF Reaches(PolicyScore(s), PolicyHighThreshold)
    THEN IF s.policy_number = Full THEN "exact" ELSE "high"
  ELSE IF Reaches(PolicyScore(s), PolicyCandidateThreshold) THEN "possible"
  ELSE "none"

Strength(s) ==
  IF Reaches(PolicyScore(s), PolicyHighThreshold)
    THEN IF s.policy_number = Full /\ s.in_force # 0 THEN "exact" ELSE "high"
  ELSE IF Reaches(PolicyScore(s), PolicyCandidateThreshold) THEN "possible"
  ELSE "none"

-----------------------------------------------------------------------------
(***************************************************************************)
(* A notice and another notice or a claim.                                 *)
(***************************************************************************)
Or(x, y) == IF x # None THEN x ELSE y

Gap(x, y) == IF x >= y THEN x - y ELSE y - x

DateSignal(x, y) ==
  IF Gap(x, y) <= 36 THEN Full
  ELSE IF Gap(x, y) <= 96 THEN Full - 15 * (Gap(x, y) \div 24)
  ELSE 0

PolicySignalFalsy(n, policy, o) ==                             \* mutant
  IF n.policy_number # None /\ n.policy_number = o.policy_number THEN Full
  ELSE IF policy # None /\ policy = o.policy_id THEN Full
  ELSE Uncompared

(* A number that can be compared has the say, else the record it was       *)
(* matched to.                                                             *)
PolicySignal(n, policy, o) ==
  IF n.policy_number # None /\ o.policy_number # None
    THEN Same(n.policy_number.digits, o.policy_number.digits)
  ELSE IF policy # None /\ policy = o.policy_id THEN Full
  ELSE Uncompared

PairSignals(n, policy, o) ==
  [policy |-> PolicySignal(n, policy, o),
   loss_date |->
     Compared(n.date_of_loss, o.date_of_loss,
              DateSignal(n.date_of_loss, o.date_of_loss)),
   insured |->
     Compared(n.insured_name, o.insured_name,
              NameSimilarity(n.insured_name, o.insured_name)),
   claimant |->
     LET x == Or(n.claimant_name, n.insured_name)
         y == Or(o.claimant_name, o.insured_name)
     IN  Compared(x, y, NameSimilarity(x, y)),
   location |->
     Compared(n.loss_location, o.loss_location,
              Containment(n.loss_location, o.loss_location)),
   description |->
     Compared(n.loss_description, o.loss_description,
              Jaccard(n.loss_description, o.loss_description)),
   assets |->
     Compared(n.affected_assets, o.affected_assets,
              Jaccard(n.affected_assets, o.affected_assets)),
   external_reference |->
     LET theirs == Or(o.external_reference, o.reference)
     IN  Compared(n.external_reference, theirs,
                  Same(n.external_reference, theirs))]

PairScoreWordy(s) ==                                           \* mutant
  [agreed |-> Agreed(s.policy, 30) + Agreed(s.loss_date, 25)
                + Agreed(s.insured, 15) + Agreed(s.claimant, 10)
                + Agreed(s.location, 20) + Agreed(s.description, 25)
                + Agreed(s.external_reference, 30) + Agreed(s.assets, 8),
   of |-> Weighed(s.policy, 30) + Weighed(s.loss_date, 25)
            + Weighed(s.insured, 15) + Weighed(s.claimant, 10)
            + Weighed(s.location, 20) + Weighed(s.description, 25)
            + Weighed(s.external_reference, 30) + Weighed(s.assets, 8)]

PairScore(s) ==
  [agreed |-> Agreed(s.policy, 30) + Agreed(s.loss_date, 25)
                + Agreed(s.insured, 15) + Agreed(s.claimant, 10)
                + Agreed(s.location, 20) + Agreed(s.description, 20)
                + Agreed(s.external_reference, 30) + Agreed(s.assets, 8),
   of |-> Weighed(s.policy, 30) + Weighed(s.loss_date, 25)
            + Weighed(s.insured, 15) + Weighed(s.claimant, 10)
            + Weighed(s.location, 20) + Weighed(s.description, 20)
            + Weighed(s.external_reference, 30) + Weighed(s.assets, 8)]

=============================================================================
