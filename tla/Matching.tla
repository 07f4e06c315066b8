------------------------------ MODULE Matching ------------------------------
(***************************************************************************)
(* The policies and the earlier reports one notice is matched with, over   *)
(* its life: it is read and classified, facts are corrected, other notices *)
(* and claims come and go, the pipeline ranks the policies and scans for   *)
(* duplicates, officers choose and decide.  Requests come one at a time;   *)
(* NoticeRequests has them together, with the scores as a judgement it     *)
(* takes as given.  A search of the book and a refused selection change    *)
(* nothing and are no actions.                                             *)
(***************************************************************************)
EXTENDS Likeness

CONSTANTS
  Policies,    \* the policies of the book
  Book,        \* their rows
  Before(_, _),\* their order by policy number
  MaxCandidates, \* MAX_CANDIDATES: how many of them a notice is scored against
  MaxShown,    \* the limit of rank_candidates
  Reports,     \* other notices and claims
  File,        \* their rows
  Newer(_, _), \* their order by the time they were received or reported
  MaxScanned,  \* the limit of either duplicate_scan_pool
  Notices,     \* the facts a notice may arrive with
  Readings,    \* what its text may be read to say
  Lines,       \* the lines of business it may be classified as
  Values,      \* what officers correct a column to, for some columns
  MaxEdits,    \* bound: corrections of the notice
  MaxChanges   \* bound: how often another report comes or goes

MatchRow ==
  [strength: {"none", "possible", "high", "exact"}, rank: Nat, selected: BOOLEAN]

ASSUME MatchingAssumption ==
  /\ IsFiniteSet(Policies) /\ None \notin Policies \cup MatchRow
  /\ Book \in [Policies -> PolicyRow]
  /\ \A p, q \in Policies : (p # q) <=> (Before(p, q) \/ Before(q, p))
  /\ {MaxCandidates, MaxShown, MaxScanned} \subseteq Nat \ {0}
  /\ IsFiniteSet(Reports)
  /\ \A o \in Reports : IsReport(File[o])
  /\ \A n \in Notices \cup Readings : IsNotice(n)
  /\ Lines \subseteq STRING
  /\ DOMAIN Values \subseteq DOMAIN Facts
  /\ \A c \in DOMAIN Values : Values[c] \subseteq Facts[c]

VARIABLES
  desk,        \* the notice's facts, those corrected, its policy, candidates and hold
  around,      \* the other reports that are recent and not called off
  fresh,       \* nothing has changed since the pipeline last ran
  edits,       \* corrections so far
  changes      \* comings and goings so far

vars == <<desk, around, fresh, edits, changes>>

Resolutions == {"new_claim", "linked", "duplicate"}

(* The facts that are read out of a text.                                  *)
ReadColumns ==
  {"policy_number", "insured_name", "insured_organisation",
   "reporter_organisation", "reporter_email", "loss_location",
   "date_of_loss", "loss_description", "affected_assets"}

IsDesk(d) ==
  /\ d = [notice |-> d.notice, corrected |-> d.corrected, policy |-> d.policy,
          confirmed |-> d.confirmed, matches |-> d.matches,
          duplicates |-> d.duplicates, hold |-> d.hold]
  /\ IsNotice(d.notice)
  /\ d.corrected \subseteq DOMAIN Values
  /\ d.policy \in Policies \cup {None}
  /\ d.confirmed \in BOOLEAN
  /\ d.matches \in [Policies -> {None} \cup MatchRow]
  /\ d.duplicates \in
       [Reports -> {"absent", "unresolved"} \cup Resolutions]
  /\ d.hold \in {"absent", "open", "closed"}

TypeOK ==
  /\ IsDesk(desk)
  /\ around \subseteq Reports
  /\ fresh \in BOOLEAN

-----------------------------------------------------------------------------
(***************************************************************************)
(* The first stages: a reading leaves what it does not find and what an    *)
(* officer has corrected; the line of business is written by every run.    *)
(***************************************************************************)
Read(d, reading, line) ==
  [d EXCEPT !.notice =
     [c \in DOMAIN @ |->
        IF c = "line_of_business" THEN line
        ELSE IF c \in ReadColumns \ d.corrected /\ reading[c] # None
          THEN reading[c]
        ELSE @[c]]]

Correct(d, column, value) ==
  [d EXCEPT !.notice = [d.notice EXCEPT ![column] = value],
            !.corrected = d.corrected \cup {column}]

-----------------------------------------------------------------------------
(***************************************************************************)
(* Policies.  The repository narrows the book, the rules rank the rest.    *)
(***************************************************************************)
Known(n) ==
  \/ n.policy_number # None \/ n.insured_name # None
  \/ n.insured_organisation # None \/ n.reporter_organisation # None
  \/ n.reporter_email # None

Narrowed(n) ==
  {p \in Policies :
     IF Known(n)
       THEN \/ /\ n.policy_number # None
               /\ Within(n.policy_number.digits, Book[p].policy_number.digits)
            \/ Led(n.insured_name, Book[p].insured_name)
            \/ Led(n.insured_organisation, Book[p].insured_organisation)
            \/ Led(n.reporter_organisation, Book[p].broker_name)
            \/ /\ n.reporter_organisation # None
               /\ Book[p].broker_reference # None
               /\ Within(n.reporter_organisation, Book[p].broker_reference)
            \/ n.reporter_email # None /\ n.reporter_email = Book[p].insured_email
       ELSE /\ n.line_of_business \in {None, Book[p].line_of_business}
            /\ n.date_of_loss = None \/ InForce(n.date_of_loss, Book[p])}

(* The query stops at its limit, in the order of the policy numbers, before*)
(* anything is scored.                                                     *)
LowerNumbers(pool, p) == {q \in pool : Before(q, p)}

FindCandidates(n) ==
  {p \in Narrowed(n) : Cardinality(LowerNumbers(Narrowed(n), p)) < MaxCandidates}

ScoreOf(n, p) == PolicyScore(Signals(n, Book[p]))

(* The candidates worth showing: best first, in the order of the book      *)
(* among equals, and no more than the list holds.                          *)
RankCandidates(n) ==
  LET scores == [p \in FindCandidates(n) |-> ScoreOf(n, p)]
      viable == {p \in DOMAIN scores :
                   /\ Identified(Signals(n, Book[p]))
                   /\ RoundedReaches(scores[p], PolicyCandidateThreshold)}
      values == [p \in viable |-> Rounded(scores[p])]
      ahead  == [p \in viable |->
                   {q \in viable : \/ values[q] > values[p]
                                   \/ values[q] = values[p] /\ Before(q, p)}]
  IN  [p \in {p \in viable : Cardinality(ahead[p]) < MaxShown} |->
         [strength |-> Strength(Signals(n, Book[p])),
          rank     |-> Cardinality(ahead[p]),
          high     |-> RoundedReaches(scores[p], PolicyHighThreshold)]]

Leaders(ranked) == {p \in DOMAIN ranked : ranked[p].rank = 0}

Best(ranked) == CHOOSE p \in Leaders(ranked) : TRUE

OverallUncontested(ranked) ==                                  \* mutant
  IF Leaders(ranked) = {} THEN "none" ELSE ranked[Best(ranked)].strength

(* Two candidates that both score highly are a choice for somebody.        *)
OverallStrength(ranked) ==
  IF Leaders(ranked) = {} THEN "none"
  ELSE IF \E p \in DOMAIN ranked : ranked[p].rank > 0 /\ ranked[p].high
    THEN "possible"
  ELSE ranked[Best(ranked)].strength

(* replace_policy_matches: the candidate an officer chose keeps its row,   *)
(* rescored when it is still a candidate and as it was when it is not.     *)
Chosen(d, p) == d.matches[p] # None /\ d.matches[p].selected

Row(d, ranked, p) ==
  IF p \in DOMAIN ranked
    THEN [strength |-> ranked[p].strength, rank |-> ranked[p].rank,
          selected |-> Chosen(d, p)]
  ELSE IF Chosen(d, p) THEN d.matches[p]
  ELSE None

Match(d) ==
  LET ranked == RankCandidates(d.notice) IN
  [d EXCEPT
     !.matches = [p \in Policies |-> Row(d, ranked, p)],
     !.policy  = IF OverallStrength(ranked) = "exact" /\ ~ d.confirmed
                   THEN Best(ranked) ELSE @]

(* The policy's own number replaces the notice's, and its holder's name    *)
(* stands where none was given.                                            *)
Select(d, p) ==
  [d EXCEPT
     !.matches = [q \in Policies |->
                    IF d.matches[q] = None THEN None
                    ELSE [d.matches[q] EXCEPT !.selected = q = p]],
     !.policy = p,
     !.confirmed = TRUE,
     !.notice = [d.notice EXCEPT
                   !.policy_number = Book[p].policy_number,
                   !.insured_name = Or(d.notice.insured_name, Book[p].insured_name)]]

-----------------------------------------------------------------------------
(***************************************************************************)
(* Duplicates.                                                             *)
(***************************************************************************)
RawWithin(x, y) == x.style = y.style /\ Within(x.digits, y.digits)

(* A claim has a reference of its own where a notice has the broker's.     *)
InScanPool(n, policy, o) ==
  \/ /\ n.policy_number # None /\ o.policy_number # None
     /\ RawWithin(n.policy_number, o.policy_number)
  \/ policy # None /\ policy = o.policy_id
  \/ Led(n.insured_name, o.insured_name)
  \/ /\ n.date_of_loss # None /\ o.date_of_loss # None
     /\ Gap(n.date_of_loss, o.date_of_loss) <= 72
  \/ /\ n.external_reference # None
     /\ n.external_reference =
          IF o.kind = "claim" THEN o.reference ELSE o.external_reference

ScanPool(d, there) == {o \in there : InScanPool(d.notice, d.policy, File[o])}

(* Notices and claims are two queries, and each stops at its limit: of each*)
(* kind the newest are compared.                                           *)
NewerOnes(pool, o) ==
  {q \in pool : File[q].kind = File[o].kind /\ Newer(q, o)}

Scanned(d, there) ==
  LET pool == ScanPool(d, there)
  IN  {o \in pool : Cardinality(NewerOnes(pool, o)) < MaxScanned}

PairOf(d, o) == PairSignals(d.notice, d.policy, File[o])

Alike(d, there) ==
  {o \in Scanned(d, there) :
     RoundedReaches(PairScore(PairOf(d, o)), DuplicateThreshold)}

Detect(d, there) ==
  LET alike == Alike(d, there) IN
  [d EXCEPT !.duplicates =
     [o \in Reports |->
        IF o \in alike /\ @[o] = "absent" THEN "unresolved"
        ELSE IF o \notin alike /\ @[o] = "unresolved" THEN "absent"
        ELSE @[o]]]

Undecided(d) == {o \in Reports : d.duplicates[o] = "unresolved"}

(* The hold is raised for an undecided candidate, goes with the last, and  *)
(* is left as it is where an officer has dismissed it.                     *)
Raise(d) ==
  [d EXCEPT !.hold =
     IF Undecided(d) # {} /\ @ = "absent" THEN "open"
     ELSE IF Undecided(d) = {} /\ @ = "open" THEN "absent"
     ELSE @]

Runs(d, there) ==
  {Raise(Detect(Match(Read(d, reading, line)), there)) :
     reading \in Readings, line \in Lines}

OthersIgnored(d, o) == {}                                      \* mutant

Outstanding(d, o) == Undecided(d) \ {o}

Resolve(d, o, resolution) ==
  [d EXCEPT
     !.duplicates[o] = resolution,
     !.hold = IF /\ resolution # "duplicate"
                 /\ Outstanding(d, o) = {}
                 /\ @ = "open"
              THEN "absent" ELSE @]

-----------------------------------------------------------------------------
(***************************************************************************)
(* Requests.                                                               *)
(***************************************************************************)
Init ==
  /\ \E n \in Notices :
       desk = [notice |-> n, corrected |-> {}, policy |-> None, confirmed |-> FALSE,
               matches |-> [p \in Policies |-> None],
               duplicates |-> [o \in Reports |-> "absent"],
               hold |-> "absent"]
  /\ around = {}
  /\ fresh = FALSE
  /\ edits = 0
  /\ changes = 0

Process ==
  /\ desk' \in Runs(desk, around)
  /\ fresh' = TRUE
  /\ UNCHANGED <<around, edits, changes>>

UpdateFields ==
  /\ edits < MaxEdits
  /\ \E column \in DOMAIN Values : \E value \in Values[column] :
       /\ desk.notice[column] # value
       /\ \/ desk' \in Runs(Correct(desk, column, value), around) /\ fresh' = TRUE
          \/ desk' = Correct(desk, column, value) /\ fresh' = FALSE
  /\ edits' = edits + 1
  /\ UNCHANGED <<around, changes>>

SelectPolicy ==
  /\ \E p \in Policies :
       /\ desk.matches[p] # None
       /\ desk' \in Runs(Select(desk, p), around)
  /\ fresh' = TRUE
  /\ UNCHANGED <<around, edits, changes>>

ResolveDuplicate ==
  /\ \E o \in Reports, resolution \in Resolutions :
       /\ desk.duplicates[o] # "absent"
       /\ desk' = Resolve(desk, o, resolution)
  /\ UNCHANGED <<around, fresh, edits, changes>>

ResolveException ==
  /\ desk.hold = "open"
  /\ desk' = [desk EXCEPT !.hold = "closed"]
  /\ UNCHANGED <<around, fresh, edits, changes>>

(* Another notice arrives or is called off; a claim is made or is old.     *)
ComeOrGo ==
  /\ changes < MaxChanges
  /\ \E o \in Reports :
       around' = IF o \in around THEN around \ {o} ELSE around \cup {o}
  /\ changes' = changes + 1
  /\ fresh' = FALSE
  /\ UNCHANGED <<desk, edits>>

Next ==
  \/ Process
  \/ UpdateFields
  \/ SelectPolicy
  \/ ResolveDuplicate
  \/ ResolveException
  \/ ComeOrGo

Spec == Init /\ [][Next]_vars

-----------------------------------------------------------------------------
(***************************************************************************)
(* What the matching promises.                                             *)
(***************************************************************************)
SameNumber(n, other) ==
  /\ n.policy_number # None
  /\ other.policy_number # None
  /\ n.policy_number.digits = other.policy_number.digits

BoundAlone(d) ==
  /\ SameNumber(d.notice, Book[d.policy])
  /\ d.notice.date_of_loss = None \/ InForce(d.notice.date_of_loss, Book[d.policy])
  /\ \A q \in Policies \ {d.policy} :
       d.matches[q] # None =>
         ~ RoundedReaches(ScoreOf(d.notice, q), PolicyHighThreshold)

(* matching.py:95: a policy is bound without an officer only where "there  *)
(* is no judgement in it": its number is the notice's, the loss is not     *)
(* known to be outside its period, and no other candidate on the notice is *)
(* nearly as good.  A rival beyond MaxCandidates is no candidate.          *)
BindsWithoutJudgement ==
  [][(desk'.policy # desk.policy /\ ~ desk'.confirmed) => BoundAlone(desk')]_vars

(* A notice that quotes a policy's number, however it is written, has that *)
(* policy among its candidates whatever else it says: the wrong day, site, *)
(* broker, line of business and organisation together do not outweigh it,  *)
(* unless it names somebody else, a full list of others does no worse, or  *)
(* what else it says brings up MaxCandidates policies with lower numbers.  *)
NumberFindsPolicy ==
  fresh =>
    \A p \in Policies :
      LET holder == Signals(desk.notice, Book[p]).insured_name IN
      (SameNumber(desk.notice, Book[p]) /\ (holder = Uncompared \/ 2 * holder >= Full))
        => \/ desk.matches[p] # None
           \/ MaxShown < Cardinality({q \in Policies :
                Rounded(ScoreOf(desk.notice, q)) >= Rounded(ScoreOf(desk.notice, p))})
           \/ MaxCandidates <= Cardinality(LowerNumbers(Narrowed(desk.notice), p))

(* Confirming a candidate never speaks against it: with its number and its *)
(* holder taken over, the policy scores no worse than it did, whatever the *)
(* notice has become since it was listed.                                  *)
SelectionRaises ==
  \A p \in Policies :
    desk.matches[p] # None =>
      LET was == ScoreOf(desk.notice, p)
          is  == ScoreOf(Select(desk, p).notice, p)
      IN  is.agreed * was.of >= was.agreed * is.of

(* The same policy on the same day for the same insured is asked about     *)
(* whatever the place, the words and the assets are said to be, as long as *)
(* no claimant and no outside reference speaks against it and fewer than   *)
(* MaxScanned newer reports of its kind share anything with the notice.    *)
RepeatIsAsked ==
  fresh =>
    \A o \in around :
      LET n == desk.notice
          other == File[o]
      IN  (/\ SameNumber(n, other)
           /\ n.date_of_loss # None /\ other.date_of_loss # None
           /\ Gap(n.date_of_loss, other.date_of_loss) <= 36
           /\ n.insured_name # None /\ n.insured_name = other.insured_name
           /\ NormaliseOrganisation(n.insured_name) # {}
           /\ n.claimant_name = None /\ other.claimant_name = None
           /\ n.external_reference = None
           /\ Cardinality(NewerOnes(ScanPool(desk, around), o)) < MaxScanned)
          => desk.duplicates[o] # "absent"

(* A report that quotes another policy is asked about only if at least two *)
(* other things agree: a shared day, name or reference alone never holds a *)
(* notice up.                                                              *)
OtherPolicyNeedsTwo ==
  fresh =>
    \A o \in Undecided(desk) :
      LET n == desk.notice
          other == File[o]
          pair == PairOf(desk, o)
      IN  (/\ n.policy_number # None /\ other.policy_number # None
           /\ n.policy_number.digits # other.policy_number.digits)
          => Cardinality({k \in DOMAIN pair \ {"policy"} : pair[k] > 0}) >= 2

(* While a candidate is undecided the hold for it is on record, and an open*)
(* hold has a candidate that justifies it.                                 *)
DuplicateHeld ==
  /\ Undecided(desk) # {} => desk.hold # "absent"
  /\ desk.hold = "open" =>
       \E o \in Reports : desk.duplicates[o] \in {"unresolved", "duplicate"}

=============================================================================
