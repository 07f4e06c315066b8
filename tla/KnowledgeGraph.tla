--------------------------- MODULE KnowledgeGraph ---------------------------
(***************************************************************************)
(* The read model of a claim: GET /claims/{reference}/knowledge-graph      *)
(* reads the claim's records one query after another, while the notice's   *)
(* handlers go on committing, and build_claim_graph joins what was read    *)
(* into entities and relationships, one section after another.             *)
(*                                                                         *)
(* An entity is what the handler is told apart by: its id, where it came   *)
(* from and its flag.  The rows of the detail panel, the labels and the    *)
(* excerpts are left out; a fact of a record is stated or not.             *)
(***************************************************************************)
EXTENDS Integers, Sequences, FiniteSets

CONSTANTS None,          \* no row, no event, no policy
          Desks,         \* the records a claim and its notice may have
          Rereadings,    \* what the notice's handlers may commit meanwhile
          PolicyBook,    \* the policy rows by id
          MaxCommits,    \* bound: commits during one request
          IncludeSeeded, \* knowledge_graph_seeded_entities
          Historical     \* the reference of the scaffolding's own claim

(* Records are read from tables: their rows, and what the findings list,   *)
(* are finitely many, and assets are counted.                              *)
Countable(records) ==
  /\ {"case", "documents", "fields", "exceptions", "duplicates", "analyses",
      "related_claims"} \subseteq DOMAIN records
  /\ \A part \in {"documents", "exceptions", "duplicates"} :
       IsFiniteSet(DOMAIN records[part])
  /\ IsFiniteSet(records.related_claims)
  /\ records.case # None => records.case.assets \in Nat
  /\ "loss.affected_assets" \in DOMAIN records.fields =>
       records.fields["loss.affected_assets"].names \in Nat
  /\ "coverage" \in DOMAIN records.analyses =>
       IsFiniteSet(DOMAIN records.analyses["coverage"].checks)
  /\ "fraud" \in DOMAIN records.analyses =>
       LET found == records.analyses["fraud"].indicators
       IN  Len(found) \in Nat /\ DOMAIN found = 1..Len(found)

ASSUME RecordsAssumption ==
  \A records \in Desks \cup Rereadings : Countable(records)

VARIABLES desk,     \* the committed records
          commits,  \* how often they changed since the request began
          reading,  \* how many of the queries were made
          input,    \* GraphInput
          graph,    \* _Builder: nodes, edges, and how many links were made
          section,  \* the section that runs next
          summary   \* GraphSummary

vars == <<desk, commits, reading, input, graph, section, summary>>

-----------------------------------------------------------------------------
(***************************************************************************)
(* What is read.  The claim's row brings its assignment, the notice's row  *)
(* its seven lists, and _graph_input asks for each of them again.          *)
(***************************************************************************)
NoticeParts ==
  <<"documents", "fields", "exceptions", "parties", "duplicates",
    "policy_matches", "analyses">>

Queries ==
  <<"claim", "assignment", "case">> \o NoticeParts \o NoticeParts
    \o <<"policy", "cat_event", "cat_candidate", "related_claims",
         "assignment">>

NoRows == [row \in {} |-> None]

Nothing ==
  [claim |-> None, assignment |-> None, case |-> None, documents |-> NoRows,
   fields |-> NoRows, exceptions |-> NoRows, parties |-> NoRows,
   duplicates |-> NoRows, policy_matches |-> NoRows, analyses |-> NoRows,
   policy |-> None, cat_event |-> None, cat_candidate |-> None,
   related_claims |-> {}]

States(row, fact) == row # None /\ fact \in row.stated

First(a, b) == IF a # None THEN a ELSE b

OfCase(in, column) == IF in.case = None THEN None ELSE in.case[column]

PolicyId(in) == First(in.claim.policy_id, OfCase(in, "policy_id"))

(* A list asked for again has the rows there are now, and the session      *)
(* keeps the values of those it already holds.                             *)
Listed(old, now) ==
  [row \in DOMAIN now |-> IF row \in DOMAIN old THEN old[row] ELSE now[row]]

(* Only the order is the database's.                                       *)
Ranked(old, now) ==
  [row \in DOMAIN now |->
     [Listed(old, now)[row] EXCEPT !.rank = now[row].rank]]

(* One query: the claim names its own notice, the policy and the           *)
(* catastrophe are those of the claim or else of the notice as they were   *)
(* read, and events are looked for when none is attributed and the loss is *)
(* dated.                                                                  *)
Answer(part) ==
  CASE part \in {NoticeParts[i] : i \in DOMAIN NoticeParts}
         /\ input.case = None -> NoRows
    [] part = "policy_matches" /\ input.case # None ->
         Ranked(input[part], desk[part])
    [] part \in {NoticeParts[i] : i \in DOMAIN NoticeParts} \ {"policy_matches"}
         /\ input.case # None -> Listed(input[part], desk[part])
    [] part = "policy" ->
         IF PolicyId(input) = None THEN None ELSE PolicyBook[PolicyId(input)]
    [] part = "cat_event" ->
         First(input.claim.cat_event, OfCase(input, "cat_event"))
    [] part = "cat_candidate" ->
         IF input.cat_event = None /\ States(input.claim, "date_of_loss")
         THEN desk.cat_candidate ELSE None
    [] part = "related_claims" ->
         IF States(input.claim, "policy_number")
         THEN desk.related_claims ELSE {}
    [] part = "assignment" -> First(input.assignment, desk.assignment)
    [] part \in {"claim", "case"} -> desk[part]

-----------------------------------------------------------------------------
(***************************************************************************)
(* Entities and relationships.  The first part of an id says what the      *)
(* entity is.                                                              *)
(***************************************************************************)
One(kind) == <<kind, 0>>

Claim    == One("claim")
Policy   == One("policy")
Insured  == One("insured")
Incident == One("incident")
Location == One("location")
Notice   == One("notification")
Broker   == One("broker")
Handler  == One("handler")
Adjuster == One("adjuster")
Limit    == <<"coverage", "limit">>

Kind(id) == id[1]

EvidenceKinds  == {"notification", "evidence"}
IndicatorKinds == {"fraud", "exception", "seeded"}

Node(id, provenance, flag) ==
  [id |-> id, provenance |-> provenance, flag |-> flag]

Edge(source, relationship, target, provenance) ==
  [source |-> source, relationship |-> relationship, target |-> target,
   provenance |-> provenance]

Ids(nodes) == {n.id : n \in nodes}

If(condition, set) == IF condition THEN set ELSE {}

(* The first entity with an id stays.                                      *)
Add(nodes, new) == nodes \cup {n \in new : n.id \notin Ids(nodes)}

LinkAnyTarget(nodes, new) == {e \in new : e.source \in Ids(nodes)} \* mutant

(* A relationship whose end does not exist is left out.                    *)
Link(nodes, new) ==
  {e \in new : /\ e.source \in Ids(nodes)
               /\ e.target \in Ids(nodes)
               /\ e.source # e.target}

(* edges is the set of the relationships, links their number: two with one *)
(* id count twice.                                                         *)
Extended(g, ns, es) ==
  LET nodes  == Add(g.nodes, ns)
      joined == Link(nodes, es)
  IN  [nodes |-> nodes, edges |-> g.edges \cup joined,
       links |-> g.links + Cardinality(joined)]

-----------------------------------------------------------------------------
(***************************************************************************)
(* The sections.  Each is a set of entities and a set of relationships.    *)
(***************************************************************************)
ClaimNodes == {Node(Claim, "record", "none")}

(* _selected_match: the chosen candidate, or else the best of them.        *)
Selected(in) ==
  LET rows   == {in.policy_matches[p] : p \in DOMAIN in.policy_matches}
      chosen == {m \in rows : m.selected}
  IN  IF rows = {} THEN None
      ELSE CHOOSE m \in IF chosen = {} THEN rows ELSE chosen :
             \A other \in rows : other.rank < m.rank => m.selected

Doubtful(in) ==
  \/ Selected(in) # None /\ Selected(in).strength # "exact"
  \/ in.case # None /\ ~ in.case.policy_confirmed

PolicyNamed(in) == in.policy # None \/ States(in.claim, "policy_number")

InsuredNamed(in) ==
  \/ States(in.policy, "insured_name")
  \/ States(in.claim, "insured_name")
  \/ States(in.case, "insured_name")

PolicyNodes(in) ==
  If(PolicyNamed(in),
     {Node(Policy, IF in.policy # None THEN "record" ELSE "derived",
           IF Doubtful(in) THEN "watch" ELSE "none")})

InsuredNodes(in) ==
  If(InsuredNamed(in), {Node(Insured, "record", "none")})

InsuredOfPolicyOnly(in) ==                                     \* mutant
  {Edge(Claim, "COVERED_BY", Policy, "derived"),
   Edge(Policy, "ISSUED_TO", Insured, "record")}

PolicyEdges(in) ==
  {Edge(Claim, "COVERED_BY", Policy, "derived"),
   Edge(Policy, "ISSUED_TO", Insured, "record")}
  \cup If(~ PolicyNamed(in), {Edge(Claim, "ISSUED_TO", Insured, "record")})

Happened(in) ==
  \/ States(in.case, "cause_of_loss") \/ States(in.claim, "loss_type")
  \/ States(in.claim, "loss_description") \/ States(in.case, "loss_description")

Located(in) ==
  States(in.claim, "loss_location") \/ States(in.case, "loss_location")

(* An address the policy does not have as its own is to be watched.        *)
IncidentNodes(in) ==
  If(Happened(in), {Node(Incident, "record", "none")})

LocationNodes(in) ==
  If(Happened(in) /\ Located(in),
     {Node(Location, "record",
           IF States(in.policy, "this_location") THEN "none" ELSE "watch")})

IncidentEdges ==
  {Edge(Claim, "CAUSED_BY", Incident, "record"),
   Edge(Incident, "OCCURRED_AT", Location, "record"),
   Edge(Policy, "SCHEDULES", Location, "derived")}

AssetsRead(in) ==
  IF "loss.affected_assets" \in DOMAIN in.fields
  THEN in.fields["loss.affected_assets"].names ELSE 0

AssetIds(in) ==
  {<<"asset", i>> :
     i \in 1..(IF States(in.case, "affected_assets")
               THEN in.case.assets ELSE AssetsRead(in))}

AssetNodes(in) == {Node(id, "derived", "none") : id \in AssetIds(in)}

AssetEdges(in) ==
  {Edge(IF Happened(in) THEN Incident ELSE Claim, "DAMAGED", id, "derived")
     : id \in AssetIds(in)}

CheckFlagFailedOnly(state) ==                                  \* mutant
  IF state = "fail" THEN "issue" ELSE "none"

CheckFlag(state) ==
  CASE state = "fail" -> "issue"
    [] state \in {"attention", "warn"} -> "watch"
    [] OTHER -> "none"

Checks(in) ==
  IF "coverage" \in DOMAIN in.analyses
  THEN in.analyses["coverage"].checks ELSE NoRows

Indicators(in) ==
  IF "fraud" \in DOMAIN in.analyses
  THEN in.analyses["fraud"].indicators ELSE <<>>

CoverageNodes(in) ==
  {Node(<<"coverage", key>>, "derived", CheckFlag(Checks(in)[key])) :
     key \in DOMAIN Checks(in)}

CoverageEdges(in, nodes) ==
  {Edge(end, "COVERED_UNDER", id, "derived")
     : end \in {Claim, Policy}, id \in Ids(CoverageNodes(in))}
  \cup {Edge(id, "COVERED_UNDER", Limit, "derived")
          : id \in {id \in Ids(nodes) : Kind(id) = "asset"}}

NoticeNodes(in) == If(in.case # None, {Node(Notice, "record", "none")})

DocumentNodes(in) ==
  {Node(<<"evidence", d>>, "record",
        IF in.documents[d].failed THEN "issue" ELSE "none") :
     d \in DOMAIN in.documents}

Cited(in) == {in.fields[path].document : path \in DOMAIN in.fields}

(* A document a value was read from evidences the incident as well.        *)
EvidenceEdges(in) ==
  {Edge(Claim, "SUPPORTED_BY", n.id, "record")
     : n \in NoticeNodes(in) \cup DocumentNodes(in)}
  \cup {Edge(<<"evidence", d>>, "EVIDENCES", Incident, "derived") :
          d \in DOMAIN in.documents \cap Cited(in)}

Roles(in) == {in.parties[p].role : p \in DOMAIN in.parties}

BrokerNodes(in) ==
  If("broker" \in Roles(in) \/ States(in.case, "reporter")
       \/ States(in.policy, "broker_name"),
     {Node(Broker, "record",
           IF States(in.policy, "this_broker") THEN "none" ELSE "watch")})

HandlerNodes(in) ==
  LET recommended == in.assignment # None /\ in.assignment.status # "assigned"
  IN  If(States(in.assignment, "handler_name")
           \/ States(in.claim, "handler_name"),
         {Node(Handler, IF in.assignment # None THEN "derived" ELSE "record",
               IF recommended THEN "watch" ELSE "none")})

AdjusterNodes(in) ==
  If(Roles(in) \cap {"adjuster", "loss_adjuster"} # {},
     {Node(Adjuster, "record", "none")})

PeopleEdges ==
  {Edge(Claim, "REPORTED_BY", Broker, "record"),
   Edge(Broker, "INSURES", Insured, "derived"),
   Edge(Claim, "ASSIGNED_TO", Handler, "derived"),
   Edge(Claim, "INSPECTED_BY", Adjuster, "record")}

(* The attributed event, or else the first that was in range.              *)
CatNodes(in) ==
  IF in.cat_event # None
  THEN {Node(<<"cat", in.cat_event>>, "record", "none")}
  ELSE If(in.cat_candidate # None,
          {Node(<<"cat", in.cat_candidate.reference>>, "derived",
                IF in.cat_candidate.peril_matches THEN "watch" ELSE "none")})

CatEdges(in) ==
  UNION {IF in.cat_event # None
         THEN {Edge(Claim, "MATCHES", n.id, "derived"),
               Edge(Incident, "MATCHES", n.id, "derived")}
         ELSE {Edge(Claim, "CONSIDERED", n.id, "derived")} : n \in CatNodes(in)}

SeverityFlag(severity) ==
  CASE severity = "high" -> "issue"
    [] severity = "medium" -> "watch"
    [] OTHER -> "none"

FraudNodes(in) ==
  {Node(<<"fraud", i>>, "derived", SeverityFlag(Indicators(in)[i])) :
     i \in DOMAIN Indicators(in)}

OpenExceptions(in) ==
  {code \in DOMAIN in.exceptions : in.exceptions[code].status = "open"}

ExceptionNodes(in) ==
  {Node(<<"exception", code>>, "derived",
        IF in.exceptions[code].blocking THEN "issue" ELSE "watch") :
     code \in OpenExceptions(in)}

RiskEdges(in) ==
  {Edge(Claim, "HAS_INDICATOR", n.id, "derived")
     : n \in FraudNodes(in) \cup ExceptionNodes(in)}

DuplicateNodes(in) ==
  {Node(<<"related", ref>>, "derived",
        IF in.duplicates[ref].likely /\ in.duplicates[ref].resolution = "open"
        THEN "issue" ELSE "watch") :
     ref \in DOMAIN in.duplicates}

OtherNodes(in) ==
  {Node(<<"related", ref>>, "record", "none") : ref \in in.related_claims}

RelatedEdges(ns) == {Edge(Claim, "RELATED_TO", n.id, "derived") : n \in ns}

OthersFirst(g, in) ==                                          \* mutant
  LET others == Extended(g, OtherNodes(in), RelatedEdges(OtherNodes(in)))
  IN  Extended(others, DuplicateNodes(in), RelatedEdges(DuplicateNodes(in)))

Related(g, in) ==
  LET dups == Extended(g, DuplicateNodes(in), RelatedEdges(DuplicateNodes(in)))
  IN  Extended(dups, OtherNodes(in), RelatedEdges(OtherNodes(in)))

(* The scaffolding: an adjuster, indicators and an earlier claim, each     *)
(* where the records have none.                                            *)
RepeatCause == <<"seeded", "repeat_cause_at_site">>
Amendment   == <<"seeded", "amendment_before_loss">>
History     == <<"related", Historical>>

Lacks(nodes, kind) == \A n \in nodes : Kind(n.id) # kind

SeededBeside(nodes) ==                                         \* mutant
  {Node(Amendment, "seeded", "issue"), Node(RepeatCause, "seeded", "watch")}
  \cup If(Adjuster \notin Ids(nodes), {Node(Adjuster, "seeded", "none")})
  \cup If(Lacks(nodes, "related"), {Node(History, "seeded", "watch")})

SeededNodes(nodes) ==
  If(Adjuster \notin Ids(nodes), {Node(Adjuster, "seeded", "none")})
  \cup If(Lacks(nodes, "fraud"),
          {Node(Amendment, "seeded", "issue"),
           Node(RepeatCause, "seeded", "watch")})
  \cup If(Lacks(nodes, "related"), {Node(History, "seeded", "watch")})

SeededEdges(nodes) ==
  If(Adjuster \notin Ids(nodes),
     {Edge(Claim, "INSPECTED_BY", Adjuster, "seeded")})
  \cup If(Lacks(nodes, "fraud"),
          {Edge(end, "HAS_INDICATOR", id, "seeded")
             : end \in {Claim, Policy}, id \in {Amendment, RepeatCause}})
  \cup If(Lacks(nodes, "related"),
          {Edge(Claim, "RELATED_TO", History, "seeded"),
           Edge(History, "OCCURRED_AT", Location, "seeded"),
           Edge(History, "EVIDENCES", RepeatCause, "seeded")})

-----------------------------------------------------------------------------
(***************************************************************************)
(* The summary.                                                            *)
(***************************************************************************)
OfKind(nodes, kinds) == {n \in nodes : Kind(n.id) \in kinds}

CoverageIssues(g) == {n \in OfKind(g.nodes, {"coverage"}) : n.flag # "none"}

(* _signals: a line that is not given, or its tone.                        *)
Tone(given, well) ==
  IF ~ given THEN "absent" ELSE IF well THEN "ok" ELSE "accent"

Signals(g, in) ==
  LET risk    == OfKind(g.nodes, IndicatorKinds)
      chosen  == Selected(in)
      covered == IF "coverage" \in DOMAIN in.analyses
                 THEN in.analyses["coverage"].confidence ELSE None
  IN  [coverage |->
         Tone(covered # None, CoverageIssues(g) = {} /\ covered = "high"),
       entity_match |-> Tone(chosen # None, chosen # None /\ chosen.strong),
       extraction |->
         Tone(States(in.case, "extraction_confidence"),
              States(in.case, "well_read")),
       cat_match |->
         IF OfKind(g.nodes, {"cat"}) = {} THEN "absent"
         ELSE IF in.cat_event # None THEN "accent" ELSE "neutral",
       risk |->
         IF risk = {} THEN "absent"
         ELSE IF \E n \in risk : n.flag = "issue" THEN "bad" ELSE "accent",
       related_claims |-> Tone(OfKind(g.nodes, {"related"}) # {}, FALSE)]

Summary(g, in) ==
  [entity_count       |-> Cardinality(g.nodes),
   relationship_count |-> g.links,
   evidence_count     |-> Cardinality(OfKind(g.nodes, EvidenceKinds)),
   coverage_issues    |-> Cardinality(CoverageIssues(g)),
   risk_indicators    |-> Cardinality(OfKind(g.nodes, IndicatorKinds)),
   related_claims     |-> Cardinality(OfKind(g.nodes, {"related"})),
   seeded_entities    |->
     Cardinality({n \in g.nodes : n.provenance = "seeded"}),
   signals            |-> Signals(g, in)]

-----------------------------------------------------------------------------
(***************************************************************************)
(* One request.                                                            *)
(***************************************************************************)
Init ==
  /\ desk \in Desks
  /\ commits = 0
  /\ reading = 0
  /\ input = Nothing
  /\ graph = [nodes |-> {}, edges |-> {}, links |-> 0]
  /\ section = "gather"
  /\ summary = None

(* A handler of the notice commits: the claim's own row is another's.      *)
Commit ==
  /\ section = "gather"
  /\ commits < MaxCommits
  /\ \E d \in Rereadings : desk' = [d EXCEPT !.claim = desk.claim]
  /\ commits' = commits + 1
  /\ UNCHANGED <<reading, input, graph, section, summary>>

(* The next query; when every one is answered the joining begins.          *)
Read ==
  /\ section = "gather"
  /\ reading' = reading + 1
  /\ input' = [input EXCEPT ![Queries[reading']] = Answer(Queries[reading'])]
  /\ section' = IF reading' = Len(Queries) THEN "claim" ELSE "gather"
  /\ UNCHANGED <<desk, commits, graph, summary>>

Runs(this, following, g) ==
  /\ section = this
  /\ section' = following
  /\ graph' = g
  /\ UNCHANGED <<desk, commits, reading, input, summary>>

ClaimNode == Runs("claim", "policy", Extended(graph, ClaimNodes, {}))

PolicyAndInsured ==
  Runs("policy", "incident",
       Extended(graph, PolicyNodes(input) \cup InsuredNodes(input),
                PolicyEdges(input)))

IncidentAndLocation ==
  Runs("incident", "assets",
       Extended(graph, IncidentNodes(input) \cup LocationNodes(input),
                IncidentEdges))

Assets ==
  Runs("assets", "coverage",
       Extended(graph, AssetNodes(input), AssetEdges(input)))

Coverage ==
  Runs("coverage", "evidence",
       Extended(graph, CoverageNodes(input), CoverageEdges(input, graph.nodes)))

Evidence ==
  Runs("evidence", "people",
       Extended(graph, NoticeNodes(input) \cup DocumentNodes(input),
                EvidenceEdges(input)))

People ==
  Runs("people", "catastrophe",
       Extended(graph,
                BrokerNodes(input) \cup HandlerNodes(input)
                  \cup AdjusterNodes(input),
                PeopleEdges))

Catastrophe ==
  Runs("catastrophe", "risk",
       Extended(graph, CatNodes(input), CatEdges(input)))

Risk ==
  Runs("risk", "related",
       Extended(graph, FraudNodes(input) \cup ExceptionNodes(input),
                RiskEdges(input)))

RelatedClaims == Runs("related", "seeded", Related(graph, input))

SeededEntities ==
  Runs("seeded", "summary",
       IF IncludeSeeded
       THEN Extended(graph, SeededNodes(graph.nodes), SeededEdges(graph.nodes))
       ELSE graph)

Summarise ==
  /\ section = "summary"
  /\ section' = "done"
  /\ summary' = Summary(graph, input)
  /\ UNCHANGED <<desk, commits, reading, input, graph>>

Next ==
  \/ Commit
  \/ Read
  \/ ClaimNode
  \/ PolicyAndInsured
  \/ IncidentAndLocation
  \/ Assets
  \/ Coverage
  \/ Evidence
  \/ People
  \/ Catastrophe
  \/ Risk
  \/ RelatedClaims
  \/ SeededEntities
  \/ Summarise

Spec == Init /\ [][Next]_vars

-----------------------------------------------------------------------------
(***************************************************************************)
(* What the read model promises.                                           *)
(***************************************************************************)

(* Every relationship joins two different entities of the graph and no id  *)
(* stands for two entities, whatever the sections add and in whatever      *)
(* state the records are: link drops what it cannot join and add keeps the *)
(* first.                                                                  *)
OneEntityPerId ==
  \A n, m \in graph.nodes : n.id = m.id => n = m

EdgesJoin ==
  \A e \in graph.edges : /\ e.source \in Ids(graph.nodes)
                         /\ e.target \in Ids(graph.nodes)
                         /\ e.source # e.target

WellFormed == OneEntityPerId /\ EdgesJoin

(* "The claim every other entity in this graph is connected to": no        *)
(* entity is ever out of reach, through no more than one other, with no    *)
(* policy, no incident and no notice to hang it on.                        *)
Joined(a, b) ==
  \E e \in graph.edges : {e.source, e.target} = {a, b}

ReachesClaim ==
  \A id \in Ids(graph.nodes) \ {Claim} :
    \/ Joined(Claim, id)
    \/ \E other \in Ids(graph.nodes) : Joined(Claim, other) /\ Joined(other, id)

(* "A real adjuster must never be shadowed", "a real indicator is never    *)
(* diluted": a seeded entity stands only where the records have none of    *)
(* its kind, and a relationship is marked as scaffolding exactly when it   *)
(* ends at a seeded entity, so that taking the block out takes nothing of  *)
(* the records with it.                                                    *)
Seeded == {n \in graph.nodes : n.provenance = "seeded"}

ShadowedKind(n) == IF Kind(n.id) = "seeded" THEN "fraud" ELSE Kind(n.id)

ScaffoldingApart ==
  /\ \A n \in Seeded : \A m \in graph.nodes \ Seeded :
       Kind(m.id) # ShadowedKind(n)
  /\ \A e \in graph.edges :
       e.provenance = "seeded" <=> {e.source, e.target} \cap Ids(Seeded) # {}

(* A claim that duplicate detection scored and that is also another claim  *)
(* on the policy is shown as the duplicate it may be, never as "same       *)
(* policy" history: the first section to name a claim has the say.         *)
DuplicatesStay ==
  section \in {"seeded", "summary", "done"} =>
    \A ref \in DOMAIN input.duplicates :
      \E n \in graph.nodes : /\ n.id = <<"related", ref>>
                             /\ n.provenance = "derived"
                             /\ n.flag # "none"

(* The tiles above the graph agree with the records it was built from: the *)
(* checks that want a decision, the evidence, the indicators and open      *)
(* exceptions, the other claims counted once however many sections name    *)
(* them.                                                                   *)
Undecided(in) ==
  {key \in DOMAIN Checks(in) : Checks(in)[key] \in {"fail", "warn", "attention"}}

SeededOf(kind) == {n \in Seeded : Kind(n.id) = kind}

TilesCount ==
  section = "done" =>
    /\ summary.coverage_issues = Cardinality(Undecided(input))
    /\ summary.evidence_count =
         Cardinality(DOMAIN input.documents) + (IF input.case = None THEN 0 ELSE 1)
    /\ summary.risk_indicators =
         Len(Indicators(input)) + Cardinality(OpenExceptions(input))
           + Cardinality(SeededOf("seeded"))
    /\ summary.related_claims =
         Cardinality(DOMAIN input.duplicates \cup input.related_claims)
           + Cardinality(SeededOf("related"))
    /\ summary.relationship_count =
         Cardinality(graph.edges)
           + Cardinality(DOMAIN input.duplicates \cap input.related_claims)

=============================================================================
