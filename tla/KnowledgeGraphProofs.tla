------------------------ MODULE KnowledgeGraphProofs ------------------------
(* Theorems about the graph of a claim, for any records, any commits while *)
(* they are read and any policies.                                         *)
EXTENDS KnowledgeGraph, FiniteSetTheorems, TLAPS

-----------------------------------------------------------------------------
(* What holds of a set of entities and of a graph.                         *)
Unique(nodes) == \A n, m \in nodes : n.id = m.id => n = m

Ends(g) == \A e \in g.edges : /\ e.source \in Ids(g.nodes)
                              /\ e.target \in Ids(g.nodes)
                              /\ e.source # e.target

Tie(g, a, b) == \E e \in g.edges : {e.source, e.target} = {a, b}

Reached(g, id) ==
  \/ id = Claim
  \/ Tie(g, Claim, id)
  \/ \E other \in Ids(g.nodes) : Tie(g, Claim, other) /\ Tie(g, other, id)

(* Nothing of the scaffolding, and nothing under one of its ids.           *)
Recorded(nodes) ==
  \A n \in nodes : /\ n.provenance # "seeded"
                   /\ Kind(n.id) # "seeded"
                   /\ Kind(n.id) = "adjuster" => n.id = Adjuster

Drawn(edges) == \A e \in edges : e.provenance # "seeded"

-----------------------------------------------------------------------------
(* What a section does to the graph.                                       *)
LEMMA Extends ==
  ASSUME NEW g, NEW ns, NEW es
  PROVE  LET h == Extended(g, ns, es)
         IN  /\ g.nodes \subseteq h.nodes /\ g.edges \subseteq h.edges
             /\ h.nodes \subseteq g.nodes \cup ns
             /\ h.edges \subseteq g.edges \cup es
             /\ Ids(h.nodes) = Ids(g.nodes) \cup Ids(ns)
             /\ h.edges = g.edges \cup Link(h.nodes, es)
BY DEF Extended, Add, Link, Ids

LEMMA ExtendsUnique ==
  ASSUME NEW g, NEW ns, NEW es, Unique(g.nodes), Unique(ns)
  PROVE  Unique(Extended(g, ns, es).nodes)
BY DEF Extended, Add, Ids, Unique

LEMMA ExtendsEnds ==
  ASSUME NEW g, NEW ns, NEW es, Ends(g)
  PROVE  Ends(Extended(g, ns, es))
<1> DEFINE h == Extended(g, ns, es)
<1>1. Ids(g.nodes) \subseteq Ids(h.nodes) /\ h.edges = g.edges \cup Link(h.nodes, es)
  BY Extends
<1> HIDE DEF h
<1>2. QED
  BY <1>1 DEF Ends, Link, h

LEMMA ExtendsReached ==
  ASSUME NEW g, NEW ns, NEW es,
         \A id \in Ids(g.nodes) : Reached(g, id),
         \A id \in Ids(ns) : Reached(Extended(g, ns, es), id)
  PROVE  \A id \in Ids(Extended(g, ns, es).nodes) : Reached(Extended(g, ns, es), id)
<1> DEFINE h == Extended(g, ns, es)
<1>1. /\ Ids(h.nodes) = Ids(g.nodes) \cup Ids(ns)
      /\ g.edges \subseteq h.edges
  BY Extends
<1> HIDE DEF h
<1>2. \A a, b : Tie(g, a, b) => Tie(h, a, b)
  BY <1>1 DEF Tie
<1>3. \A id : Reached(g, id) => Reached(h, id)
  BY <1>1, <1>2 DEF Reached
<1>4. QED
  BY <1>1, <1>3 DEF h

LEMMA ExtendsRecorded ==
  ASSUME NEW g, NEW ns, NEW es,
         Recorded(g.nodes), Drawn(g.edges), Recorded(ns), Drawn(es)
  PROVE  Recorded(Extended(g, ns, es).nodes) /\ Drawn(Extended(g, ns, es).edges)
BY Extends DEF Recorded, Drawn

(* A relationship with the claim whose other end is there ties it.         *)
LEMMA TiesClaim ==
  ASSUME NEW g, NEW ns, NEW es, NEW id, NEW e \in es,
         {e.source, e.target} = {Claim, id}, Claim # id,
         Claim \in Ids(g.nodes), id \in Ids(ns)
  PROVE  Tie(Extended(g, ns, es), Claim, id)
<1> DEFINE h == Extended(g, ns, es)
<1>1. /\ Ids(h.nodes) = Ids(g.nodes) \cup Ids(ns)
      /\ h.edges = g.edges \cup Link(h.nodes, es)
  BY Extends
<1> HIDE DEF h
<1>2. /\ e.source \in Ids(h.nodes) /\ e.target \in Ids(h.nodes)
      /\ e.source # e.target
  BY <1>1
<1>3. e \in h.edges
  BY <1>1, <1>2 DEF Link
<1>4. QED
  BY <1>3 DEF Tie, h

-----------------------------------------------------------------------------
(* What each section adds: entities told apart by their ids, nothing       *)
(* seeded, each within reach of the claim.                                 *)
Fine(g, ns, es) ==
  /\ Unique(ns)
  /\ Recorded(ns)
  /\ Drawn(es)
  /\ \A id \in Ids(ns) : Reached(Extended(g, ns, es), id)

LEMMA ClaimFine ==
  ASSUME NEW g
  PROVE  Fine(g, ClaimNodes, {})
BY DEF Fine, ClaimNodes, Node, Ids, Unique, Recorded, Drawn, Reached, Claim, One, Kind

LEMMA PolicyFine ==
  ASSUME NEW g, NEW in, Claim \in Ids(g.nodes)
  PROVE  Fine(g, PolicyNodes(in) \cup InsuredNodes(in), PolicyEdges(in))
<1> DEFINE ns == PolicyNodes(in) \cup InsuredNodes(in)
           es == PolicyEdges(in)
           h  == Extended(g, ns, es)
<1>1. Unique(ns) /\ Recorded(ns)
  BY DEF Unique, Recorded, PolicyNodes, InsuredNodes, If, Node, Kind, Policy, Insured, One
<1>2. Drawn(es)
  BY DEF Drawn, PolicyEdges, If, Edge
<1>3. Ids(ns) \subseteq {Policy, Insured}
  BY DEF Ids, PolicyNodes, InsuredNodes, If, Node
<1>4. Claim # Policy /\ Claim # Insured /\ Policy # Insured
  BY DEF Claim, Policy, Insured, One
<1>5. /\ PolicyNamed(in) => Policy \in Ids(ns)
      /\ ~ PolicyNamed(in) => Policy \notin Ids(ns)
  <2>1. \A n \in ns : n.id = Policy => PolicyNamed(in)
    BY <1>4 DEF PolicyNodes, InsuredNodes, If, Node
  <2>2. PolicyNamed(in) => \E n \in ns : n.id = Policy
    <3>1. DEFINE n == Node(Policy, IF in.policy # None THEN "record" ELSE "derived",
                           IF Doubtful(in) THEN "watch" ELSE "none")
    <3>2. n.id = Policy
      BY DEF Node
    <3>3. PolicyNamed(in) => n \in ns
      BY DEF PolicyNodes, If
    <3>4. QED
      BY <3>2, <3>3
  <2> HIDE DEF ns
  <2>3. QED
    BY <2>1, <2>2 DEF Ids
<1>6. Policy \in Ids(ns) => Tie(h, Claim, Policy)
  <2>1. DEFINE e == Edge(Claim, "COVERED_BY", Policy, "derived")
  <2>2. e \in es /\ {e.source, e.target} = {Claim, Policy}
    BY DEF PolicyEdges, Edge
  <2>3. QED
    BY <1>4, <2>2, TiesClaim
<1>7. Insured \in Ids(ns) => Reached(h, Insured)
  <2>1. ASSUME Insured \in Ids(ns), PolicyNamed(in)
        PROVE  Tie(h, Policy, Insured) /\ Policy \in Ids(h.nodes)
    <3>1. DEFINE e == Edge(Policy, "ISSUED_TO", Insured, "record")
    <3>2. e \in es /\ e.source = Policy /\ e.target = Insured
      BY DEF PolicyEdges, Edge
    <3>3. /\ Ids(h.nodes) = Ids(g.nodes) \cup Ids(ns)
          /\ h.edges = g.edges \cup Link(h.nodes, es)
      BY Extends
    <3> HIDE DEF h, e
    <3>4. e \in h.edges
      BY <2>1, <3>2, <3>3, <1>4, <1>5 DEF Link
    <3>5. QED
      BY <2>1, <3>2, <3>3, <3>4, <1>5 DEF Tie
  <2>2. ASSUME Insured \in Ids(ns), ~ PolicyNamed(in)
        PROVE  Tie(h, Claim, Insured)
    <3>1. DEFINE e == Edge(Claim, "ISSUED_TO", Insured, "record")
    <3>2. e \in es /\ {e.source, e.target} = {Claim, Insured}
      BY <2>2 DEF PolicyEdges, If, Edge
    <3>3. QED
      BY <2>2, <3>2, <1>4, TiesClaim
  <2> HIDE DEF h, ns, es
  <2>3. QED
    BY <2>1, <2>2, <1>5, <1>6 DEF Reached
<1>8. QED
  <2> HIDE DEF ns, es, h
  <2>1. \A id \in Ids(ns) : Reached(h, id)
    BY <1>3, <1>6, <1>7 DEF Reached
  <2>2. QED
    BY <1>1, <1>2, <2>1 DEF Fine, ns, es, h

LEMMA IncidentFine ==
  ASSUME NEW g, NEW in, Claim \in Ids(g.nodes)
  PROVE  LET ns == IncidentNodes(in) \cup LocationNodes(in)
             h  == Extended(g, ns, IncidentEdges)
         IN  /\ Fine(g, ns, IncidentEdges)
             /\ Happened(in) => Tie(h, Claim, Incident) /\ Incident \in Ids(h.nodes)
<1> DEFINE ns == IncidentNodes(in) \cup LocationNodes(in)
           es == IncidentEdges
           h  == Extended(g, ns, es)
<1>1. Unique(ns) /\ Recorded(ns)
  BY DEF Unique, Recorded, IncidentNodes, LocationNodes, If, Node, Kind, Incident, Location, One
<1>2. Drawn(es)
  BY DEF Drawn, IncidentEdges, Edge
<1>3. /\ Ids(ns) \subseteq {Incident, Location}
      /\ Happened(in) => Incident \in Ids(ns)
      /\ ~ Happened(in) => Ids(ns) = {}
  <2>1. \A n \in ns : n.id \in {Incident, Location} /\ Happened(in)
    BY DEF IncidentNodes, LocationNodes, If, Node
  <2>2. DEFINE n == Node(Incident, "record", "none")
  <2>3. n.id = Incident /\ (Happened(in) => n \in ns)
    BY DEF IncidentNodes, If, Node
  <2> HIDE DEF ns, n
  <2>4. QED
    BY <2>1, <2>3 DEF Ids
<1>4. Claim # Incident /\ Incident # Location
  BY DEF Claim, Incident, Location, One
<1>5. Happened(in) => Tie(h, Claim, Incident)
  <2>1. DEFINE e == Edge(Claim, "CAUSED_BY", Incident, "record")
  <2>2. e \in es /\ {e.source, e.target} = {Claim, Incident}
    BY DEF IncidentEdges, Edge
  <2>3. QED
    BY <1>3, <1>4, <2>2, TiesClaim
<1>6. /\ Ids(h.nodes) = Ids(g.nodes) \cup Ids(ns)
      /\ h.edges = g.edges \cup Link(h.nodes, es)
  BY Extends
<1>7. Location \in Ids(ns) => Tie(h, Incident, Location)
  <2>1. DEFINE e == Edge(Incident, "OCCURRED_AT", Location, "record")
  <2>2. e \in es /\ e.source = Incident /\ e.target = Location
    BY DEF IncidentEdges, Edge
  <2> HIDE DEF h, ns, es, e
  <2>3. Location \in Ids(ns) => e \in h.edges
    BY <2>2, <1>3, <1>4, <1>6 DEF Link
  <2>4. QED
    BY <2>2, <2>3 DEF Tie
<1>8. QED
  <2> HIDE DEF ns, es, h
  <2>1. \A id \in Ids(ns) : Reached(h, id)
    BY <1>3, <1>5, <1>6, <1>7 DEF Reached
  <2>2. QED
    BY <1>1, <1>2, <1>3, <1>5, <1>6, <2>1 DEF Fine, ns, es, h

LEMMA AssetsFine ==
  ASSUME NEW g, NEW in, Claim \in Ids(g.nodes),
         Happened(in) => Tie(g, Claim, Incident) /\ Incident \in Ids(g.nodes)
  PROVE  Fine(g, AssetNodes(in), AssetEdges(in))
<1> DEFINE ns == AssetNodes(in)
           es == AssetEdges(in)
           h  == Extended(g, ns, es)
           end == IF Happened(in) THEN Incident ELSE Claim
<1>1. Unique(ns) /\ Recorded(ns)
  BY DEF Unique, Recorded, AssetNodes, AssetIds, Node, Kind
<1>2. Drawn(es)
  BY DEF Drawn, AssetEdges, Edge
<1>3. /\ Ids(h.nodes) = Ids(g.nodes) \cup Ids(ns)
      /\ h.edges = g.edges \cup Link(h.nodes, es)
  BY Extends
<1>4. ASSUME NEW id \in Ids(ns)
      PROVE  Reached(h, id)
  <2>1. DEFINE e == Edge(end, "DAMAGED", id, "derived")
  <2>2. id \in AssetIds(in)
    BY <1>4 DEF Ids, AssetNodes, Node
  <2>3. id # Claim /\ id # Incident
    BY <2>2 DEF AssetIds, Claim, Incident, One
  <2>4. e \in es /\ e.source = end /\ e.target = id
    BY <2>2 DEF AssetEdges, Edge
  <2> HIDE DEF h, ns, es, e
  <2>5. end \in Ids(h.nodes) /\ end # id
    BY <1>3, <2>3
  <2>6. e \in h.edges
    BY <1>3, <1>4, <2>4, <2>5 DEF Link
  <2>7. Tie(h, end, id)
    BY <2>4, <2>6 DEF Tie
  <2>8. CASE Happened(in)
    <3>1. Tie(h, Claim, Incident)
      BY <2>8, <1>3 DEF Tie
    <3>2. QED
      BY <2>8, <2>5, <2>7, <3>1 DEF Reached
  <2>9. CASE ~ Happened(in)
    BY <2>9, <2>7 DEF Reached
  <2>10. QED
    BY <2>8, <2>9
<1>5. QED
  <2> HIDE DEF ns, es, h
  <2>1. QED
    BY <1>1, <1>2, <1>4 DEF Fine, ns, es, h

(* A section whose every entity is joined to the claim directly.           *)
LEMMA TiedFine ==
  ASSUME NEW g, NEW ns, NEW es, Claim \in Ids(g.nodes),
         Unique(ns), Recorded(ns), Drawn(es),
         \A n \in ns : /\ n.id # Claim
                       /\ \E e \in es : {e.source, e.target} = {Claim, n.id}
  PROVE  Fine(g, ns, es)
<1> DEFINE h == Extended(g, ns, es)
<1>1. ASSUME NEW id \in Ids(ns)
      PROVE  Reached(h, id)
  <2>1. PICK n \in ns : n.id = id
    BY DEF Ids
  <2>2. PICK e \in es : {e.source, e.target} = {Claim, id}
    BY <2>1
  <2>3. Tie(h, Claim, id)
    BY <2>1, <2>2, TiesClaim
  <2>4. QED
    BY <2>3 DEF Reached
<1>2. QED
  BY <1>1 DEF Fine

LEMMA CoverageFine ==
  ASSUME NEW g, NEW in, Claim \in Ids(g.nodes)
  PROVE  Fine(g, CoverageNodes(in), CoverageEdges(in, g.nodes))
<1> DEFINE ns == CoverageNodes(in)
           es == CoverageEdges(in, g.nodes)
<1>1. Unique(ns) /\ Recorded(ns)
  BY DEF Unique, Recorded, CoverageNodes, Node, Kind
<1>2. Drawn(es)
  BY DEF Drawn, CoverageEdges, Edge
<1>3. ASSUME NEW n \in ns
      PROVE  n.id # Claim /\ \E e \in es : {e.source, e.target} = {Claim, n.id}
  <2>1. n.id # Claim
    BY DEF CoverageNodes, Node, Claim, One
  <2>2. DEFINE e == Edge(Claim, "COVERED_UNDER", n.id, "derived")
  <2>3. n.id \in Ids(ns)
    BY DEF Ids
  <2>4. e \in es /\ {e.source, e.target} = {Claim, n.id}
    BY <2>3 DEF CoverageEdges, Edge
  <2>5. QED
    BY <2>1, <2>4
<1> HIDE DEF ns, es
<1>4. QED
  BY <1>1, <1>2, <1>3, TiedFine DEF ns, es

LEMMA EvidenceFine ==
  ASSUME NEW g, NEW in, Claim \in Ids(g.nodes)
  PROVE  Fine(g, NoticeNodes(in) \cup DocumentNodes(in), EvidenceEdges(in))
<1> DEFINE ns == NoticeNodes(in) \cup DocumentNodes(in)
           es == EvidenceEdges(in)
<1>1. Unique(ns) /\ Recorded(ns)
  BY DEF Unique, Recorded, NoticeNodes, DocumentNodes, If, Node, Kind, Notice, One
<1>2. Drawn(es)
  BY DEF Drawn, EvidenceEdges, Edge
<1>3. ASSUME NEW n \in ns
      PROVE  n.id # Claim /\ \E e \in es : {e.source, e.target} = {Claim, n.id}
  <2>1. n.id # Claim
    BY DEF NoticeNodes, DocumentNodes, If, Node, Claim, Notice, One
  <2>2. DEFINE e == Edge(Claim, "SUPPORTED_BY", n.id, "record")
  <2>3. e \in es /\ {e.source, e.target} = {Claim, n.id}
    BY DEF EvidenceEdges, Edge
  <2>4. QED
    BY <2>1, <2>3
<1> HIDE DEF ns, es
<1>4. QED
  BY <1>1, <1>2, <1>3, TiedFine DEF ns, es

LEMMA PeopleFine ==
  ASSUME NEW g, NEW in, Claim \in Ids(g.nodes)
  PROVE  Fine(g, BrokerNodes(in) \cup HandlerNodes(in) \cup AdjusterNodes(in), PeopleEdges)
<1> DEFINE ns == BrokerNodes(in) \cup HandlerNodes(in) \cup AdjusterNodes(in)
           es == PeopleEdges
<1>1. Unique(ns) /\ Recorded(ns)
  BY DEF Unique, Recorded, BrokerNodes, HandlerNodes, AdjusterNodes, If, Node, Kind,
         Broker, Handler, Adjuster, One
<1>2. Drawn(es)
  BY DEF Drawn, PeopleEdges, Edge
<1>3. ASSUME NEW n \in ns
      PROVE  n.id # Claim /\ \E e \in es : {e.source, e.target} = {Claim, n.id}
  <2>1. n.id \in {Broker, Handler, Adjuster}
    BY DEF BrokerNodes, HandlerNodes, AdjusterNodes, If, Node
  <2>2. Claim \notin {Broker, Handler, Adjuster}
    BY DEF Claim, Broker, Handler, Adjuster, One
  <2>3. \A id \in {Broker, Handler, Adjuster} :
          \E e \in es : {e.source, e.target} = {Claim, id}
    BY DEF PeopleEdges, Edge
  <2>4. QED
    BY <2>1, <2>2, <2>3
<1> HIDE DEF ns, es
<1>4. QED
  BY <1>1, <1>2, <1>3, TiedFine DEF ns, es

LEMMA CatastropheFine ==
  ASSUME NEW g, NEW in, Claim \in Ids(g.nodes)
  PROVE  Fine(g, CatNodes(in), CatEdges(in))
<1> DEFINE ns == CatNodes(in)
           es == CatEdges(in)
<1>1. Unique(ns) /\ Recorded(ns)
  BY DEF Unique, Recorded, CatNodes, If, Node, Kind
<1>2. Drawn(es)
  BY DEF Drawn, CatEdges, Edge
<1>3. ASSUME NEW n \in ns
      PROVE  n.id # Claim /\ \E e \in es : {e.source, e.target} = {Claim, n.id}
  <2>1. n.id # Claim
    BY DEF CatNodes, If, Node, Claim, One
  <2>2. DEFINE e == Edge(Claim, IF in.cat_event # None THEN "MATCHES" ELSE "CONSIDERED",
                         n.id, "derived")
  <2>3. e \in es /\ {e.source, e.target} = {Claim, n.id}
    BY DEF CatEdges, Edge
  <2>4. QED
    BY <2>1, <2>3
<1> HIDE DEF ns, es
<1>4. QED
  BY <1>1, <1>2, <1>3, TiedFine DEF ns, es

LEMMA RiskFine ==
  ASSUME NEW g, NEW in, Claim \in Ids(g.nodes)
  PROVE  Fine(g, FraudNodes(in) \cup ExceptionNodes(in), RiskEdges(in))
<1> DEFINE ns == FraudNodes(in) \cup ExceptionNodes(in)
           es == RiskEdges(in)
<1>1. Unique(ns) /\ Recorded(ns)
  BY DEF Unique, Recorded, FraudNodes, ExceptionNodes, Node, Kind
<1>2. Drawn(es)
  BY DEF Drawn, RiskEdges, Edge
<1>3. ASSUME NEW n \in ns
      PROVE  n.id # Claim /\ \E e \in es : {e.source, e.target} = {Claim, n.id}
  <2>1. n.id # Claim
    BY DEF FraudNodes, ExceptionNodes, Node, Claim, One
  <2>2. DEFINE e == Edge(Claim, "HAS_INDICATOR", n.id, "derived")
  <2>3. e \in es /\ {e.source, e.target} = {Claim, n.id}
    BY DEF RiskEdges, Edge
  <2>4. QED
    BY <2>1, <2>3
<1> HIDE DEF ns, es
<1>4. QED
  BY <1>1, <1>2, <1>3, TiedFine DEF ns, es

LEMMA RelatedToFine ==
  ASSUME NEW g, NEW in, Claim \in Ids(g.nodes),
         NEW ns \in {DuplicateNodes(in), OtherNodes(in)}
  PROVE  Fine(g, ns, RelatedEdges(ns))
<1> DEFINE es == RelatedEdges(ns)
<1>1. Unique(ns) /\ Recorded(ns)
  BY DEF Unique, Recorded, DuplicateNodes, OtherNodes, Node, Kind
<1>2. Drawn(es)
  BY DEF Drawn, RelatedEdges, Edge
<1>3. ASSUME NEW n \in ns
      PROVE  n.id # Claim /\ \E e \in es : {e.source, e.target} = {Claim, n.id}
  <2>1. n.id # Claim
    BY DEF DuplicateNodes, OtherNodes, Node, Claim, One
  <2>2. DEFINE e == Edge(Claim, "RELATED_TO", n.id, "derived")
  <2>3. e \in es /\ {e.source, e.target} = {Claim, n.id}
    BY DEF RelatedEdges, Edge
  <2>4. QED
    BY <2>1, <2>3
<1> HIDE DEF es
<1>4. QED
  BY <1>1, <1>2, <1>3, TiedFine DEF es

-----------------------------------------------------------------------------
(* The scaffolding, added to what the records gave.                        *)
Standing(g) == {n \in g.nodes : n.provenance = "seeded"}

Apart(g) ==
  /\ \A n \in Standing(g) : \A m \in g.nodes \ Standing(g) : Kind(m.id) # ShadowedKind(n)
  /\ \A e \in g.edges :
       e.provenance = "seeded" <=> {e.source, e.target} \cap Ids(Standing(g)) # {}

LEMMA ApartIsProperty == ScaffoldingApart <=> Apart(graph)
BY DEF ScaffoldingApart, Apart, Seeded, Standing

LEMMA RecordedIsApart ==
  ASSUME NEW g, Recorded(g.nodes), Drawn(g.edges)
  PROVE  Apart(g)
BY DEF Recorded, Drawn, Apart, Standing, Ids

SeededIds == {Adjuster, Amendment, RepeatCause, History}

LEMMA SeededShape ==
  ASSUME NEW nodes, Recorded(nodes)
  PROVE  /\ \A n \in SeededNodes(nodes) :
               /\ n.provenance = "seeded" /\ n.id \in SeededIds /\ n.id \notin Ids(nodes)
               /\ \A m \in nodes : Kind(m.id) # ShadowedKind(n)
         /\ \A e \in SeededEdges(nodes) :
               /\ e.provenance = "seeded"
               /\ {e.source, e.target} \cap Ids(SeededNodes(nodes)) # {}
<1> DEFINE ns == SeededNodes(nodes)
           adjuster == Node(Adjuster, "seeded", "none")
           amendment == Node(Amendment, "seeded", "issue")
           repeat == Node(RepeatCause, "seeded", "watch")
           history == Node(History, "seeded", "watch")
<1>1. \A n \in ns :
        \/ n = adjuster /\ Adjuster \notin Ids(nodes)
        \/ n \in {amendment, repeat} /\ Lacks(nodes, "fraud")
        \/ n = history /\ Lacks(nodes, "related")
  BY DEF SeededNodes, If
<1>2. /\ adjuster.id = Adjuster /\ amendment.id = Amendment
      /\ repeat.id = RepeatCause /\ history.id = History
      /\ adjuster.provenance = "seeded" /\ amendment.provenance = "seeded"
      /\ repeat.provenance = "seeded" /\ history.provenance = "seeded"
  BY DEF Node
<1>3. /\ Kind(Adjuster) = "adjuster" /\ Kind(Amendment) = "seeded"
      /\ Kind(RepeatCause) = "seeded" /\ Kind(History) = "related"
  BY DEF Kind, Adjuster, One, Amendment, RepeatCause, History
<1>4. ASSUME NEW n \in ns
      PROVE  /\ n.provenance = "seeded" /\ n.id \in SeededIds /\ n.id \notin Ids(nodes)
             /\ \A m \in nodes : Kind(m.id) # ShadowedKind(n)
  <2> HIDE DEF adjuster, amendment, repeat, history, ns
  <2>1. CASE n = adjuster /\ Adjuster \notin Ids(nodes)
    BY <2>1, <1>2, <1>3 DEF SeededIds, Recorded, ShadowedKind, Ids
  <2>2. CASE n \in {amendment, repeat} /\ Lacks(nodes, "fraud")
    BY <2>2, <1>2, <1>3 DEF SeededIds, Recorded, ShadowedKind, Ids, Lacks
  <2>3. CASE n = history /\ Lacks(nodes, "related")
    BY <2>3, <1>2, <1>3 DEF SeededIds, Recorded, ShadowedKind, Ids, Lacks
  <2>4. QED
    BY <1>1, <2>1, <2>2, <2>3
<1>5. /\ Adjuster \notin Ids(nodes) => adjuster \in ns
      /\ Lacks(nodes, "fraud") => amendment \in ns /\ repeat \in ns
      /\ Lacks(nodes, "related") => history \in ns
  BY DEF SeededNodes, If
<1>6. ASSUME NEW e \in SeededEdges(nodes)
      PROVE  /\ e.provenance = "seeded"
             /\ {e.source, e.target} \cap Ids(ns) # {}
  <2>1. \/ /\ Adjuster \notin Ids(nodes)
           /\ e = Edge(Claim, "INSPECTED_BY", Adjuster, "seeded")
        \/ /\ Lacks(nodes, "fraud")
           /\ \E end \in {Claim, Policy}, id \in {Amendment, RepeatCause} :
                e = Edge(end, "HAS_INDICATOR", id, "seeded")
        \/ /\ Lacks(nodes, "related")
           /\ e \in {Edge(Claim, "RELATED_TO", History, "seeded"),
                     Edge(History, "OCCURRED_AT", Location, "seeded"),
                     Edge(History, "EVIDENCES", RepeatCause, "seeded")}
    BY DEF SeededEdges, If
  <2>2. /\ e.provenance = "seeded"
        /\ \/ Adjuster \notin Ids(nodes) /\ e.target = Adjuster
           \/ Lacks(nodes, "fraud") /\ e.target \in {Amendment, RepeatCause}
           \/ Lacks(nodes, "related") /\ History \in {e.source, e.target}
    BY <2>1 DEF Edge
  <2> HIDE DEF adjuster, amendment, repeat, history, ns
  <2>3. /\ Adjuster \notin Ids(nodes) => Adjuster \in Ids(ns)
        /\ Lacks(nodes, "fraud") => Amendment \in Ids(ns) /\ RepeatCause \in Ids(ns)
        /\ Lacks(nodes, "related") => History \in Ids(ns)
    BY <1>2, <1>5 DEF Ids
  <2>4. QED
    BY <2>2, <2>3
<1>7. QED
  BY <1>4, <1>6

LEMMA SeededApart ==
  ASSUME NEW g, Recorded(g.nodes), Drawn(g.edges), Ends(g)
  PROVE  Apart(Extended(g, SeededNodes(g.nodes), SeededEdges(g.nodes)))
<1> DEFINE ns == SeededNodes(g.nodes)
           es == SeededEdges(g.nodes)
           h == Extended(g, ns, es)
<1>1. \A n \in ns : /\ n.provenance = "seeded" /\ n.id \notin Ids(g.nodes)
                    /\ \A m \in g.nodes : Kind(m.id) # ShadowedKind(n)
  BY SeededShape
<1>2. \A e \in es : /\ e.provenance = "seeded"
                    /\ {e.source, e.target} \cap Ids(ns) # {}
  BY SeededShape
<1>3. h.nodes = g.nodes \cup ns
  <2> HIDE DEF ns, es
  <2>1. QED
    BY <1>1 DEF Extended, Add, h
<1>4. g.edges \subseteq h.edges /\ h.edges \subseteq g.edges \cup es
  BY Extends
<1> HIDE DEF ns, es, h
<1>5. Standing(h) = ns
  BY <1>1, <1>3 DEF Standing, Recorded
<1>6. \A n \in ns : \A m \in h.nodes \ ns : Kind(m.id) # ShadowedKind(n)
  BY <1>1, <1>3
<1>7. \A e \in g.edges : /\ e.provenance # "seeded"
                         /\ {e.source, e.target} \cap Ids(ns) = {}
  <2>1. \A id \in Ids(g.nodes) : id \notin Ids(ns)
    BY <1>1 DEF Ids
  <2>2. QED
    BY <2>1 DEF Ends, Drawn
<1>8. QED
  BY <1>2, <1>4, <1>5, <1>6, <1>7 DEF Apart, h, ns, es

LEMMA SeededReached ==
  ASSUME NEW g, Recorded(g.nodes), Claim \in Ids(g.nodes)
  PROVE  LET ns == SeededNodes(g.nodes)
             es == SeededEdges(g.nodes)
         IN  /\ Unique(ns)
             /\ \A id \in Ids(ns) : Reached(Extended(g, ns, es), id)
<1> DEFINE ns == SeededNodes(g.nodes)
           es == SeededEdges(g.nodes)
<1>1. Adjuster # Amendment /\ Adjuster # RepeatCause /\ Adjuster # History
  BY DEF Adjuster, One, Amendment, RepeatCause, History
<1>2. Amendment # RepeatCause /\ Amendment # History /\ RepeatCause # History
  BY DEF Amendment, RepeatCause, History
<1>3. Unique(ns)
  BY <1>1, <1>2 DEF Unique, SeededNodes, If, Node
<1>4. Claim \notin SeededIds
  BY DEF SeededIds, Claim, Adjuster, One, Amendment, RepeatCause, History
<1>5. ASSUME NEW n \in ns
      PROVE  \E e \in es : {e.source, e.target} = {Claim, n.id}
  <2>1. \/ n.id = Adjuster /\ Adjuster \notin Ids(g.nodes)
        \/ n.id \in {Amendment, RepeatCause} /\ Lacks(g.nodes, "fraud")
        \/ n.id = History /\ Lacks(g.nodes, "related")
    BY DEF SeededNodes, If, Node
  <2>2. CASE n.id = Adjuster /\ Adjuster \notin Ids(g.nodes)
    <3>1. DEFINE e == Edge(Claim, "INSPECTED_BY", Adjuster, "seeded")
    <3>2. e \in es /\ {e.source, e.target} = {Claim, n.id}
      BY <2>2 DEF SeededEdges, If, Edge
    <3>3. QED
      BY <3>2
  <2>3. CASE n.id \in {Amendment, RepeatCause} /\ Lacks(g.nodes, "fraud")
    <3>1. DEFINE e == Edge(Claim, "HAS_INDICATOR", n.id, "seeded")
    <3>2. e \in es /\ {e.source, e.target} = {Claim, n.id}
      BY <2>3 DEF SeededEdges, If, Edge
    <3>3. QED
      BY <3>2
  <2>4. CASE n.id = History /\ Lacks(g.nodes, "related")
    <3>1. DEFINE e == Edge(Claim, "RELATED_TO", History, "seeded")
    <3>2. e \in es /\ {e.source, e.target} = {Claim, n.id}
      BY <2>4 DEF SeededEdges, If, Edge
    <3>3. QED
      BY <3>2
  <2>5. QED
    BY <2>1, <2>2, <2>3, <2>4
<1>6. \A n \in ns : n.id \in SeededIds
  BY SeededShape
<1> HIDE DEF ns, es
<1>7. ASSUME NEW id \in Ids(ns)
      PROVE  Reached(Extended(g, ns, es), id)
  <2>1. PICK n \in ns : n.id = id
    BY DEF Ids
  <2>2. PICK e \in es : {e.source, e.target} = {Claim, id}
    BY <1>5, <2>1
  <2>3. id # Claim
    BY <1>4, <1>6, <2>1
  <2>4. Tie(Extended(g, ns, es), Claim, id)
    BY <2>2, <2>3, TiesClaim
  <2>5. QED
    BY <2>4 DEF Reached
<1>8. QED
  BY <1>3, <1>7 DEF ns, es

-----------------------------------------------------------------------------
(* The claims that may be duplicates are named first and keep their ids.   *)
Kept(g, in) ==
  \A ref \in DOMAIN in.duplicates :
    \E n \in g.nodes : /\ n.id = <<"related", ref>>
                      /\ n.provenance = "derived"
                      /\ n.flag # "none"

NoneRelated(g) == \A n \in g.nodes : Kind(n.id) # "related"

LEMMA DuplicatesKept ==
  ASSUME NEW g, NEW in, NoneRelated(g)
  PROVE  Kept(Related(g, in), in)
<1> DEFINE ds == DuplicateNodes(in)
           d  == Extended(g, ds, RelatedEdges(ds))
           h  == Extended(d, OtherNodes(in), RelatedEdges(OtherNodes(in)))
<1>1. d.nodes \subseteq h.nodes
  BY Extends
<1>2. ASSUME NEW ref \in DOMAIN in.duplicates
      PROVE  \E n \in d.nodes : /\ n.id = <<"related", ref>>
                                /\ n.provenance = "derived"
                                /\ n.flag # "none"
  <2>1. DEFINE flag == IF in.duplicates[ref].likely /\ in.duplicates[ref].resolution = "open"
                       THEN "issue" ELSE "watch"
               n == Node(<<"related", ref>>, "derived", flag)
  <2>2. flag # "none"
    OBVIOUS
  <2>3. n \in ds
    BY DEF DuplicateNodes
  <2> HIDE DEF ds, flag
  <2>4. n.id = <<"related", ref>> /\ n.provenance = "derived" /\ n.flag = flag
    BY DEF Node
  <2> HIDE DEF n
  <2>5. n.id \notin Ids(g.nodes)
    <3>1. \A m \in g.nodes : m.id # <<"related", ref>>
      BY DEF NoneRelated, Kind
    <3>2. QED
      BY <3>1, <2>4 DEF Ids
  <2>6. n \in d.nodes
    BY <2>3, <2>5 DEF Extended, Add
  <2>7. QED
    BY <2>2, <2>4, <2>6
<1>3. Related(g, in) = h
  BY DEF Related
<1> HIDE DEF h, d
<1>4. QED
  BY <1>1, <1>2, <1>3 DEF Kept

(* Kinds of the entities that stand before the section on related claims.  *)
LEMMA RelatedOnlyThere ==
  ASSUME NEW g, NEW in, NEW es, NoneRelated(g),
         NEW ns \in {ClaimNodes, PolicyNodes(in) \cup InsuredNodes(in),
                     IncidentNodes(in) \cup LocationNodes(in), AssetNodes(in),
                     CoverageNodes(in), NoticeNodes(in) \cup DocumentNodes(in),
                     BrokerNodes(in) \cup HandlerNodes(in) \cup AdjusterNodes(in),
                     CatNodes(in), FraudNodes(in) \cup ExceptionNodes(in)}
  PROVE  NoneRelated(Extended(g, ns, es))
<1>1. \A n \in ns : Kind(n.id) # "related"
  <2>1. \A n \in ClaimNodes \cup PolicyNodes(in) \cup InsuredNodes(in)
               \cup IncidentNodes(in) \cup LocationNodes(in) : Kind(n.id) # "related"
    BY DEF ClaimNodes, PolicyNodes, InsuredNodes, IncidentNodes, LocationNodes, If, Node, Kind,
           Claim, Policy, Insured, Incident, Location, One
  <2>2. \A n \in AssetNodes(in) \cup CoverageNodes(in) \cup NoticeNodes(in)
               \cup DocumentNodes(in) : Kind(n.id) # "related"
    BY DEF AssetNodes, AssetIds, CoverageNodes, NoticeNodes, DocumentNodes, If, Node, Kind,
           Notice, One
  <2>3. \A n \in BrokerNodes(in) \cup HandlerNodes(in) \cup AdjusterNodes(in) :
          Kind(n.id) # "related"
    BY DEF BrokerNodes, HandlerNodes, AdjusterNodes, If, Node, Kind, Broker, Handler,
           Adjuster, One
  <2>4. \A n \in CatNodes(in) \cup FraudNodes(in) \cup ExceptionNodes(in) :
          Kind(n.id) # "related"
    BY DEF CatNodes, FraudNodes, ExceptionNodes, If, Node, Kind
  <2>5. QED
    BY <2>1, <2>2, <2>3, <2>4
<1>2. QED
  BY <1>1, Extends DEF NoneRelated

-----------------------------------------------------------------------------
(* The invariant: what is built is well formed and within reach, nothing   *)
(* of it is seeded before the scaffolding, and no other claim is named     *)
(* before the section that names them.                                     *)
Unbuilt == section \in {"gather", "claim"}

Early == section \in {"gather", "claim", "policy", "incident"}

BeforeRelated ==
  section \in {"gather", "claim", "policy", "incident", "assets", "coverage",
              "evidence", "people", "catastrophe", "risk", "related"}

Whole(g) ==
  /\ Unique(g.nodes)
  /\ Ends(g)
  /\ Claim \in Ids(g.nodes)
  /\ \A id \in Ids(g.nodes) : Reached(g, id)

IInv ==
  /\ BeforeRelated \/ section \in {"seeded", "summary", "done"}
  /\ Unbuilt => graph.nodes = {} /\ graph.edges = {}
  /\ ~ Unbuilt => Whole(graph)
  /\ ~ Early /\ Happened(input) =>
       Tie(graph, Claim, Incident) /\ Incident \in Ids(graph.nodes)
  /\ BeforeRelated => NoneRelated(graph)
  /\ BeforeRelated \/ section = "seeded" => Recorded(graph.nodes) /\ Drawn(graph.edges)
  /\ section \in {"summary", "done"} => Apart(graph)
  /\ section \in {"seeded", "summary", "done"} => Kept(graph, input)

(* A section that adds what is fine keeps a whole graph whole.             *)
LEMMA FineKeepsWhole ==
  ASSUME NEW g, NEW ns, NEW es, Whole(g), Fine(g, ns, es)
  PROVE  /\ Whole(Extended(g, ns, es))
         /\ Recorded(g.nodes) /\ Drawn(g.edges) =>
              /\ Recorded(Extended(g, ns, es).nodes)
              /\ Drawn(Extended(g, ns, es).edges)
         /\ Tie(g, Claim, Incident) => Tie(Extended(g, ns, es), Claim, Incident)
         /\ Ids(g.nodes) \subseteq Ids(Extended(g, ns, es).nodes)
<1> DEFINE h == Extended(g, ns, es)
<1>1. Unique(h.nodes)
  BY ExtendsUnique DEF Whole, Fine
<1>2. Ends(h)
  BY ExtendsEnds DEF Whole
<1>3. \A id \in Ids(h.nodes) : Reached(h, id)
  BY ExtendsReached DEF Whole, Fine
<1>4. Ids(g.nodes) \subseteq Ids(h.nodes) /\ g.edges \subseteq h.edges
  BY Extends
<1>5. Recorded(g.nodes) /\ Drawn(g.edges) => Recorded(h.nodes) /\ Drawn(h.edges)
  BY ExtendsRecorded DEF Fine
<1> HIDE DEF h
<1>6. Tie(g, Claim, Incident) => Tie(h, Claim, Incident)
  BY <1>4 DEF Tie
<1>7. QED
  BY <1>1, <1>2, <1>3, <1>4, <1>5, <1>6 DEF Whole, h

(* A section before that on related claims, run after the claim's.         *)
LEMMA SectionStep ==
  ASSUME NEW ns, NEW es, NEW this, NEW next, IInv,
         Runs(this, next, Extended(graph, ns, es)),
         this \in {"policy", "incident", "assets", "coverage", "evidence", "people",
                  "catastrophe", "risk"},
         next \in {"incident", "assets", "coverage", "evidence", "people",
                  "catastrophe", "risk", "related"},
         this = "policy" => next = "incident",
         this = "incident" /\ Happened(input) =>
           Tie(graph', Claim, Incident) /\ Incident \in Ids(graph'.nodes),
         Fine(graph, ns, es),
         NoneRelated(Extended(graph, ns, es))
  PROVE  IInv'
<1>1. /\ section = this /\ section' = next
      /\ graph' = Extended(graph, ns, es) /\ input' = input
  BY DEF Runs
<1>2. Whole(graph) /\ NoneRelated(graph) /\ Recorded(graph.nodes) /\ Drawn(graph.edges)
  BY <1>1 DEF IInv, Unbuilt, BeforeRelated
<1>3. /\ Whole(graph')
      /\ Recorded(graph'.nodes) /\ Drawn(graph'.edges)
      /\ Tie(graph, Claim, Incident) => Tie(graph', Claim, Incident)
      /\ Ids(graph.nodes) \subseteq Ids(graph'.nodes)
  BY <1>1, <1>2, FineKeepsWhole
<1>4. ~ Early' /\ Happened(input) =>
        Tie(graph', Claim, Incident) /\ Incident \in Ids(graph'.nodes)
  <2>1. CASE this = "policy"
    BY <2>1, <1>1 DEF Early
  <2>2. CASE this = "incident"
    BY <2>2
  <2>3. CASE this \notin {"policy", "incident"}
    BY <2>3, <1>1, <1>3 DEF IInv, Early
  <2>4. QED
    BY <2>1, <2>2, <2>3
<1>5. Unbuilt' = FALSE /\ section' \notin {"seeded", "summary", "done"}
  BY <1>1 DEF Unbuilt
<1>6. NoneRelated(graph')
  BY <1>1
<1>7. Happened(input)' = Happened(input)
  BY <1>1 DEF Happened, States
<1>8. BeforeRelated' /\ section' # "seeded"
  BY <1>1 DEF BeforeRelated
<1>9. QED
  BY <1>1, <1>3, <1>4, <1>5, <1>6, <1>7, <1>8 DEF IInv

LEMMA InitHolds == Init => IInv
BY DEF Init, IInv, Unbuilt, Early, BeforeRelated, NoneRelated, Recorded, Drawn

LEMMA ClaimStep ==
  ASSUME IInv, ClaimNode
  PROVE  IInv'
<1>1. /\ section = "claim" /\ section' = "policy" /\ input' = input
      /\ graph' = Extended(graph, ClaimNodes, {})
  BY DEF ClaimNode, Runs
<1>2. graph.nodes = {} /\ graph.edges = {}
  BY <1>1 DEF IInv, Unbuilt
<1>3. Fine(graph, ClaimNodes, {})
  BY ClaimFine
<1>4. /\ Unique(graph.nodes) /\ Ends(graph) /\ Recorded(graph.nodes) /\ Drawn(graph.edges)
      /\ \A id \in Ids(graph.nodes) : Reached(graph, id)
      /\ NoneRelated(graph)
  BY <1>2 DEF Unique, Ends, Recorded, Drawn, Ids, NoneRelated
<1>5. /\ Unique(graph'.nodes) /\ Ends(graph')
      /\ Recorded(graph'.nodes) /\ Drawn(graph'.edges)
      /\ \A id \in Ids(graph'.nodes) : Reached(graph', id)
  BY <1>1, <1>3, <1>4, ExtendsUnique, ExtendsEnds, ExtendsRecorded, ExtendsReached DEF Fine
<1>6. Claim \in Ids(graph'.nodes)
  <2>1. Claim \in Ids(ClaimNodes)
    BY DEF Ids, ClaimNodes, Node
  <2>2. QED
    BY <1>1, <2>1, Extends
<1>7. NoneRelated(graph')
  BY <1>1, <1>4, RelatedOnlyThere
<1>8. QED
  BY <1>1, <1>5, <1>6, <1>7 DEF IInv, Unbuilt, Early, BeforeRelated, Whole

LEMMA PolicyAndInsuredStep ==
  ASSUME IInv, PolicyAndInsured
  PROVE  IInv'
<1> DEFINE ns == PolicyNodes(input) \cup InsuredNodes(input)
           es == PolicyEdges(input)
<1>1. Claim \in Ids(graph.nodes) /\ NoneRelated(graph)
  BY DEF PolicyAndInsured, Runs, IInv, Unbuilt, Whole, BeforeRelated
<1>2. Fine(graph, ns, es)
  BY <1>1, PolicyFine
<1>3. NoneRelated(Extended(graph, ns, es))
  BY <1>1, RelatedOnlyThere
<1> HIDE DEF ns, es
<1>4. QED
  BY <1>2, <1>3, SectionStep DEF PolicyAndInsured, Runs, ns, es

LEMMA CoverageStep ==
  ASSUME IInv, Coverage
  PROVE  IInv'
<1> DEFINE ns == CoverageNodes(input)
           es == CoverageEdges(input, graph.nodes)
<1>1. Claim \in Ids(graph.nodes) /\ NoneRelated(graph)
  BY DEF Coverage, Runs, IInv, Unbuilt, Whole, BeforeRelated
<1>2. Fine(graph, ns, es)
  BY <1>1, CoverageFine
<1>3. NoneRelated(Extended(graph, ns, es))
  BY <1>1, RelatedOnlyThere
<1> HIDE DEF ns, es
<1>4. QED
  BY <1>2, <1>3, SectionStep DEF Coverage, Runs, ns, es

LEMMA EvidenceStep ==
  ASSUME IInv, Evidence
  PROVE  IInv'
<1> DEFINE ns == NoticeNodes(input) \cup DocumentNodes(input)
           es == EvidenceEdges(input)
<1>1. Claim \in Ids(graph.nodes) /\ NoneRelated(graph)
  BY DEF Evidence, Runs, IInv, Unbuilt, Whole, BeforeRelated
<1>2. Fine(graph, ns, es)
  BY <1>1, EvidenceFine
<1>3. NoneRelated(Extended(graph, ns, es))
  BY <1>1, RelatedOnlyThere
<1> HIDE DEF ns, es
<1>4. QED
  BY <1>2, <1>3, SectionStep DEF Evidence, Runs, ns, es

LEMMA PeopleStep ==
  ASSUME IInv, People
  PROVE  IInv'
<1> DEFINE ns == BrokerNodes(input) \cup HandlerNodes(input) \cup AdjusterNodes(input)
           es == PeopleEdges
<1>1. Claim \in Ids(graph.nodes) /\ NoneRelated(graph)
  BY DEF People, Runs, IInv, Unbuilt, Whole, BeforeRelated
<1>2. Fine(graph, ns, es)
  BY <1>1, PeopleFine
<1>3. NoneRelated(Extended(graph, ns, es))
  BY <1>1, RelatedOnlyThere
<1> HIDE DEF ns, es
<1>4. QED
  BY <1>2, <1>3, SectionStep DEF People, Runs, ns, es

LEMMA CatastropheStep ==
  ASSUME IInv, Catastrophe
  PROVE  IInv'
<1> DEFINE ns == CatNodes(input)
           es == CatEdges(input)
<1>1. Claim \in Ids(graph.nodes) /\ NoneRelated(graph)
  BY DEF Catastrophe, Runs, IInv, Unbuilt, Whole, BeforeRelated
<1>2. Fine(graph, ns, es)
  BY <1>1, CatastropheFine
<1>3. NoneRelated(Extended(graph, ns, es))
  BY <1>1, RelatedOnlyThere
<1> HIDE DEF ns, es
<1>4. QED
  BY <1>2, <1>3, SectionStep DEF Catastrophe, Runs, ns, es

LEMMA RiskStep ==
  ASSUME IInv, Risk
  PROVE  IInv'
<1> DEFINE ns == FraudNodes(input) \cup ExceptionNodes(input)
           es == RiskEdges(input)
<1>1. Claim \in Ids(graph.nodes) /\ NoneRelated(graph)
  BY DEF Risk, Runs, IInv, Unbuilt, Whole, BeforeRelated
<1>2. Fine(graph, ns, es)
  BY <1>1, RiskFine
<1>3. NoneRelated(Extended(graph, ns, es))
  BY <1>1, RelatedOnlyThere
<1> HIDE DEF ns, es
<1>4. QED
  BY <1>2, <1>3, SectionStep DEF Risk, Runs, ns, es

LEMMA IncidentAndLocationStep ==
  ASSUME IInv, IncidentAndLocation
  PROVE  IInv'
<1> DEFINE ns == IncidentNodes(input) \cup LocationNodes(input)
           es == IncidentEdges
<1>1. Claim \in Ids(graph.nodes) /\ NoneRelated(graph)
  BY DEF IncidentAndLocation, Runs, IInv, Unbuilt, Whole, BeforeRelated
<1>2. /\ Fine(graph, ns, es)
      /\ Happened(input) =>
           /\ Tie(Extended(graph, ns, es), Claim, Incident)
           /\ Incident \in Ids(Extended(graph, ns, es).nodes)
  BY <1>1, IncidentFine
<1>3. NoneRelated(Extended(graph, ns, es))
  BY <1>1, RelatedOnlyThere
<1> HIDE DEF ns, es
<1>4. QED
  BY <1>2, <1>3, SectionStep DEF IncidentAndLocation, Runs, ns, es

LEMMA AssetsStep ==
  ASSUME IInv, Assets
  PROVE  IInv'
<1> DEFINE ns == AssetNodes(input)
           es == AssetEdges(input)
<1>1. /\ Claim \in Ids(graph.nodes) /\ NoneRelated(graph)
      /\ Happened(input) => Tie(graph, Claim, Incident) /\ Incident \in Ids(graph.nodes)
  BY DEF Assets, Runs, IInv, Unbuilt, Whole, BeforeRelated, Early
<1>2. Fine(graph, ns, es)
  BY <1>1, AssetsFine
<1>3. NoneRelated(Extended(graph, ns, es))
  BY <1>1, RelatedOnlyThere
<1> HIDE DEF ns, es
<1>4. QED
  BY <1>2, <1>3, SectionStep DEF Assets, Runs, ns, es

LEMMA RelatedStep ==
  ASSUME IInv, RelatedClaims
  PROVE  IInv'
<1> DEFINE ds == DuplicateNodes(input)
           os == OtherNodes(input)
           d  == Extended(graph, ds, RelatedEdges(ds))
           h  == Extended(d, os, RelatedEdges(os))
<1>1. /\ section = "related" /\ section' = "seeded" /\ input' = input
      /\ graph' = Related(graph, input)
  BY DEF RelatedClaims, Runs
<1>2. Related(graph, input) = h
  BY DEF Related
<1>3. /\ Whole(graph) /\ NoneRelated(graph)
      /\ Recorded(graph.nodes) /\ Drawn(graph.edges)
      /\ Happened(input) => Tie(graph, Claim, Incident) /\ Incident \in Ids(graph.nodes)
  BY <1>1 DEF IInv, Unbuilt, BeforeRelated, Early
<1>4. Fine(graph, ds, RelatedEdges(ds))
  BY <1>3, RelatedToFine DEF Whole
<1> HIDE DEF d
<1>5. /\ Whole(d) /\ Recorded(d.nodes) /\ Drawn(d.edges)
      /\ Tie(graph, Claim, Incident) => Tie(d, Claim, Incident)
      /\ Ids(graph.nodes) \subseteq Ids(d.nodes)
  BY <1>3, <1>4, FineKeepsWhole DEF d
<1>6. Fine(d, os, RelatedEdges(os))
  BY <1>5, RelatedToFine DEF Whole
<1> HIDE DEF h
<1>7. /\ Whole(h) /\ Recorded(h.nodes) /\ Drawn(h.edges)
      /\ Tie(d, Claim, Incident) => Tie(h, Claim, Incident)
      /\ Ids(d.nodes) \subseteq Ids(h.nodes)
  BY <1>5, <1>6, FineKeepsWhole DEF h
<1>8. Kept(graph', input')
  BY <1>1, <1>3, DuplicatesKept
<1>9. Happened(input)' = Happened(input)
  BY <1>1 DEF Happened, States
<1>10. graph' = h
  BY <1>1, <1>2
<1>11. QED
  BY <1>1, <1>3, <1>5, <1>7, <1>8, <1>9, <1>10 DEF IInv, Unbuilt, BeforeRelated, Early

LEMMA SeededStep ==
  ASSUME IInv, SeededEntities
  PROVE  IInv'
<1> DEFINE ns == SeededNodes(graph.nodes)
           es == SeededEdges(graph.nodes)
           h  == Extended(graph, ns, es)
<1>1. /\ section = "seeded" /\ section' = "summary" /\ input' = input
      /\ graph' = h \/ graph' = graph
  BY DEF SeededEntities, Runs
<1>2. /\ Whole(graph) /\ Recorded(graph.nodes) /\ Drawn(graph.edges)
      /\ Happened(input) => Tie(graph, Claim, Incident) /\ Incident \in Ids(graph.nodes)
      /\ Kept(graph, input)
  BY <1>1 DEF IInv, Unbuilt, Early
<1>3. /\ Unique(ns) /\ \A id \in Ids(ns) : Reached(h, id)
      /\ Apart(h)
  BY <1>2, SeededReached, SeededApart DEF Whole
<1>4. Apart(graph)
  BY <1>2, RecordedIsApart
<1>5. /\ Ids(graph.nodes) \subseteq Ids(h.nodes)
      /\ graph.edges \subseteq h.edges /\ graph.nodes \subseteq h.nodes
  BY Extends
<1>6. /\ Unique(h.nodes) /\ Ends(h)
      /\ \A id \in Ids(h.nodes) : Reached(h, id)
  BY <1>2, <1>3, ExtendsUnique, ExtendsEnds, ExtendsReached DEF Whole
<1> HIDE DEF h
<1>7. Whole(h)
  BY <1>2, <1>5, <1>6 DEF Whole
<1>8. /\ Tie(graph, Claim, Incident) => Tie(h, Claim, Incident)
      /\ Kept(h, input)
  BY <1>2, <1>5 DEF Tie, Kept
<1>9. Happened(input)' = Happened(input)
  BY <1>1 DEF Happened, States
<1>10. CASE graph' = h
  BY <1>10, <1>1, <1>2, <1>3, <1>5, <1>7, <1>8, <1>9 DEF IInv, Unbuilt, BeforeRelated, Early
<1>11. CASE graph' = graph
  BY <1>11, <1>1, <1>2, <1>4, <1>9 DEF IInv, Unbuilt, BeforeRelated, Early
<1>12. QED
  BY <1>1, <1>10, <1>11

LEMMA ReadStep ==
  ASSUME IInv, Read
  PROVE  IInv'
<1>1. /\ section = "gather" /\ section' \in {"gather", "claim"} /\ graph' = graph
  BY DEF Read
<1>2. graph.nodes = {} /\ graph.edges = {}
  BY <1>1 DEF IInv, Unbuilt
<1>3. QED
  BY <1>1, <1>2 DEF IInv, Unbuilt, Early, BeforeRelated, NoneRelated, Recorded, Drawn

LEMMA NextHolds == IInv /\ [Next]_vars => IInv'
<1> SUFFICES ASSUME IInv, [Next]_vars
             PROVE  IInv'
  OBVIOUS
<1>1. CASE Commit
  <2>1. UNCHANGED <<graph, section, input>>
    BY <1>1 DEF Commit
  <2>2. QED
    BY <2>1 DEF IInv, Unbuilt, Early, BeforeRelated, Happened, States
<1>2. CASE Summarise
  <2>1. UNCHANGED <<graph, input>> /\ section = "summary" /\ section' = "done"
    BY <1>2 DEF Summarise
  <2>2. QED
    BY <2>1 DEF IInv, Unbuilt, Early, BeforeRelated, Happened, States
<1>3. CASE UNCHANGED vars
  <2>1. UNCHANGED <<graph, section, input>>
    BY <1>3 DEF vars
  <2>2. QED
    BY <2>1 DEF IInv, Unbuilt, Early, BeforeRelated, Happened, States
<1>4. QED
  BY <1>1, <1>2, <1>3, ReadStep, ClaimStep, PolicyAndInsuredStep, IncidentAndLocationStep,
     AssetsStep, CoverageStep, EvidenceStep, PeopleStep, CatastropheStep, RiskStep,
     RelatedStep, SeededStep DEF Next

LEMMA AlwaysInv == Spec => []IInv
<1>1. QED
  BY InitHolds, NextHolds, PTL DEF Spec

-----------------------------------------------------------------------------
(* knowledge_graph.py:396-428: in every state of every request, an id      *)
(* stands for one entity and a relationship joins two of the graph.        *)
THEOREM GraphWellFormed == Spec => []WellFormed
<1>1. IInv => WellFormed
  BY DEF IInv, WellFormed, OneEntityPerId, EdgesJoin, Whole, Unique, Ends
<1>2. QED
  BY <1>1, AlwaysInv, PTL

(* knowledge_graph.py:550: the claim is what every other entity is         *)
(* connected to, whatever records are missing.                             *)
THEOREM GraphReachesClaim == Spec => []ReachesClaim
<1>1. IInv => ReachesClaim
  <2> SUFFICES ASSUME IInv
               PROVE  ReachesClaim
    OBVIOUS
  <2>1. \A id \in Ids(graph.nodes) : Reached(graph, id)
    BY DEF IInv, Whole, Ids
  <2>2. \A a, b : Tie(graph, a, b) <=> Joined(a, b)
    BY DEF Tie, Joined
  <2>3. QED
    BY <2>1, <2>2 DEF ReachesClaim, Reached
<1>2. QED
  BY <1>1, AlwaysInv, PTL

(* knowledge_graph.py:1658-1788: scaffolding shadows no record and is      *)
(* marked as what it is.                                                   *)
THEOREM ScaffoldingStaysApart == Spec => []ScaffoldingApart
<1>1. IInv => ScaffoldingApart
  <2> SUFFICES ASSUME IInv
               PROVE  Apart(graph)
    BY ApartIsProperty
  <2>1. CASE BeforeRelated \/ section = "seeded"
    BY <2>1, RecordedIsApart DEF IInv
  <2>2. CASE section \in {"summary", "done"}
    BY <2>2 DEF IInv
  <2>3. QED
    BY <2>1, <2>2 DEF IInv
<1>2. QED
  BY <1>1, AlwaysInv, PTL

(* knowledge_graph.py:1548-1627: what duplicate detection scored is shown  *)
(* as that, though it is another claim on the policy as well.              *)
THEOREM DuplicatesStayShown == Spec => []DuplicatesStay
<1>1. IInv => DuplicatesStay
  BY DEF IInv, DuplicatesStay, Kept
<1>2. QED
  BY <1>1, AlwaysInv, PTL

-----------------------------------------------------------------------------
(***************************************************************************)
(* Counting.  The tiles are cardinalities, so every set of the graph has to*)
(* be finite, and a set of entities is counted by what tells them apart.   *)
(***************************************************************************)
LEMMA FiniteImage ==
  ASSUME NEW S, IsFiniteSet(S), NEW T, NEW f \in [S -> T],
         \A t \in T : \E x \in S : f[x] = t
  PROVE  IsFiniteSet(T)
<1>1. f \in Surjection(S, T)
  BY DEF Surjection
<1> QED
  BY <1>1, FS_Surjection

LEMMA FiniteFew ==
  ASSUME NEW a, NEW b, NEW c, NEW d
  PROVE  IsFiniteSet({a, b, c, d})
<1>1. IsFiniteSet({a})
  BY FS_Singleton
<1>2. IsFiniteSet({a} \cup {b})
  BY <1>1, FS_AddElement
<1>3. IsFiniteSet({a} \cup {b} \cup {c})
  BY <1>2, FS_AddElement
<1>4. IsFiniteSet({a} \cup {b} \cup {c} \cup {d})
  BY <1>3, FS_AddElement
<1>5. {a} \cup {b} \cup {c} \cup {d} = {a, b, c, d}
  OBVIOUS
<1> QED
  BY <1>4, <1>5

(* Entities of one kind, one for each key.                                 *)
LEMMA CountByKey ==
  ASSUME NEW nodes, NEW kind, NEW keys, IsFiniteSet(keys), Unique(nodes),
         Ids(nodes) = {<<kind, key>> : key \in keys}
  PROVE  IsFiniteSet(nodes) /\ Cardinality(nodes) = Cardinality(keys)
<1> DEFINE f == [key \in keys |-> CHOOSE n \in nodes : n.id = <<kind, key>>]
<1>1. \A key \in keys : \E n \in nodes : n.id = <<kind, key>>
  BY DEF Ids
<1>2. \A key \in keys : f[key] \in nodes /\ f[key].id = <<kind, key>>
  BY <1>1
<1>3. f \in Injection(keys, nodes)
  <2>1. f \in [keys -> nodes]
    BY <1>2
  <2> HIDE DEF f
  <2>2. ASSUME NEW a \in keys, NEW b \in keys, f[a] = f[b]
        PROVE  a = b
    <3>1. <<kind, a>> = <<kind, b>>
      BY <1>2, <2>2
    <3> QED
      BY <3>1
  <2> QED
    BY <2>1, <2>2 DEF Injection, IsInjective
<1>4. f \in Surjection(keys, nodes)
  <2>1. ASSUME NEW n \in nodes
        PROVE  \E key \in keys : f[key] = n
    <3>1. PICK key \in keys : n.id = <<kind, key>>
      BY DEF Ids
    <3>2. f[key] = n
      BY <1>2, <3>1 DEF Unique
    <3> QED
      BY <3>2
  <2> HIDE DEF f
  <2> QED
    BY <1>2, <1>3, <2>1 DEF Injection, Surjection
<1> HIDE DEF f
<1>5. ExistsBijection(keys, nodes)
  BY <1>3, <1>4 DEF ExistsBijection, Bijection
<1> QED
  BY <1>5, FS_Bijection

LEMMA FiniteIds ==
  ASSUME NEW nodes, IsFiniteSet(nodes)
  PROVE  IsFiniteSet(Ids(nodes))
<1> DEFINE f == [n \in nodes |-> n.id]
<1>1. f \in [nodes -> Ids(nodes)] /\ \A id \in Ids(nodes) : \E n \in nodes : f[n] = id
  BY DEF Ids
<1> HIDE DEF f
<1> QED
  BY <1>1, FiniteImage

(* Relationships of a few names between finitely many entities.            *)
Proper(e, names) ==
  /\ e.relationship \in names
  /\ e.provenance \in {"record", "derived", "seeded"}
  /\ e = Edge(e.source, e.relationship, e.target, e.provenance)

LEMMA FiniteLinks ==
  ASSUME NEW nodes, IsFiniteSet(nodes), NEW names, IsFiniteSet(names),
         NEW es, \A e \in es : Proper(e, names)
  PROVE  IsFiniteSet(Link(nodes, es))
<1> DEFINE marks == {"record", "derived", "seeded"}
           out == Ids(nodes) \X names
           into == Ids(nodes) \X marks
           joined == Link(nodes, es)
           f == [e \in joined |-> <<<<e.source, e.relationship>>, <<e.target, e.provenance>>>>]
<1>1. IsFiniteSet(marks)
  <2>1. {"record", "derived", "seeded"} = {"record", "derived", "seeded", "seeded"}
    OBVIOUS
  <2> QED
    BY <2>1, FiniteFew
<1>2. IsFiniteSet(out) /\ IsFiniteSet(into)
  <2> HIDE DEF marks
  <2> QED
    BY <1>1, FiniteIds, FS_Product
<1>3. IsFiniteSet(out \X into)
  <2> HIDE DEF out, into
  <2> QED
    BY <1>2, FS_Product
<1>4. \A e \in joined : /\ Proper(e, names)
                       /\ e.source \in Ids(nodes) /\ e.target \in Ids(nodes)
  BY DEF Link
<1>5. f \in [joined -> out \X into]
  <2>1. ASSUME NEW e \in joined
        PROVE  /\ e.source \in Ids(nodes) /\ e.relationship \in names
               /\ e.target \in Ids(nodes) /\ e.provenance \in marks
    BY <1>4 DEF Proper
  <2> HIDE DEF joined, marks
  <2> QED
    BY <2>1
<1>6. \A a, b \in joined : f[a] = f[b] => a = b
  <2> SUFFICES ASSUME NEW a \in joined, NEW b \in joined, f[a] = f[b]
               PROVE  a = b
    OBVIOUS
  <2>1. /\ a.source = b.source /\ a.relationship = b.relationship
        /\ a.target = b.target /\ a.provenance = b.provenance
    OBVIOUS
  <2> QED
    BY <1>4, <2>1 DEF Proper
<1> HIDE DEF f, out, into, joined
<1>7. f \in Injection(joined, out \X into)
  BY <1>5, <1>6 DEF Injection, IsInjective
<1> QED
  BY <1>3, <1>7, FS_Injection DEF joined

(* Sections that add none of the kinds, and the first that does.           *)
LEMMA NoneOfKind ==
  ASSUME NEW g, NEW ns, NEW es, NEW kinds, OfKind(ns, kinds) = {}
  PROVE  OfKind(Extended(g, ns, es).nodes, kinds) = OfKind(g.nodes, kinds)
<1> DEFINE h == Extended(g, ns, es)
<1>1. g.nodes \subseteq h.nodes /\ h.nodes \subseteq g.nodes \cup ns
  BY Extends
<1> HIDE DEF h
<1> QED
  BY <1>1 DEF OfKind, h

LEMMA FirstOfKind ==
  ASSUME NEW g, NEW ns, NEW es, NEW kinds, OfKind(g.nodes, kinds) = {}
  PROVE  OfKind(Extended(g, ns, es).nodes, kinds) = OfKind(ns, kinds)
<1>1. \A n \in ns : Kind(n.id) \in kinds => n.id \notin Ids(g.nodes)
  BY DEF OfKind, Ids
<1>2. Extended(g, ns, es).nodes = g.nodes \cup {n \in ns : n.id \notin Ids(g.nodes)}
  BY DEF Extended, Add
<1> QED
  BY <1>1, <1>2 DEF OfKind

LEMMA OfItsKind ==
  ASSUME NEW ns, NEW kinds, \A n \in ns : Kind(n.id) \in kinds
  PROVE  /\ OfKind(ns, kinds) = ns
         /\ \A others : kinds \cap others = {} => OfKind(ns, others) = {}
BY DEF OfKind

(* The number of relationships, as long as none is drawn twice.            *)
Counted(g) == IsFiniteSet(g.edges) /\ g.links = Cardinality(g.edges)

LEMMA ExtendsCounted ==
  ASSUME NEW g, NEW ns, NEW es, NEW names, IsFiniteSet(names),
         IsFiniteSet(g.nodes), IsFiniteSet(ns), Counted(g),
         \A e \in es : Proper(e, names), es \cap g.edges = {}
  PROVE  LET h == Extended(g, ns, es)
         IN  Counted(h) /\ IsFiniteSet(h.nodes)
<1> DEFINE h == Extended(g, ns, es)
           joined == Link(h.nodes, es)
<1>1. IsFiniteSet(h.nodes)
  <2>1. IsFiniteSet(g.nodes \cup ns)
    BY FS_Union
  <2>2. h.nodes \subseteq g.nodes \cup ns
    BY Extends
  <2> HIDE DEF h
  <2> QED
    BY <2>1, <2>2, FS_Subset
<1>2. /\ h.edges = g.edges \cup joined
      /\ h.links = g.links + Cardinality(joined)
  BY DEF Extended
<1>3. joined \subseteq es
  BY DEF Link
<1>4. IsFiniteSet(joined)
  <2> HIDE DEF h
  <2> QED
    BY <1>1, FiniteLinks
<1> HIDE DEF h, joined
<1>5. /\ IsFiniteSet(g.edges \cup joined)
      /\ Cardinality(g.edges \cup joined)
           = Cardinality(g.edges) + Cardinality(joined) - Cardinality(g.edges \cap joined)
  BY <1>4, FS_Union DEF Counted
<1>6. g.edges \cap joined = {}
  BY <1>3
<1>7. Cardinality(g.edges \cup joined) = Cardinality(g.edges) + Cardinality(joined)
  <2>1. Cardinality(g.edges) \in Nat /\ Cardinality(joined) \in Nat
    BY <1>4, FS_CardinalityType DEF Counted
  <2>2. Cardinality(g.edges \cap joined) = 0
    BY <1>6, FS_EmptySet
  <2> QED
    BY <1>5, <2>1, <2>2
<1> QED
  BY <1>1, <1>2, <1>5, <1>7 DEF Counted, h

-----------------------------------------------------------------------------
(* What each section adds: finitely many entities of its own kinds and     *)
(* relationships of its own names.                                         *)
Adds(ns, es, kinds, names) ==
  /\ IsFiniteSet(ns)
  /\ \A n \in ns : Kind(n.id) \in kinds
  /\ \A e \in es : Proper(e, names)

LEMMA ClaimAdds == Adds(ClaimNodes, {}, {"claim"}, {})
<1>1. IsFiniteSet(ClaimNodes)
  BY FS_Singleton DEF ClaimNodes
<1>2. \A n \in ClaimNodes : Kind(n.id) = "claim"
  BY DEF ClaimNodes, Node, Kind, Claim, One
<1> QED
  BY <1>1, <1>2 DEF Adds

LEMMA PolicyAdds ==
  ASSUME NEW in
  PROVE  Adds(PolicyNodes(in) \cup InsuredNodes(in), PolicyEdges(in),
              {"policy", "insured"}, {"COVERED_BY", "ISSUED_TO"})
<1>1. IsFiniteSet(PolicyNodes(in)) /\ IsFiniteSet(InsuredNodes(in))
  BY FS_Singleton, FS_EmptySet DEF PolicyNodes, InsuredNodes, If
<1>2. \A n \in PolicyNodes(in) \cup InsuredNodes(in) : Kind(n.id) \in {"policy", "insured"}
  BY DEF PolicyNodes, InsuredNodes, If, Node, Kind, Policy, Insured, One
<1>3. \A e \in PolicyEdges(in) : Proper(e, {"COVERED_BY", "ISSUED_TO"})
  BY DEF PolicyEdges, If, Edge, Proper
<1> QED
  BY <1>1, <1>2, <1>3, FS_Union DEF Adds

LEMMA IncidentAdds ==
  ASSUME NEW in
  PROVE  Adds(IncidentNodes(in) \cup LocationNodes(in), IncidentEdges,
              {"incident", "location"}, {"CAUSED_BY", "OCCURRED_AT", "SCHEDULES"})
<1>1. IsFiniteSet(IncidentNodes(in)) /\ IsFiniteSet(LocationNodes(in))
  BY FS_Singleton, FS_EmptySet DEF IncidentNodes, LocationNodes, If
<1>2. \A n \in IncidentNodes(in) \cup LocationNodes(in) :
        Kind(n.id) \in {"incident", "location"}
  BY DEF IncidentNodes, LocationNodes, If, Node, Kind, Incident, Location, One
<1>3. \A e \in IncidentEdges : Proper(e, {"CAUSED_BY", "OCCURRED_AT", "SCHEDULES"})
  BY DEF IncidentEdges, Edge, Proper
<1> QED
  BY <1>1, <1>2, <1>3, FS_Union DEF Adds

LEMMA AssetsAdds ==
  ASSUME NEW in, Countable(in)
  PROVE  Adds(AssetNodes(in), AssetEdges(in), {"asset"}, {"DAMAGED"})
<1> DEFINE number == IF States(in.case, "affected_assets")
                     THEN in.case.assets ELSE AssetsRead(in)
<1>1. number \in Int
  BY DEF Countable, States, AssetsRead
<1>2. IsFiniteSet(1..number)
  BY <1>1, FS_Interval
<1>3. IsFiniteSet(AssetNodes(in))
  <2> DEFINE f == [i \in 1..number |-> Node(<<"asset", i>>, "derived", "none")]
  <2>1. f \in [1..number -> AssetNodes(in)]
    BY DEF AssetNodes, AssetIds
  <2>2. \A n \in AssetNodes(in) : \E i \in 1..number : f[i] = n
    BY DEF AssetNodes, AssetIds
  <2> HIDE DEF f, number
  <2> QED
    BY <1>2, <2>1, <2>2, FiniteImage
<1>4. \A n \in AssetNodes(in) : Kind(n.id) = "asset"
  BY DEF AssetNodes, AssetIds, Node, Kind
<1>5. \A e \in AssetEdges(in) : Proper(e, {"DAMAGED"})
  BY DEF AssetEdges, Edge, Proper
<1> QED
  BY <1>3, <1>4, <1>5 DEF Adds

LEMMA CoverageAdds ==
  ASSUME NEW in, Countable(in), NEW nodes
  PROVE  Adds(CoverageNodes(in), CoverageEdges(in, nodes), {"coverage"}, {"COVERED_UNDER"})
<1> DEFINE keys == DOMAIN Checks(in)
           f == [key \in keys |-> Node(<<"coverage", key>>, "derived", CheckFlag(Checks(in)[key]))]
<1>1. IsFiniteSet(keys)
  <2>1. CASE "coverage" \in DOMAIN in.analyses
    BY <2>1 DEF Countable, Checks
  <2>2. CASE "coverage" \notin DOMAIN in.analyses
    <3>1. keys = {}
      BY <2>2 DEF Checks, NoRows
    <3> QED
      BY <3>1, FS_EmptySet
  <2> QED
    BY <2>1, <2>2
<1>2. /\ f \in [keys -> CoverageNodes(in)]
      /\ \A n \in CoverageNodes(in) : \E key \in keys : f[key] = n
  BY DEF CoverageNodes
<1>3. IsFiniteSet(CoverageNodes(in))
  <2> HIDE DEF f, keys
  <2> QED
    BY <1>1, <1>2, FiniteImage
<1>4. \A n \in CoverageNodes(in) : Kind(n.id) = "coverage"
  BY DEF CoverageNodes, Node, Kind
<1>5. \A e \in CoverageEdges(in, nodes) : Proper(e, {"COVERED_UNDER"})
  BY DEF CoverageEdges, Edge, Proper
<1> QED
  BY <1>3, <1>4, <1>5 DEF Adds

LEMMA EvidenceAdds ==
  ASSUME NEW in, Countable(in)
  PROVE  Adds(NoticeNodes(in) \cup DocumentNodes(in), EvidenceEdges(in),
              EvidenceKinds, {"SUPPORTED_BY", "EVIDENCES"})
<1> DEFINE keys == DOMAIN in.documents
           f == [d \in keys |-> Node(<<"evidence", d>>, "record",
                                     IF in.documents[d].failed THEN "issue" ELSE "none")]
<1>1. IsFiniteSet(keys)
  BY DEF Countable
<1>2. /\ f \in [keys -> DocumentNodes(in)]
      /\ \A n \in DocumentNodes(in) : \E key \in keys : f[key] = n
  BY DEF DocumentNodes
<1>3. IsFiniteSet(DocumentNodes(in))
  <2> HIDE DEF f, keys
  <2> QED
    BY <1>1, <1>2, FiniteImage
<1>4. IsFiniteSet(NoticeNodes(in))
  BY FS_Singleton, FS_EmptySet DEF NoticeNodes, If
<1>5. \A n \in NoticeNodes(in) \cup DocumentNodes(in) : Kind(n.id) \in EvidenceKinds
  BY DEF NoticeNodes, DocumentNodes, If, Node, Kind, Notice, One, EvidenceKinds
<1>6. \A e \in EvidenceEdges(in) : Proper(e, {"SUPPORTED_BY", "EVIDENCES"})
  BY DEF EvidenceEdges, Edge, Proper
<1> QED
  BY <1>3, <1>4, <1>5, <1>6, FS_Union DEF Adds

LEMMA PeopleAdds ==
  ASSUME NEW in
  PROVE  Adds(BrokerNodes(in) \cup HandlerNodes(in) \cup AdjusterNodes(in), PeopleEdges,
              {"broker", "handler", "adjuster"},
              {"REPORTED_BY", "INSURES", "ASSIGNED_TO", "INSPECTED_BY"})
<1>1. /\ IsFiniteSet(BrokerNodes(in)) /\ IsFiniteSet(HandlerNodes(in))
      /\ IsFiniteSet(AdjusterNodes(in))
  BY FS_Singleton, FS_EmptySet DEF BrokerNodes, HandlerNodes, AdjusterNodes, If
<1>2. IsFiniteSet(BrokerNodes(in) \cup HandlerNodes(in) \cup AdjusterNodes(in))
  BY <1>1, FS_Union
<1>3. \A n \in BrokerNodes(in) \cup HandlerNodes(in) \cup AdjusterNodes(in) :
        Kind(n.id) \in {"broker", "handler", "adjuster"}
  BY DEF BrokerNodes, HandlerNodes, AdjusterNodes, If, Node, Kind, Broker, Handler,
         Adjuster, One
<1>4. \A e \in PeopleEdges : Proper(e, {"REPORTED_BY", "INSURES", "ASSIGNED_TO", "INSPECTED_BY"})
  BY DEF PeopleEdges, Edge, Proper
<1> QED
  BY <1>2, <1>3, <1>4 DEF Adds

LEMMA CatastropheAdds ==
  ASSUME NEW in
  PROVE  Adds(CatNodes(in), CatEdges(in), {"cat"}, {"MATCHES", "CONSIDERED"})
<1>1. IsFiniteSet(CatNodes(in))
  BY FS_Singleton, FS_EmptySet DEF CatNodes, If
<1>2. \A n \in CatNodes(in) : Kind(n.id) = "cat"
  BY DEF CatNodes, If, Node, Kind
<1>3. \A e \in CatEdges(in) : Proper(e, {"MATCHES", "CONSIDERED"})
  BY DEF CatEdges, Edge, Proper
<1> QED
  BY <1>1, <1>2, <1>3 DEF Adds

LEMMA RiskAdds ==
  ASSUME NEW in, Countable(in)
  PROVE  /\ Adds(FraudNodes(in) \cup ExceptionNodes(in), RiskEdges(in),
                 {"fraud", "exception"}, {"HAS_INDICATOR"})
         /\ Len(Indicators(in)) \in Nat
         /\ DOMAIN Indicators(in) = 1..Len(Indicators(in))
         /\ IsFiniteSet(OpenExceptions(in))
<1> DEFINE found == DOMAIN Indicators(in)
           open == OpenExceptions(in)
           f == [i \in found |-> Node(<<"fraud", i>>, "derived", SeverityFlag(Indicators(in)[i]))]
           x == [code \in open |-> Node(<<"exception", code>>, "derived",
                                        IF in.exceptions[code].blocking THEN "issue" ELSE "watch")]
<1>1. Len(Indicators(in)) \in Nat /\ found = 1..Len(Indicators(in))
  BY DEF Countable, Indicators
<1>2. IsFiniteSet(found)
  <2>1. 1 \in Int /\ Len(Indicators(in)) \in Int
    BY <1>1
  <2> QED
    BY <1>1, <2>1, FS_Interval
<1>3. IsFiniteSet(open)
  BY FS_Subset DEF Countable, OpenExceptions
<1>4. /\ f \in [found -> FraudNodes(in)]
      /\ \A n \in FraudNodes(in) : \E i \in found : f[i] = n
  BY DEF FraudNodes
<1>5. /\ x \in [open -> ExceptionNodes(in)]
      /\ \A n \in ExceptionNodes(in) : \E code \in open : x[code] = n
  BY DEF ExceptionNodes
<1>6. IsFiniteSet(FraudNodes(in)) /\ IsFiniteSet(ExceptionNodes(in))
  <2> HIDE DEF f, x, found, open
  <2> QED
    BY <1>2, <1>3, <1>4, <1>5, FiniteImage
<1>7. \A n \in FraudNodes(in) \cup ExceptionNodes(in) : Kind(n.id) \in {"fraud", "exception"}
  BY DEF FraudNodes, ExceptionNodes, Node, Kind
<1>8. \A e \in RiskEdges(in) : Proper(e, {"HAS_INDICATOR"})
  BY DEF RiskEdges, Edge, Proper
<1> QED
  BY <1>1, <1>3, <1>6, <1>7, <1>8, FS_Union DEF Adds

-----------------------------------------------------------------------------
(***************************************************************************)
(* The second invariant: what of each tile's kind is in the graph when a   *)
(* section runs, and how many relationships there are.  Sections draw under*)
(* names of their own, so none is counted twice but those of claims that   *)
(* are both scored as duplicates and on the same policy.                   *)
(***************************************************************************)
OfPolicy == {"COVERED_BY", "ISSUED_TO"}
OfIncident == OfPolicy \cup {"CAUSED_BY", "OCCURRED_AT", "SCHEDULES"}
OfAssets == OfIncident \cup {"DAMAGED"}
OfCoverage == OfAssets \cup {"COVERED_UNDER"}
OfEvidence == OfCoverage \cup {"SUPPORTED_BY", "EVIDENCES"}
OfPeople == OfEvidence \cup {"REPORTED_BY", "INSURES", "ASSIGNED_TO", "INSPECTED_BY"}
OfCatastrophe == OfPeople \cup {"MATCHES", "CONSIDERED"}
OfRisk == OfCatastrophe \cup {"HAS_INDICATOR"}

DrawnBefore(next) ==
  CASE next \in {"gather", "claim", "policy"} -> {}
    [] next = "incident"    -> OfPolicy
    [] next = "assets"      -> OfIncident
    [] next = "coverage"    -> OfAssets
    [] next = "evidence"    -> OfCoverage
    [] next = "people"      -> OfEvidence
    [] next = "catastrophe" -> OfPeople
    [] next = "risk"        -> OfCatastrophe
    [] next = "related"     -> OfRisk

CoverageAhead == {"gather", "claim", "policy", "incident", "assets", "coverage"}
EvidenceAhead == CoverageAhead \cup {"evidence"}
RiskAhead == EvidenceAhead \cup {"people", "catastrophe", "risk"}

Shown(nodes, next, in) ==
  /\ OfKind(nodes, {"coverage"}) = If(next \notin CoverageAhead, CoverageNodes(in))
  /\ OfKind(nodes, EvidenceKinds) =
       If(next \notin EvidenceAhead, NoticeNodes(in) \cup DocumentNodes(in))
  /\ OfKind(nodes, {"fraud", "exception"}) =
       If(next \notin RiskAhead, FraudNodes(in) \cup ExceptionNodes(in))

RelatedShown(nodes, in) ==
  Ids({n \in OfKind(nodes, {"related"}) : n.provenance # "seeded"})
    = {<<"related", ref>> : ref \in DOMAIN in.duplicates \cup in.related_claims}

Scaffolding ==
  {Node(Adjuster, "seeded", "none"), Node(Amendment, "seeded", "issue"),
   Node(RepeatCause, "seeded", "watch"), Node(History, "seeded", "watch")}

NamedTwice(in) == Cardinality(DOMAIN in.duplicates \cap in.related_claims)

Tallied ==
  /\ Countable(desk) /\ Countable(input)
  /\ IsFiniteSet(graph.nodes) /\ IsFiniteSet(graph.edges)
  /\ Shown(graph.nodes, section, input)
  /\ ~ BeforeRelated => RelatedShown(graph.nodes, input)
  /\ \A n \in graph.nodes : /\ n.provenance = "seeded" => n \in Scaffolding
                           /\ Kind(n.id) = "seeded" => n.provenance = "seeded"
  /\ BeforeRelated => \A e \in graph.edges : e.relationship \in DrawnBefore(section)
  /\ graph.links = Cardinality(graph.edges)
                     + (IF BeforeRelated THEN 0 ELSE NamedTwice(input))
  /\ section = "done" => summary = Summary(graph, input)

LEMMA EmptyKinds ==
  ASSUME NEW nodes, NEW in, NEW next \in CoverageAhead, nodes = {}
  PROVE  Shown(nodes, next, in)
BY DEF Shown, OfKind, If, EvidenceAhead, RiskAhead

LEMMA InitTallied == Init => Tallied
<1> SUFFICES ASSUME Init PROVE Tallied
  OBVIOUS
<1>1. Countable(desk)
  BY RecordsAssumption DEF Init
<1>2. Countable(input)
  <2>1. input = Nothing
    BY DEF Init
  <2>2. Countable(Nothing)
    BY FS_EmptySet DEF Countable, Nothing, NoRows
  <2> QED
    BY <2>1, <2>2
<1>3. graph.nodes = {} /\ graph.edges = {} /\ graph.links = 0 /\ section = "gather"
  BY DEF Init
<1>4. Shown(graph.nodes, section, input)
  BY <1>3, EmptyKinds DEF CoverageAhead
<1> QED
  BY <1>1, <1>2, <1>3, <1>4, FS_EmptySet DEF Tallied, BeforeRelated

(* What a query answers is as countable as the committed records.          *)
LEMMA ListAnswers ==
  ASSUME NEW part \in {"documents", "fields", "exceptions", "duplicates", "analyses"}
  PROVE  Answer(part) \in {NoRows, Listed(input[part], desk[part])}
<1>1. part \in {NoticeParts[i] : i \in DOMAIN NoticeParts} \ {"policy_matches"}
  BY DEF NoticeParts
<1> QED
  BY <1>1 DEF Answer

LEMMA RowsCounted ==
  ASSUME Countable(desk), NEW part \in {"documents", "exceptions", "duplicates"}
  PROVE  IsFiniteSet(DOMAIN Answer(part))
<1>1. DOMAIN Answer(part) \in {{}, DOMAIN desk[part]}
  BY ListAnswers DEF NoRows, Listed
<1>2. IsFiniteSet(DOMAIN desk[part])
  BY DEF Countable
<1> QED
  BY <1>1, <1>2, FS_EmptySet

LEMMA ValuesCounted ==
  ASSUME NEW part \in {"fields", "analyses"}, NEW key \in DOMAIN Answer(part)
  PROVE  \/ key \in DOMAIN input[part] /\ Answer(part)[key] = input[part][key]
         \/ key \in DOMAIN desk[part] /\ Answer(part)[key] = desk[part][key]
BY ListAnswers DEF NoRows, Listed

LEMMA CaseAndRelatedCounted ==
  ASSUME Countable(desk)
  PROVE  /\ Answer("case") # None => Answer("case").assets \in Nat
         /\ IsFiniteSet(Answer("related_claims"))
<1>1. /\ "case" \notin {NoticeParts[i] : i \in DOMAIN NoticeParts}
      /\ "related_claims" \notin {NoticeParts[i] : i \in DOMAIN NoticeParts}
  BY DEF NoticeParts
<1>2. Answer("case") = desk.case
  BY <1>1 DEF Answer
<1>3. Answer("related_claims") \in {{}, desk.related_claims}
  BY <1>1 DEF Answer
<1> QED
  BY <1>2, <1>3, FS_EmptySet DEF Countable

LEMMA AnswersCounted ==
  ASSUME Countable(desk), Countable(input), NEW q
  PROVE  Countable([input EXCEPT ![q] = Answer(q)])
<1> DEFINE in == [input EXCEPT ![q] = Answer(q)]
<1>1. /\ DOMAIN in = DOMAIN input
      /\ \A part \in DOMAIN input : in[part] \in {input[part], Answer(part)}
  OBVIOUS
<1>2. {"case", "documents", "fields", "exceptions", "duplicates", "analyses",
       "related_claims"} \subseteq DOMAIN input
  BY DEF Countable
<1> HIDE DEF in
<1>3. \A part \in {"documents", "exceptions", "duplicates"} : IsFiniteSet(DOMAIN in[part])
  <2> SUFFICES ASSUME NEW part \in {"documents", "exceptions", "duplicates"}
               PROVE  IsFiniteSet(DOMAIN in[part])
    OBVIOUS
  <2>1. IsFiniteSet(DOMAIN Answer(part)) /\ IsFiniteSet(DOMAIN input[part])
    BY RowsCounted DEF Countable
  <2>2. in[part] \in {input[part], Answer(part)}
    BY <1>1, <1>2
  <2> QED
    BY <2>1, <2>2
<1>4. IsFiniteSet(in.related_claims) /\ (in.case # None => in.case.assets \in Nat)
  BY <1>1, <1>2, CaseAndRelatedCounted DEF Countable
<1>5. "loss.affected_assets" \in DOMAIN in.fields =>
        in.fields["loss.affected_assets"].names \in Nat
  <2>1. "loss.affected_assets" \in DOMAIN in.fields =>
          \/ /\ "loss.affected_assets" \in DOMAIN input.fields
             /\ in.fields["loss.affected_assets"] = input.fields["loss.affected_assets"]
          \/ /\ "loss.affected_assets" \in DOMAIN desk.fields
             /\ in.fields["loss.affected_assets"] = desk.fields["loss.affected_assets"]
    BY <1>1, <1>2, ValuesCounted
  <2> QED
    BY <2>1 DEF Countable
<1>6. \A key \in DOMAIN in.analyses :
        \/ /\ key \in DOMAIN input.analyses
           /\ in.analyses[key] = input.analyses[key]
        \/ /\ key \in DOMAIN desk.analyses
           /\ in.analyses[key] = desk.analyses[key]
  BY <1>1, <1>2, ValuesCounted
<1>7. "coverage" \in DOMAIN in.analyses => IsFiniteSet(DOMAIN in.analyses["coverage"].checks)
  BY <1>6 DEF Countable
<1>8. "fraud" \in DOMAIN in.analyses =>
        LET found == in.analyses["fraud"].indicators
        IN  Len(found) \in Nat /\ DOMAIN found = 1..Len(found)
  BY <1>6 DEF Countable
<1> QED
  BY <1>1, <1>2, <1>3, <1>4, <1>5, <1>7, <1>8 DEF Countable, in

LEMMA CommittedCounted ==
  ASSUME NEW d, Countable(d), NEW row
  PROVE  Countable([d EXCEPT !.claim = row])
<1> DEFINE e == [d EXCEPT !.claim = row]
<1>1. DOMAIN e = DOMAIN d /\ \A part \in DOMAIN d \ {"claim"} : e[part] = d[part]
  OBVIOUS
<1> HIDE DEF e
<1>2. /\ {"case", "documents", "fields", "exceptions", "duplicates", "analyses",
          "related_claims"} \subseteq DOMAIN d
  BY DEF Countable
<1>3. /\ e.case = d.case /\ e.documents = d.documents /\ e.fields = d.fields
      /\ e.exceptions = d.exceptions /\ e.duplicates = d.duplicates
      /\ e.analyses = d.analyses /\ e.related_claims = d.related_claims
  BY <1>1, <1>2
<1>4. \A part \in {"documents", "exceptions", "duplicates"} : e[part] = d[part]
  BY <1>3
<1> QED
  BY <1>1, <1>3, <1>4 DEF Countable, e

Sections == {"claim", "policy", "incident", "assets", "coverage", "evidence", "people",
             "catastrophe", "risk"}

(* A section before that on related claims draws under names of its own.   *)
LEMMA SectionTally ==
  ASSUME NEW ns, NEW es, NEW kinds, NEW names, NEW this \in Sections,
         NEW next \in (Sections \cup {"related"}) \ {"claim"},
         IInv, Tallied, Runs(this, next, Extended(graph, ns, es)),
         Adds(ns, es, kinds, names), IsFiniteSet(names), Recorded(ns),
         names \cap DrawnBefore(this) = {},
         names \cup DrawnBefore(this) \subseteq DrawnBefore(next),
         Shown(Extended(graph, ns, es).nodes, next, input)
  PROVE  Tallied'
<1> DEFINE h == Extended(graph, ns, es)
<1>1. /\ section = this /\ section' = next /\ graph' = h
      /\ desk' = desk /\ input' = input
  BY DEF Runs
<1>2. BeforeRelated /\ BeforeRelated' /\ next # "done"
  BY <1>1 DEF BeforeRelated, Sections
<1>3. /\ IsFiniteSet(graph.nodes) /\ Counted(graph)
      /\ \A e \in graph.edges : e.relationship \in DrawnBefore(this)
      /\ \A n \in graph.nodes : /\ n.provenance = "seeded" => n \in Scaffolding
                               /\ Kind(n.id) = "seeded" => n.provenance = "seeded"
      /\ Countable(desk) /\ Countable(input)
  <2>1. Cardinality(graph.edges) + 0 = Cardinality(graph.edges)
    BY FS_CardinalityType DEF Tallied
  <2> QED
    BY <1>1, <1>2, <2>1 DEF Tallied, Counted
<1>4. es \cap graph.edges = {}
  BY <1>3 DEF Adds, Proper
<1>5. Counted(h) /\ IsFiniteSet(h.nodes)
  BY <1>3, <1>4, ExtendsCounted DEF Adds
<1>6. h.nodes \subseteq graph.nodes \cup ns /\ h.edges \subseteq graph.edges \cup es
  BY Extends
<1> HIDE DEF h
<1>7. \A e \in h.edges : e.relationship \in DrawnBefore(next)
  BY <1>3, <1>6 DEF Adds, Proper
<1>8. \A n \in h.nodes : /\ n.provenance = "seeded" => n \in Scaffolding
                        /\ Kind(n.id) = "seeded" => n.provenance = "seeded"
  BY <1>3, <1>6 DEF Recorded
<1>9. /\ IsFiniteSet(h.edges) /\ h.links = Cardinality(h.edges) + 0
  <2>1. Cardinality(h.edges) + 0 = Cardinality(h.edges)
    BY <1>5, FS_CardinalityType DEF Counted
  <2> QED
    BY <1>5, <2>1 DEF Counted
<1>10. Shown(graph'.nodes, section', input')
  BY <1>1 DEF h
<1> QED
  BY <1>1, <1>2, <1>3, <1>5, <1>7, <1>8, <1>9, <1>10 DEF Tallied, Shown, If,
     CoverageNodes, Checks, NoticeNodes, DocumentNodes, FraudNodes, ExceptionNodes,
     OpenExceptions, Indicators

(* What of each tile's kind a section leaves alone or is the first to add. *)
LEMMA OtherSection ==
  ASSUME NEW g, NEW ns, NEW es, NEW in, NEW kinds, NEW this, NEW next,
         Shown(g.nodes, this, in), \A n \in ns : Kind(n.id) \in kinds,
         kinds \cap ({"coverage", "fraud", "exception"} \cup EvidenceKinds) = {},
         this \in CoverageAhead <=> next \in CoverageAhead,
         this \in EvidenceAhead <=> next \in EvidenceAhead,
         this \in RiskAhead <=> next \in RiskAhead
  PROVE  Shown(Extended(g, ns, es).nodes, next, in)
<1>1. \A others \in {{"coverage"}, EvidenceKinds, {"fraud", "exception"}} :
        OfKind(ns, others) = {}
  BY OfItsKind
<1> DEFINE h == Extended(g, ns, es)
<1>2. /\ OfKind(h.nodes, {"coverage"}) = OfKind(g.nodes, {"coverage"})
      /\ OfKind(h.nodes, EvidenceKinds) = OfKind(g.nodes, EvidenceKinds)
      /\ OfKind(h.nodes, {"fraud", "exception"}) = OfKind(g.nodes, {"fraud", "exception"})
  BY <1>1, NoneOfKind
<1> HIDE DEF h
<1> QED
  BY <1>2 DEF Shown, If, h

LEMMA FiniteNames ==
  /\ IsFiniteSet({}) /\ \A a : IsFiniteSet({a})
  /\ \A a, b : IsFiniteSet({a, b})
  /\ \A a, b, c : IsFiniteSet({a, b, c})
  /\ \A a, b, c, d : IsFiniteSet({a, b, c, d})
<1>1. \A a, b, c, d : IsFiniteSet({a, b, c, d})
  BY FiniteFew
<1>2. \A a, b, c : {a, b, c} = {a, b, c, c} /\ {a, b} = {a, b, b, b}
  OBVIOUS
<1>3. \A a, b, c : IsFiniteSet({a, b, c}) /\ IsFiniteSet({a, b})
  <2> SUFFICES ASSUME NEW a, NEW b, NEW c
               PROVE  IsFiniteSet({a, b, c}) /\ IsFiniteSet({a, b})
    OBVIOUS
  <2>1. IsFiniteSet({a, b, c, c}) /\ IsFiniteSet({a, b, b, b})
    BY <1>1
  <2> QED
    BY <1>2, <2>1
<1> QED
  BY <1>1, <1>3, FS_EmptySet, FS_Singleton

LEMMA ClaimThere ==
  ASSUME IInv, section \in Sections \ {"claim"}
  PROVE  /\ Claim \in Ids(graph.nodes)
         /\ ~ Early /\ Happened(input) =>
              Tie(graph, Claim, Incident) /\ Incident \in Ids(graph.nodes)
BY DEF IInv, Unbuilt, Whole, Sections

LEMMA ClaimTally ==
  ASSUME IInv, Tallied, ClaimNode
  PROVE  Tallied'
<1> DEFINE ns == ClaimNodes
           es == {}
           kinds == {"claim"}
           names == {}
<1>1. /\ Runs("claim", "policy", Extended(graph, ns, es))
      /\ section = "claim"
  BY DEF ClaimNode, Runs
<1>2. Adds(ns, es, kinds, names)
  BY ClaimAdds
<1>3. Recorded(ns)
  BY ClaimFine DEF Fine
<1>4. IsFiniteSet(names)
  BY FiniteNames
<1>5. /\ names \cap DrawnBefore("claim") = {}
      /\ names \cup DrawnBefore("claim") \subseteq DrawnBefore("policy")
  BY DEF DrawnBefore, OfPolicy, OfIncident, OfAssets, OfCoverage, OfEvidence, OfPeople,
         OfCatastrophe, OfRisk
<1>6. Shown(Extended(graph, ns, es).nodes, "policy", input)
  <2>1. kinds \cap ({"coverage", "fraud", "exception"} \cup EvidenceKinds) = {}
    BY DEF EvidenceKinds
  <2>2. Shown(graph.nodes, "claim", input) /\ \A n \in ns : Kind(n.id) \in kinds
    BY <1>1, <1>2 DEF Tallied, Adds
  <2> HIDE DEF ns, es, kinds
  <2> QED
    BY <2>1, <2>2, OtherSection DEF CoverageAhead, EvidenceAhead, RiskAhead
<1> HIDE DEF ns, es, kinds, names
<1> QED
  BY <1>1, <1>2, <1>3, <1>4, <1>5, <1>6, SectionTally DEF Sections

LEMMA PolicyTally ==
  ASSUME IInv, Tallied, PolicyAndInsured
  PROVE  Tallied'
<1> DEFINE ns == PolicyNodes(input) \cup InsuredNodes(input)
           es == PolicyEdges(input)
           kinds == {"policy", "insured"}
           names == OfPolicy
<1>1. /\ Runs("policy", "incident", Extended(graph, ns, es))
      /\ section = "policy"
  BY DEF PolicyAndInsured, Runs
<1>2. Adds(ns, es, kinds, names)
  BY PolicyAdds DEF OfPolicy
<1>3. Recorded(ns)
  BY <1>1, ClaimThere, PolicyFine DEF Fine, Sections, Early
<1>4. IsFiniteSet(names)
  BY FiniteNames DEF OfPolicy
<1>5. /\ names \cap DrawnBefore("policy") = {}
      /\ names \cup DrawnBefore("policy") \subseteq DrawnBefore("incident")
  BY DEF DrawnBefore, OfPolicy, OfIncident, OfAssets, OfCoverage, OfEvidence, OfPeople,
         OfCatastrophe, OfRisk
<1>6. Shown(Extended(graph, ns, es).nodes, "incident", input)
  <2>1. kinds \cap ({"coverage", "fraud", "exception"} \cup EvidenceKinds) = {}
    BY DEF EvidenceKinds
  <2>2. Shown(graph.nodes, "policy", input) /\ \A n \in ns : Kind(n.id) \in kinds
    BY <1>1, <1>2 DEF Tallied, Adds
  <2> HIDE DEF ns, es, kinds
  <2> QED
    BY <2>1, <2>2, OtherSection DEF CoverageAhead, EvidenceAhead, RiskAhead
<1> HIDE DEF ns, es, kinds, names
<1> QED
  BY <1>1, <1>2, <1>3, <1>4, <1>5, <1>6, SectionTally DEF Sections

LEMMA IncidentTally ==
  ASSUME IInv, Tallied, IncidentAndLocation
  PROVE  Tallied'
<1> DEFINE ns == IncidentNodes(input) \cup LocationNodes(input)
           es == IncidentEdges
           kinds == {"incident", "location"}
           names == {"CAUSED_BY", "OCCURRED_AT", "SCHEDULES"}
<1>1. /\ Runs("incident", "assets", Extended(graph, ns, es))
      /\ section = "incident"
  BY DEF IncidentAndLocation, Runs
<1>2. Adds(ns, es, kinds, names)
  BY IncidentAdds
<1>3. Recorded(ns)
  BY <1>1, ClaimThere, IncidentFine DEF Fine, Sections, Early
<1>4. IsFiniteSet(names)
  BY FiniteNames
<1>5. /\ names \cap DrawnBefore("incident") = {}
      /\ names \cup DrawnBefore("incident") \subseteq DrawnBefore("assets")
  BY DEF DrawnBefore, OfPolicy, OfIncident, OfAssets, OfCoverage, OfEvidence, OfPeople,
         OfCatastrophe, OfRisk
<1>6. Shown(Extended(graph, ns, es).nodes, "assets", input)
  <2>1. kinds \cap ({"coverage", "fraud", "exception"} \cup EvidenceKinds) = {}
    BY DEF EvidenceKinds
  <2>2. Shown(graph.nodes, "incident", input) /\ \A n \in ns : Kind(n.id) \in kinds
    BY <1>1, <1>2 DEF Tallied, Adds
  <2> HIDE DEF ns, es, kinds
  <2> QED
    BY <2>1, <2>2, OtherSection DEF CoverageAhead, EvidenceAhead, RiskAhead
<1> HIDE DEF ns, es, kinds, names
<1> QED
  BY <1>1, <1>2, <1>3, <1>4, <1>5, <1>6, SectionTally DEF Sections

LEMMA AssetsTally ==
  ASSUME IInv, Tallied, Assets
  PROVE  Tallied'
<1> DEFINE ns == AssetNodes(input)
           es == AssetEdges(input)
           kinds == {"asset"}
           names == {"DAMAGED"}
<1>1. /\ Runs("assets", "coverage", Extended(graph, ns, es))
      /\ section = "assets"
  BY DEF Assets, Runs
<1>2. Adds(ns, es, kinds, names)
  BY AssetsAdds DEF Tallied
<1>3. Recorded(ns)
  BY <1>1, ClaimThere, AssetsFine DEF Fine, Sections, Early
<1>4. IsFiniteSet(names)
  BY FiniteNames
<1>5. /\ names \cap DrawnBefore("assets") = {}
      /\ names \cup DrawnBefore("assets") \subseteq DrawnBefore("coverage")
  BY DEF DrawnBefore, OfPolicy, OfIncident, OfAssets, OfCoverage, OfEvidence, OfPeople,
         OfCatastrophe, OfRisk
<1>6. Shown(Extended(graph, ns, es).nodes, "coverage", input)
  <2>1. kinds \cap ({"coverage", "fraud", "exception"} \cup EvidenceKinds) = {}
    BY DEF EvidenceKinds
  <2>2. Shown(graph.nodes, "assets", input) /\ \A n \in ns : Kind(n.id) \in kinds
    BY <1>1, <1>2 DEF Tallied, Adds
  <2> HIDE DEF ns, es, kinds
  <2> QED
    BY <2>1, <2>2, OtherSection DEF CoverageAhead, EvidenceAhead, RiskAhead
<1> HIDE DEF ns, es, kinds, names
<1> QED
  BY <1>1, <1>2, <1>3, <1>4, <1>5, <1>6, SectionTally DEF Sections

LEMMA CoverageTally ==
  ASSUME IInv, Tallied, Coverage
  PROVE  Tallied'
<1> DEFINE ns == CoverageNodes(input)
           es == CoverageEdges(input, graph.nodes)
           kinds == {"coverage"}
           names == {"COVERED_UNDER"}
<1>1. /\ Runs("coverage", "evidence", Extended(graph, ns, es))
      /\ section = "coverage"
  BY DEF Coverage, Runs
<1>2. Adds(ns, es, kinds, names)
  BY CoverageAdds DEF Tallied
<1>3. Recorded(ns)
  BY <1>1, ClaimThere, CoverageFine DEF Fine, Sections, Early
<1>4. IsFiniteSet(names)
  BY FiniteNames
<1>5. /\ names \cap DrawnBefore("coverage") = {}
      /\ names \cup DrawnBefore("coverage") \subseteq DrawnBefore("evidence")
  BY DEF DrawnBefore, OfPolicy, OfIncident, OfAssets, OfCoverage, OfEvidence, OfPeople,
         OfCatastrophe, OfRisk
<1>6. Shown(Extended(graph, ns, es).nodes, "evidence", input)
  <2>1. Shown(graph.nodes, "coverage", input) /\ \A n \in ns : Kind(n.id) \in kinds
    BY <1>1, <1>2 DEF Tallied, Adds
  <2>2. OfKind(graph.nodes, kinds) = {}
    BY <2>1 DEF Shown, If, CoverageAhead, EvidenceAhead, RiskAhead
  <2>3. kinds \cap EvidenceKinds = {} /\ kinds \cap {"fraud", "exception"} = {}
    BY DEF EvidenceKinds
  <2> HIDE DEF es, ns, kinds
  <2>4. OfKind(ns, kinds) = ns /\ OfKind(ns, EvidenceKinds) = {} /\ OfKind(ns, {"fraud", "exception"}) = {}
    <3>1. \A n \in ns : Kind(n.id) \in kinds
      BY <2>1
    <3>2. OfKind(ns, kinds) = ns
      BY <3>1 DEF OfKind
    <3>3. \A others : kinds \cap others = {} => OfKind(ns, others) = {}
      BY <3>1, OfItsKind
    <3> QED
      BY <2>3, <3>2, <3>3
  <2>5. OfKind(Extended(graph, ns, es).nodes, kinds) = OfKind(ns, kinds)
    BY <2>2, FirstOfKind
  <2>6. OfKind(Extended(graph, ns, es).nodes, EvidenceKinds)
          = OfKind(graph.nodes, EvidenceKinds)
    BY <2>4, NoneOfKind
  <2>7. OfKind(Extended(graph, ns, es).nodes, {"fraud", "exception"})
          = OfKind(graph.nodes, {"fraud", "exception"})
    BY <2>4, NoneOfKind
  <2> DEFINE h == Extended(graph, ns, es)
  <2> HIDE DEF h
  <2> QED
    BY <2>1, <2>4, <2>5, <2>6, <2>7 DEF Shown, If, CoverageAhead, EvidenceAhead, RiskAhead, h, ns, kinds
<1> HIDE DEF ns, es, kinds, names
<1> QED
  BY <1>1, <1>2, <1>3, <1>4, <1>5, <1>6, SectionTally DEF Sections

LEMMA EvidenceTally ==
  ASSUME IInv, Tallied, Evidence
  PROVE  Tallied'
<1> DEFINE ns == NoticeNodes(input) \cup DocumentNodes(input)
           es == EvidenceEdges(input)
           kinds == EvidenceKinds
           names == {"SUPPORTED_BY", "EVIDENCES"}
<1>1. /\ Runs("evidence", "people", Extended(graph, ns, es))
      /\ section = "evidence"
  BY DEF Evidence, Runs
<1>2. Adds(ns, es, kinds, names)
  BY EvidenceAdds DEF Tallied
<1>3. Recorded(ns)
  BY <1>1, ClaimThere, EvidenceFine DEF Fine, Sections, Early
<1>4. IsFiniteSet(names)
  BY FiniteNames
<1>5. /\ names \cap DrawnBefore("evidence") = {}
      /\ names \cup DrawnBefore("evidence") \subseteq DrawnBefore("people")
  BY DEF DrawnBefore, OfPolicy, OfIncident, OfAssets, OfCoverage, OfEvidence, OfPeople,
         OfCatastrophe, OfRisk
<1>6. Shown(Extended(graph, ns, es).nodes, "people", input)
  <2>1. Shown(graph.nodes, "evidence", input) /\ \A n \in ns : Kind(n.id) \in kinds
    BY <1>1, <1>2 DEF Tallied, Adds
  <2>2. OfKind(graph.nodes, kinds) = {}
    BY <2>1 DEF Shown, If, CoverageAhead, EvidenceAhead, RiskAhead
  <2>3. kinds \cap {"coverage"} = {} /\ kinds \cap {"fraud", "exception"} = {}
    BY DEF EvidenceKinds
  <2> HIDE DEF es, ns, kinds
  <2>4. OfKind(ns, kinds) = ns /\ OfKind(ns, {"coverage"}) = {} /\ OfKind(ns, {"fraud", "exception"}) = {}
    <3>1. \A n \in ns : Kind(n.id) \in kinds
      BY <2>1
    <3>2. OfKind(ns, kinds) = ns
      BY <3>1 DEF OfKind
    <3>3. \A others : kinds \cap others = {} => OfKind(ns, others) = {}
      BY <3>1, OfItsKind
    <3> QED
      BY <2>3, <3>2, <3>3
  <2>5. OfKind(Extended(graph, ns, es).nodes, kinds) = OfKind(ns, kinds)
    BY <2>2, FirstOfKind
  <2>6. OfKind(Extended(graph, ns, es).nodes, {"coverage"})
          = OfKind(graph.nodes, {"coverage"})
    BY <2>4, NoneOfKind
  <2>7. OfKind(Extended(graph, ns, es).nodes, {"fraud", "exception"})
          = OfKind(graph.nodes, {"fraud", "exception"})
    BY <2>4, NoneOfKind
  <2> DEFINE h == Extended(graph, ns, es)
  <2> HIDE DEF h
  <2> QED
    BY <2>1, <2>4, <2>5, <2>6, <2>7 DEF Shown, If, CoverageAhead, EvidenceAhead, RiskAhead, h, ns, kinds
<1> HIDE DEF ns, es, kinds, names
<1> QED
  BY <1>1, <1>2, <1>3, <1>4, <1>5, <1>6, SectionTally DEF Sections

LEMMA PeopleTally ==
  ASSUME IInv, Tallied, People
  PROVE  Tallied'
<1> DEFINE ns == BrokerNodes(input) \cup HandlerNodes(input) \cup AdjusterNodes(input)
           es == PeopleEdges
           kinds == {"broker", "handler", "adjuster"}
           names == {"REPORTED_BY", "INSURES", "ASSIGNED_TO", "INSPECTED_BY"}
<1>1. /\ Runs("people", "catastrophe", Extended(graph, ns, es))
      /\ section = "people"
  BY DEF People, Runs
<1>2. Adds(ns, es, kinds, names)
  BY PeopleAdds
<1>3. Recorded(ns)
  BY <1>1, ClaimThere, PeopleFine DEF Fine, Sections, Early
<1>4. IsFiniteSet(names)
  BY FiniteNames
<1>5. /\ names \cap DrawnBefore("people") = {}
      /\ names \cup DrawnBefore("people") \subseteq DrawnBefore("catastrophe")
  BY DEF DrawnBefore, OfPolicy, OfIncident, OfAssets, OfCoverage, OfEvidence, OfPeople,
         OfCatastrophe, OfRisk
<1>6. Shown(Extended(graph, ns, es).nodes, "catastrophe", input)
  <2>1. kinds \cap ({"coverage", "fraud", "exception"} \cup EvidenceKinds) = {}
    BY DEF EvidenceKinds
  <2>2. Shown(graph.nodes, "people", input) /\ \A n \in ns : Kind(n.id) \in kinds
    BY <1>1, <1>2 DEF Tallied, Adds
  <2> HIDE DEF ns, es, kinds
  <2> QED
    BY <2>1, <2>2, OtherSection DEF CoverageAhead, EvidenceAhead, RiskAhead
<1> HIDE DEF ns, es, kinds, names
<1> QED
  BY <1>1, <1>2, <1>3, <1>4, <1>5, <1>6, SectionTally DEF Sections

LEMMA CatastropheTally ==
  ASSUME IInv, Tallied, Catastrophe
  PROVE  Tallied'
<1> DEFINE ns == CatNodes(input)
           es == CatEdges(input)
           kinds == {"cat"}
           names == {"MATCHES", "CONSIDERED"}
<1>1. /\ Runs("catastrophe", "risk", Extended(graph, ns, es))
      /\ section = "catastrophe"
  BY DEF Catastrophe, Runs
<1>2. Adds(ns, es, kinds, names)
  BY CatastropheAdds
<1>3. Recorded(ns)
  BY <1>1, ClaimThere, CatastropheFine DEF Fine, Sections, Early
<1>4. IsFiniteSet(names)
  BY FiniteNames
<1>5. /\ names \cap DrawnBefore("catastrophe") = {}
      /\ names \cup DrawnBefore("catastrophe") \subseteq DrawnBefore("risk")
  BY DEF DrawnBefore, OfPolicy, OfIncident, OfAssets, OfCoverage, OfEvidence, OfPeople,
         OfCatastrophe, OfRisk
<1>6. Shown(Extended(graph, ns, es).nodes, "risk", input)
  <2>1. kinds \cap ({"coverage", "fraud", "exception"} \cup EvidenceKinds) = {}
    BY DEF EvidenceKinds
  <2>2. Shown(graph.nodes, "catastrophe", input) /\ \A n \in ns : Kind(n.id) \in kinds
    BY <1>1, <1>2 DEF Tallied, Adds
  <2> HIDE DEF ns, es, kinds
  <2> QED
    BY <2>1, <2>2, OtherSection DEF CoverageAhead, EvidenceAhead, RiskAhead
<1> HIDE DEF ns, es, kinds, names
<1> QED
  BY <1>1, <1>2, <1>3, <1>4, <1>5, <1>6, SectionTally DEF Sections

LEMMA RiskTally ==
  ASSUME IInv, Tallied, Risk
  PROVE  Tallied'
<1> DEFINE ns == FraudNodes(input) \cup ExceptionNodes(input)
           es == RiskEdges(input)
           kinds == {"fraud", "exception"}
           names == {"HAS_INDICATOR"}
<1>1. /\ Runs("risk", "related", Extended(graph, ns, es))
      /\ section = "risk"
  BY DEF Risk, Runs
<1>2. Adds(ns, es, kinds, names)
  BY RiskAdds DEF Tallied
<1>3. Recorded(ns)
  BY <1>1, ClaimThere, RiskFine DEF Fine, Sections, Early
<1>4. IsFiniteSet(names)
  BY FiniteNames
<1>5. /\ names \cap DrawnBefore("risk") = {}
      /\ names \cup DrawnBefore("risk") \subseteq DrawnBefore("related")
  BY DEF DrawnBefore, OfPolicy, OfIncident, OfAssets, OfCoverage, OfEvidence, OfPeople,
         OfCatastrophe, OfRisk
<1>6. Shown(Extended(graph, ns, es).nodes, "related", input)
  <2>1. Shown(graph.nodes, "risk", input) /\ \A n \in ns : Kind(n.id) \in kinds
    BY <1>1, <1>2 DEF Tallied, Adds
  <2>2. OfKind(graph.nodes, kinds) = {}
    BY <2>1 DEF Shown, If, CoverageAhead, EvidenceAhead, RiskAhead
  <2>3. kinds \cap {"coverage"} = {} /\ kinds \cap EvidenceKinds = {}
    BY DEF EvidenceKinds
  <2> HIDE DEF es, ns, kinds
  <2>4. OfKind(ns, kinds) = ns /\ OfKind(ns, {"coverage"}) = {} /\ OfKind(ns, EvidenceKinds) = {}
    <3>1. \A n \in ns : Kind(n.id) \in kinds
      BY <2>1
    <3>2. OfKind(ns, kinds) = ns
      BY <3>1 DEF OfKind
    <3>3. \A others : kinds \cap others = {} => OfKind(ns, others) = {}
      BY <3>1, OfItsKind
    <3> QED
      BY <2>3, <3>2, <3>3
  <2>5. OfKind(Extended(graph, ns, es).nodes, kinds) = OfKind(ns, kinds)
    BY <2>2, FirstOfKind
  <2>6. OfKind(Extended(graph, ns, es).nodes, {"coverage"})
          = OfKind(graph.nodes, {"coverage"})
    BY <2>4, NoneOfKind
  <2>7. OfKind(Extended(graph, ns, es).nodes, EvidenceKinds)
          = OfKind(graph.nodes, EvidenceKinds)
    BY <2>4, NoneOfKind
  <2> DEFINE h == Extended(graph, ns, es)
  <2> HIDE DEF h
  <2> QED
    BY <2>1, <2>4, <2>5, <2>6, <2>7 DEF Shown, If, CoverageAhead, EvidenceAhead, RiskAhead, h, ns, kinds
<1> HIDE DEF ns, es, kinds, names
<1> QED
  BY <1>1, <1>2, <1>3, <1>4, <1>5, <1>6, SectionTally DEF Sections

(***************************************************************************)
(* The related claims.  A claim both scored and on the policy is one       *)
(* entity and one relationship, counted twice.                             *)
(***************************************************************************)
RelatedTo(refs) ==
  {Edge(Claim, "RELATED_TO", <<"related", ref>>, "derived") : ref \in refs}

LEMMA RelatedToCounts ==
  ASSUME NEW refs, IsFiniteSet(refs)
  PROVE  IsFiniteSet(RelatedTo(refs)) /\ Cardinality(RelatedTo(refs)) = Cardinality(refs)
<1> DEFINE f == [ref \in refs |-> Edge(Claim, "RELATED_TO", <<"related", ref>>, "derived")]
<1>1. f \in Surjection(refs, RelatedTo(refs))
  BY DEF Surjection, RelatedTo
<1>2. f \in [refs -> RelatedTo(refs)]
  BY DEF RelatedTo
<1>3. ASSUME NEW a \in refs, NEW b \in refs, f[a] = f[b]
      PROVE  a = b
  <2>1. f[a].target = <<"related", a>> /\ f[b].target = <<"related", b>>
    BY DEF Edge
  <2>2. <<"related", a>> = <<"related", b>>
    BY <1>3, <2>1
  <2> QED
    BY <2>2
<1> HIDE DEF f
<1>4. f \in Injection(refs, RelatedTo(refs))
  BY <1>2, <1>3 DEF Injection, IsInjective
<1>5. ExistsBijection(refs, RelatedTo(refs))
  BY <1>1, <1>4 DEF ExistsBijection, Bijection
<1> QED
  BY <1>5, FS_Bijection

LEMMA RelatedToMeets ==
  ASSUME NEW a, NEW b
  PROVE  RelatedTo(a) \cap RelatedTo(b) = RelatedTo(a \cap b)
<1>1. ASSUME NEW e \in RelatedTo(a) \cap RelatedTo(b)
      PROVE  e \in RelatedTo(a \cap b)
  <2>1. PICK x \in a : e = Edge(Claim, "RELATED_TO", <<"related", x>>, "derived")
    BY DEF RelatedTo
  <2>2. PICK y \in b : e = Edge(Claim, "RELATED_TO", <<"related", y>>, "derived")
    BY DEF RelatedTo
  <2>3. <<"related", x>> = <<"related", y>>
    BY <2>1, <2>2 DEF Edge
  <2>4. x = y
    BY <2>3
  <2> QED
    BY <2>1, <2>4 DEF RelatedTo
<1>2. RelatedTo(a \cap b) \subseteq RelatedTo(a) \cap RelatedTo(b)
  BY DEF RelatedTo
<1> QED
  BY <1>1, <1>2

(* Claims named by one of the two lists, each with its own reference.      *)
LEMMA NamedByRef ==
  ASSUME NEW ns, NEW refs, IsFiniteSet(refs), Unique(ns),
         Ids(ns) = {<<"related", ref>> : ref \in refs}
  PROVE  /\ IsFiniteSet(ns) /\ IsFiniteSet(RelatedEdges(ns))
         /\ RelatedEdges(ns) = RelatedTo(refs)
         /\ \A e \in RelatedEdges(ns) : Proper(e, {"RELATED_TO"})
         /\ \A n \in ns : Kind(n.id) = "related"
<1>1. IsFiniteSet(ns)
  BY CountByKey
<1>2. RelatedEdges(ns) = RelatedTo(refs)
  <2>1. \A e : e \in RelatedEdges(ns)
               <=> \E id \in Ids(ns) : e = Edge(Claim, "RELATED_TO", id, "derived")
    BY DEF RelatedEdges, Ids
  <2>2. \A e : e \in RelatedTo(refs)
               <=> \E id \in {<<"related", ref>> : ref \in refs} :
                     e = Edge(Claim, "RELATED_TO", id, "derived")
    BY DEF RelatedTo
  <2> QED
    BY <2>1, <2>2
<1>3. \A e \in RelatedEdges(ns) : Proper(e, {"RELATED_TO"})
  BY DEF RelatedEdges, Proper, Edge
<1>4. \A n \in ns : Kind(n.id) = "related"
  <2> SUFFICES ASSUME NEW n \in ns PROVE Kind(n.id) = "related"
    OBVIOUS
  <2>1. n.id \in {<<"related", ref>> : ref \in refs}
    BY DEF Ids
  <2> QED
    BY <2>1 DEF Kind
<1> QED
  BY <1>1, <1>2, <1>3, <1>4, RelatedToCounts

(* Adding them joins each of them to the claim.                            *)
LEMMA JoinsRelated ==
  ASSUME NEW g, NEW ns, NEW refs, IsFiniteSet(refs), Unique(ns), Claim \in Ids(g.nodes),
         Ids(ns) = {<<"related", ref>> : ref \in refs}
  PROVE  LET h == Extended(g, ns, RelatedEdges(ns))
         IN  /\ h.edges = g.edges \cup RelatedTo(refs)
             /\ h.links = g.links + Cardinality(refs)
             /\ Ids(h.nodes) = Ids(g.nodes) \cup {<<"related", ref>> : ref \in refs}
             /\ IsFiniteSet(g.nodes) => IsFiniteSet(h.nodes)
<1> DEFINE h == Extended(g, ns, RelatedEdges(ns))
<1>1. /\ h.edges = g.edges \cup Link(h.nodes, RelatedEdges(ns))
      /\ h.links = g.links + Cardinality(Link(h.nodes, RelatedEdges(ns)))
      /\ h.nodes \subseteq g.nodes \cup ns
      /\ Ids(h.nodes) = Ids(g.nodes) \cup Ids(ns)
  <2>1. /\ h.edges = g.edges \cup Link(h.nodes, RelatedEdges(ns))
        /\ h.links = g.links + Cardinality(Link(h.nodes, RelatedEdges(ns)))
    BY DEF Extended
  <2> HIDE DEF h
  <2> QED
    BY <2>1, Extends DEF h
<1> HIDE DEF h
<1>2. RelatedEdges(ns) = RelatedTo(refs) /\ IsFiniteSet(ns)
  BY NamedByRef
<1>3. Link(h.nodes, RelatedTo(refs)) = RelatedTo(refs)
  <2>1. \A e \in RelatedTo(refs) : /\ e.source = Claim
                                   /\ e.target \in {<<"related", ref>> : ref \in refs}
    BY DEF RelatedTo, Edge
  <2>2. Claim \notin {<<"related", ref>> : ref \in refs}
    BY DEF Claim, One
  <2> QED
    BY <1>1, <2>1, <2>2 DEF Link
<1>4. IsFiniteSet(g.nodes) => IsFiniteSet(h.nodes)
  <2> SUFFICES ASSUME IsFiniteSet(g.nodes) PROVE IsFiniteSet(h.nodes)
    OBVIOUS
  <2>1. IsFiniteSet(g.nodes \cup ns)
    BY <1>2, FS_Union
  <2> QED
    BY <1>1, <2>1, FS_Subset
<1> QED
  BY <1>1, <1>2, <1>3, <1>4, RelatedToCounts DEF h

LEMMA RelatedNamed ==
  ASSUME NEW in, Countable(in)
  PROVE  /\ IsFiniteSet(DOMAIN in.duplicates) /\ IsFiniteSet(in.related_claims)
         /\ Unique(DuplicateNodes(in)) /\ Unique(OtherNodes(in))
         /\ Ids(DuplicateNodes(in)) = {<<"related", ref>> : ref \in DOMAIN in.duplicates}
         /\ Ids(OtherNodes(in)) = {<<"related", ref>> : ref \in in.related_claims}
<1>1. IsFiniteSet(DOMAIN in.duplicates) /\ IsFiniteSet(in.related_claims)
  BY DEF Countable
<1>2. Unique(DuplicateNodes(in)) /\ Unique(OtherNodes(in))
  BY DEF Unique, DuplicateNodes, OtherNodes, Node
<1>3. Ids(OtherNodes(in)) = {<<"related", ref>> : ref \in in.related_claims}
  <2>1. \A n \in OtherNodes(in) : \E ref \in in.related_claims : n.id = <<"related", ref>>
    BY DEF OtherNodes, Node
  <2>2. ASSUME NEW ref \in in.related_claims
        PROVE  \E n \in OtherNodes(in) : n.id = <<"related", ref>>
    <3> DEFINE n == Node(<<"related", ref>>, "record", "none")
    <3>1. n \in OtherNodes(in) /\ n.id = <<"related", ref>>
      BY DEF OtherNodes, Node
    <3> QED
      BY <3>1
  <2> QED
    BY <2>1, <2>2 DEF Ids
<1>4. Ids(DuplicateNodes(in)) = {<<"related", ref>> : ref \in DOMAIN in.duplicates}
  <2>1. \A n \in DuplicateNodes(in) : \E ref \in DOMAIN in.duplicates : n.id = <<"related", ref>>
    BY DEF DuplicateNodes, Node
  <2>2. ASSUME NEW ref \in DOMAIN in.duplicates
        PROVE  \E n \in DuplicateNodes(in) : n.id = <<"related", ref>>
    <3> DEFINE n == Node(<<"related", ref>>, "derived",
                         IF in.duplicates[ref].likely /\ in.duplicates[ref].resolution = "open"
                         THEN "issue" ELSE "watch")
    <3>1. n \in DuplicateNodes(in)
      BY DEF DuplicateNodes
    <3>2. n.id = <<"related", ref>>
      BY DEF Node
    <3> QED
      BY <3>1, <3>2
  <2> QED
    BY <2>1, <2>2 DEF Ids
<1> QED
  BY <1>1, <1>2, <1>3, <1>4

LEMMA RelatedTally ==
  ASSUME IInv, Tallied, RelatedClaims
  PROVE  Tallied'
<1> DEFINE scored == DOMAIN input.duplicates
           others == input.related_claims
           ds == DuplicateNodes(input)
           os == OtherNodes(input)
           d  == Extended(graph, ds, RelatedEdges(ds))
           h  == Extended(d, os, RelatedEdges(os))
<1>1. /\ section = "related" /\ section' = "seeded"
      /\ input' = input /\ desk' = desk /\ graph' = h
  BY DEF RelatedClaims, Runs, Related
<1>2. BeforeRelated /\ ~ BeforeRelated'
  BY <1>1 DEF BeforeRelated
<1>3. /\ Claim \in Ids(graph.nodes) /\ NoneRelated(graph) /\ Recorded(graph.nodes)
  BY <1>1, <1>2 DEF IInv, Unbuilt, Whole
<1>4. /\ IsFiniteSet(graph.nodes) /\ IsFiniteSet(graph.edges)
      /\ graph.links = Cardinality(graph.edges) + 0
      /\ \A e \in graph.edges : e.relationship \in OfRisk
      /\ Countable(desk) /\ Countable(input)
      /\ Shown(graph.nodes, "related", input)
  BY <1>1, <1>2 DEF Tallied, DrawnBefore
<1>5. /\ IsFiniteSet(scored) /\ IsFiniteSet(others) /\ Unique(ds) /\ Unique(os)
      /\ Ids(ds) = {<<"related", ref>> : ref \in scored}
      /\ Ids(os) = {<<"related", ref>> : ref \in others}
  BY <1>4, RelatedNamed
<1> HIDE DEF scored, others, ds, os
<1>6. /\ d.edges = graph.edges \cup RelatedTo(scored)
      /\ d.links = graph.links + Cardinality(scored)
      /\ Ids(d.nodes) = Ids(graph.nodes) \cup {<<"related", ref>> : ref \in scored}
      /\ IsFiniteSet(d.nodes)
  BY <1>3, <1>4, <1>5, JoinsRelated
<1>7. d.nodes \subseteq graph.nodes \cup ds /\ graph.nodes \subseteq d.nodes
  BY Extends
<1> HIDE DEF d
<1>8. /\ h.edges = d.edges \cup RelatedTo(others)
      /\ h.links = d.links + Cardinality(others)
      /\ Ids(h.nodes) = Ids(d.nodes) \cup {<<"related", ref>> : ref \in others}
      /\ IsFiniteSet(h.nodes)
  <2>1. Claim \in Ids(d.nodes)
    BY <1>3, <1>6
  <2>2. IsFiniteSet(others) /\ Unique(os) /\ Ids(os) = {<<"related", ref>> : ref \in others}
    BY <1>5
  <2> HIDE DEF h
  <2>3. LET k == Extended(d, os, RelatedEdges(os))
        IN  /\ k.edges = d.edges \cup RelatedTo(others)
            /\ k.links = d.links + Cardinality(others)
            /\ Ids(k.nodes) = Ids(d.nodes) \cup {<<"related", ref>> : ref \in others}
            /\ IsFiniteSet(d.nodes) => IsFiniteSet(k.nodes)
    BY <2>1, <2>2, JoinsRelated
  <2> QED
    BY <1>6, <2>3 DEF h
<1>9. h.nodes \subseteq d.nodes \cup os /\ d.nodes \subseteq h.nodes
  BY Extends
<1> HIDE DEF h
<1>10. /\ \A n \in ds \cup os : Kind(n.id) = "related"
       /\ \A n \in ds \cup os : n.provenance # "seeded"
  BY DEF ds, os, DuplicateNodes, OtherNodes, Node, Kind
<1>11. \A n \in h.nodes : n.provenance # "seeded" /\ Kind(n.id) # "seeded"
  BY <1>3, <1>7, <1>9, <1>10 DEF Recorded
<1>12. RelatedShown(h.nodes, input)
  <2>1. {n \in OfKind(h.nodes, {"related"}) : n.provenance # "seeded"}
          = OfKind(h.nodes, {"related"})
    BY <1>11 DEF OfKind
  <2>2. \A id \in Ids(graph.nodes) : Kind(id) # "related"
    BY <1>3 DEF NoneRelated, Ids
  <2>3. \A ref : Kind(<<"related", ref>>) = "related"
    BY DEF Kind
  <2>4. Ids(h.nodes) = Ids(graph.nodes) \cup {<<"related", ref>> : ref \in scored \cup others}
    BY <1>6, <1>8
  <2>5. Ids(OfKind(h.nodes, {"related"})) = {id \in Ids(h.nodes) : Kind(id) = "related"}
    BY DEF Ids, OfKind
  <2>6. {id \in Ids(h.nodes) : Kind(id) = "related"}
          = {<<"related", ref>> : ref \in scored \cup others}
    BY <2>2, <2>3, <2>4
  <2> QED
    BY <2>1, <2>5, <2>6 DEF RelatedShown, scored, others
<1>13. Shown(h.nodes, "seeded", input)
  <2>1. \A kinds : "related" \notin kinds => OfKind(h.nodes, kinds) = OfKind(graph.nodes, kinds)
    BY <1>7, <1>9, <1>10 DEF OfKind
  <2>2. /\ OfKind(h.nodes, {"coverage"}) = OfKind(graph.nodes, {"coverage"})
        /\ OfKind(h.nodes, EvidenceKinds) = OfKind(graph.nodes, EvidenceKinds)
        /\ OfKind(h.nodes, {"fraud", "exception"}) = OfKind(graph.nodes, {"fraud", "exception"})
    BY <2>1 DEF EvidenceKinds
  <2> QED
    BY <1>4, <2>2 DEF Shown, If, CoverageAhead, EvidenceAhead, RiskAhead
<1>14. /\ IsFiniteSet(h.edges)
       /\ h.links = Cardinality(h.edges) + Cardinality(scored \cap others)
  <2>1. /\ IsFiniteSet(RelatedTo(scored)) /\ Cardinality(RelatedTo(scored)) = Cardinality(scored)
        /\ IsFiniteSet(RelatedTo(others)) /\ Cardinality(RelatedTo(others)) = Cardinality(others)
    BY <1>5, RelatedToCounts
  <2>2. IsFiniteSet(scored \cap others)
    BY <1>5, FS_Intersection
  <2>3. Cardinality(RelatedTo(scored \cap others)) = Cardinality(scored \cap others)
    BY <2>2, RelatedToCounts
  <2>4. \A refs : graph.edges \cap RelatedTo(refs) = {}
    BY <1>4 DEF RelatedTo, Edge, OfRisk, OfCatastrophe, OfPeople, OfEvidence, OfCoverage,
       OfAssets, OfIncident, OfPolicy
  <2>5. /\ IsFiniteSet(d.edges)
        /\ Cardinality(d.edges) = Cardinality(graph.edges) + Cardinality(RelatedTo(scored))
                                    - Cardinality(graph.edges \cap RelatedTo(scored))
    BY <1>4, <1>6, <2>1, FS_Union
  <2>6. Cardinality(graph.edges \cap RelatedTo(scored)) = 0
    BY <2>4, FS_EmptySet
  <2>7. /\ IsFiniteSet(h.edges)
        /\ Cardinality(h.edges) = Cardinality(d.edges) + Cardinality(RelatedTo(others))
                                    - Cardinality(d.edges \cap RelatedTo(others))
    BY <1>8, <2>1, <2>5, FS_Union
  <2>8. d.edges \cap RelatedTo(others) = RelatedTo(scored \cap others)
    <3>1. d.edges \cap RelatedTo(others)
            = (graph.edges \cap RelatedTo(others)) \cup (RelatedTo(scored) \cap RelatedTo(others))
      BY <1>6
    <3>2. RelatedTo(scored) \cap RelatedTo(others) = RelatedTo(scored \cap others)
      BY RelatedToMeets
    <3> QED
      BY <2>4, <3>1, <3>2
  <2>9. /\ Cardinality(graph.edges) \in Nat /\ Cardinality(scored) \in Nat
        /\ Cardinality(others) \in Nat /\ Cardinality(scored \cap others) \in Nat
    BY <1>4, <1>5, <2>2, FS_CardinalityType
  <2>10. Cardinality(d.edges \cap RelatedTo(others)) = Cardinality(scored \cap others)
    BY <2>3, <2>8
  <2>11. Cardinality(d.edges) = Cardinality(graph.edges) + Cardinality(scored)
    BY <2>1, <2>5, <2>6, <2>9
  <2>12. Cardinality(h.edges) = Cardinality(graph.edges) + Cardinality(scored)
                                  + Cardinality(others) - Cardinality(scored \cap others)
    BY <2>1, <2>7, <2>9, <2>10, <2>11
  <2>13. h.links = Cardinality(graph.edges) + 0 + Cardinality(scored) + Cardinality(others)
    BY <1>4, <1>6, <1>8
  <2> QED
    BY <2>7, <2>9, <2>12, <2>13
<1>15. NamedTwice(input) = Cardinality(scored \cap others)
  BY DEF NamedTwice, scored, others
<1>16. Shown(graph'.nodes, section', input') /\ RelatedShown(graph'.nodes, input')
  BY <1>1, <1>12, <1>13
<1>17. NamedTwice(input)' = NamedTwice(input)
  BY <1>1 DEF NamedTwice
<1> QED
  BY <1>1, <1>2, <1>4, <1>8, <1>11, <1>14, <1>15, <1>16, <1>17 DEF Tallied, Shown, If,
     RelatedShown, CoverageNodes, Checks, NoticeNodes, DocumentNodes, FraudNodes,
     ExceptionNodes, OpenExceptions, Indicators

(* The scaffolding is four entities at most, none of a counted kind but    *)
(* those told apart as seeded.                                             *)
LEMMA ScaffoldingShape ==
  /\ \A n \in Scaffolding : /\ n.provenance = "seeded"
                            /\ Kind(n.id) \in {"adjuster", "seeded", "related"}
  /\ IsFiniteSet(Scaffolding)
  /\ \A nodes : SeededNodes(nodes) \subseteq Scaffolding
<1>1. \A n \in Scaffolding : /\ n.provenance = "seeded"
                             /\ Kind(n.id) \in {"adjuster", "seeded", "related"}
  BY DEF Scaffolding, Node, Kind, Adjuster, One, Amendment, RepeatCause, History
<1>2. IsFiniteSet(Scaffolding)
  BY FiniteFew DEF Scaffolding
<1>3. \A nodes : SeededNodes(nodes) \subseteq Scaffolding
  BY DEF SeededNodes, If, Scaffolding
<1> QED
  BY <1>1, <1>2, <1>3

SeededNames == {"INSPECTED_BY", "HAS_INDICATOR", "RELATED_TO", "OCCURRED_AT", "EVIDENCES"}

LEMMA SeededDraws ==
  ASSUME NEW nodes
  PROVE  /\ \A e \in SeededEdges(nodes) : Proper(e, SeededNames) /\ e.provenance = "seeded"
         /\ IsFiniteSet(SeededNames)
<1>1. \A e \in SeededEdges(nodes) : Proper(e, SeededNames) /\ e.provenance = "seeded"
  BY DEF SeededEdges, If, Edge, Proper, SeededNames
<1>2. IsFiniteSet(SeededNames)
  <2>1. IsFiniteSet({"INSPECTED_BY", "HAS_INDICATOR", "RELATED_TO", "OCCURRED_AT"})
    BY FiniteFew
  <2>2. IsFiniteSet({"INSPECTED_BY", "HAS_INDICATOR", "RELATED_TO", "OCCURRED_AT"}
                      \cup {"EVIDENCES"})
    BY <2>1, FS_AddElement
  <2>3. SeededNames = {"INSPECTED_BY", "HAS_INDICATOR", "RELATED_TO", "OCCURRED_AT"}
                        \cup {"EVIDENCES"}
    BY DEF SeededNames
  <2> QED
    BY <2>2, <2>3
<1> QED
  BY <1>1, <1>2

LEMMA SeededTally ==
  ASSUME IInv, Tallied, SeededEntities
  PROVE  Tallied'
<1> DEFINE ns == SeededNodes(graph.nodes)
           es == SeededEdges(graph.nodes)
           h  == Extended(graph, ns, es)
<1>1. /\ section = "seeded" /\ section' = "summary"
      /\ input' = input /\ desk' = desk
      /\ graph' = h \/ graph' = graph
  BY DEF SeededEntities, Runs
<1>2. ~ BeforeRelated /\ ~ BeforeRelated'
  BY <1>1 DEF BeforeRelated
<1>3. /\ Countable(desk) /\ Countable(input)
      /\ IsFiniteSet(graph.nodes) /\ IsFiniteSet(graph.edges)
      /\ Shown(graph.nodes, "seeded", input) /\ RelatedShown(graph.nodes, input)
      /\ \A n \in graph.nodes : /\ n.provenance = "seeded" => n \in Scaffolding
                               /\ Kind(n.id) = "seeded" => n.provenance = "seeded"
      /\ graph.links = Cardinality(graph.edges) + NamedTwice(input)
      /\ Drawn(graph.edges)
  BY <1>1, <1>2 DEF Tallied, IInv
<1>4. /\ \A n \in ns : /\ n \in Scaffolding /\ n.provenance = "seeded"
                       /\ Kind(n.id) \in {"adjuster", "seeded", "related"}
      /\ IsFiniteSet(ns)
  BY ScaffoldingShape, FS_Subset
<1>5. /\ h.nodes \subseteq graph.nodes \cup ns /\ graph.nodes \subseteq h.nodes
  BY Extends
<1>6. /\ h.edges = graph.edges \cup Link(h.nodes, es)
      /\ h.links = graph.links + Cardinality(Link(h.nodes, es))
  BY DEF Extended
<1>7. \A e \in es : Proper(e, SeededNames) /\ e.provenance = "seeded"
  BY SeededDraws
<1> HIDE DEF ns, es, h
<1>8. IsFiniteSet(h.nodes)
  <2>1. IsFiniteSet(graph.nodes \cup ns)
    BY <1>3, <1>4, FS_Union
  <2> QED
    BY <1>5, <2>1, FS_Subset
<1>9. Shown(h.nodes, "summary", input)
  <2>1. \A kinds : kinds \cap {"adjuster", "seeded", "related"} = {}
                     => OfKind(h.nodes, kinds) = OfKind(graph.nodes, kinds)
    BY <1>4, <1>5 DEF OfKind
  <2>2. /\ OfKind(h.nodes, {"coverage"}) = OfKind(graph.nodes, {"coverage"})
        /\ OfKind(h.nodes, EvidenceKinds) = OfKind(graph.nodes, EvidenceKinds)
        /\ OfKind(h.nodes, {"fraud", "exception"}) = OfKind(graph.nodes, {"fraud", "exception"})
    BY <2>1 DEF EvidenceKinds
  <2> QED
    BY <1>3, <2>2 DEF Shown, If, CoverageAhead, EvidenceAhead, RiskAhead
<1>10. RelatedShown(h.nodes, input)
  <2>1. {n \in OfKind(h.nodes, {"related"}) : n.provenance # "seeded"}
          = {n \in OfKind(graph.nodes, {"related"}) : n.provenance # "seeded"}
    BY <1>4, <1>5 DEF OfKind
  <2> QED
    BY <1>3, <2>1 DEF RelatedShown
<1>11. \A n \in h.nodes : /\ n.provenance = "seeded" => n \in Scaffolding
                         /\ Kind(n.id) = "seeded" => n.provenance = "seeded"
  BY <1>3, <1>4, <1>5
<1>12. IsFiniteSet(h.edges) /\ h.links = Cardinality(h.edges) + NamedTwice(input)
  <2> DEFINE joined == Link(h.nodes, es)
  <2>1. IsFiniteSet(joined)
    BY <1>7, <1>8, SeededDraws, FiniteLinks
  <2>2. graph.edges \cap joined = {}
    BY <1>3, <1>7 DEF Drawn, Link
  <2> HIDE DEF joined
  <2>3. /\ IsFiniteSet(graph.edges \cup joined)
        /\ Cardinality(graph.edges \cup joined)
             = Cardinality(graph.edges) + Cardinality(joined)
                 - Cardinality(graph.edges \cap joined)
    BY <1>3, <2>1, FS_Union
  <2>4. Cardinality(graph.edges \cap joined) = 0
    BY <2>2, FS_EmptySet
  <2>5. Cardinality(graph.edges) \in Nat /\ Cardinality(joined) \in Nat
    BY <1>3, <2>1, FS_CardinalityType
  <2>6. NamedTwice(input) \in Nat
    <3>1. IsFiniteSet(DOMAIN input.duplicates \cap input.related_claims)
      BY <1>3, FS_Intersection, RelatedNamed
    <3> QED
      BY <3>1, FS_CardinalityType DEF NamedTwice
  <2>7. h.edges = graph.edges \cup joined /\ h.links = graph.links + Cardinality(joined)
    BY <1>6 DEF joined
  <2>8. Cardinality(h.edges) = Cardinality(graph.edges) + Cardinality(joined)
    BY <2>3, <2>4, <2>5, <2>7
  <2> QED
    BY <1>3, <2>3, <2>5, <2>6, <2>7, <2>8
<1>13. NamedTwice(input)' = NamedTwice(input)
  BY <1>1 DEF NamedTwice
<1>14. Shown(graph.nodes, "summary", input)
  BY <1>3 DEF Shown, If, CoverageAhead, EvidenceAhead, RiskAhead
<1>15. /\ IsFiniteSet(graph'.nodes) /\ IsFiniteSet(graph'.edges)
       /\ Shown(graph'.nodes, section', input') /\ RelatedShown(graph'.nodes, input')
       /\ \A n \in graph'.nodes : /\ n.provenance = "seeded" => n \in Scaffolding
                                 /\ Kind(n.id) = "seeded" => n.provenance = "seeded"
       /\ graph'.links = Cardinality(graph'.edges) + NamedTwice(input)
  <2>1. CASE graph' = h
    BY <2>1, <1>1, <1>8, <1>9, <1>10, <1>11, <1>12
  <2>2. CASE graph' = graph
    BY <2>2, <1>1, <1>3, <1>14
  <2> QED
    BY <1>1, <2>1, <2>2
<1> QED
  BY <1>1, <1>2, <1>3, <1>13, <1>15 DEF Tallied, Shown, If, RelatedShown, CoverageNodes,
     Checks, NoticeNodes, DocumentNodes, FraudNodes, ExceptionNodes, OpenExceptions,
     Indicators

LEMMA ReadTally ==
  ASSUME IInv, Tallied, Read
  PROVE  Tallied'
<1>1. /\ section = "gather" /\ section' \in {"gather", "claim"}
      /\ graph' = graph /\ desk' = desk
      /\ \E q : input' = [input EXCEPT ![q] = Answer(q)]
  BY DEF Read
<1>2. graph.nodes = {} /\ graph.edges = {}
  BY <1>1 DEF IInv, Unbuilt
<1>3. BeforeRelated /\ BeforeRelated'
  BY <1>1 DEF BeforeRelated
<1>4. Countable(input')
  BY <1>1, AnswersCounted DEF Tallied
<1>5. Shown(graph'.nodes, section', input')
  BY <1>1, <1>2, EmptyKinds DEF CoverageAhead
<1>6. /\ Countable(desk) /\ IsFiniteSet(graph.nodes) /\ IsFiniteSet(graph.edges)
      /\ graph.links = Cardinality(graph.edges) + 0
  BY <1>3 DEF Tallied
<1> QED
  BY <1>1, <1>2, <1>3, <1>4, <1>5, <1>6 DEF Tallied, Shown, If, CoverageNodes, Checks,
     NoticeNodes, DocumentNodes, FraudNodes, ExceptionNodes, OpenExceptions, Indicators

LEMMA NextTallied == IInv /\ Tallied /\ [Next]_vars => Tallied'
<1> SUFFICES ASSUME IInv, Tallied, [Next]_vars
             PROVE  Tallied'
  OBVIOUS
<1>1. CASE Commit
  <2>1. UNCHANGED <<graph, section, input, summary>>
    BY <1>1 DEF Commit
  <2>2. Countable(desk')
    BY <1>1, RecordsAssumption, CommittedCounted DEF Commit
  <2>3. section' # "done"
    BY <1>1 DEF Commit
  <2> QED
    BY <2>1, <2>2, <2>3 DEF Tallied, BeforeRelated, Shown, If, RelatedShown, CoverageNodes,
       Checks, NoticeNodes, DocumentNodes, FraudNodes, ExceptionNodes, OpenExceptions,
       Indicators, NamedTwice
<1>2. CASE Summarise
  <2>1. /\ UNCHANGED <<desk, graph, input>>
        /\ section = "summary" /\ section' = "done"
        /\ summary' = Summary(graph, input)
    BY <1>2 DEF Summarise
  <2>2. ~ BeforeRelated /\ ~ BeforeRelated'
    BY <2>1 DEF BeforeRelated
  <2>3. /\ Shown(graph.nodes, "summary", input)
        /\ Shown(graph.nodes, "done", input)
    BY <2>1 DEF Tallied, Shown, If, CoverageAhead, EvidenceAhead, RiskAhead
  <2>4. summary' = Summary(graph', input')
    BY <2>1
  <2>5. Shown(graph'.nodes, section', input')
    BY <2>1, <2>3
  <2> QED
    BY <2>1, <2>2, <2>4, <2>5 DEF Tallied, Shown, If, RelatedShown, CoverageNodes, Checks,
       NoticeNodes, DocumentNodes, FraudNodes, ExceptionNodes, OpenExceptions, Indicators,
       NamedTwice, Summary, Signals, Selected, Tone, CoverageIssues, States
<1>3. CASE UNCHANGED vars
  <2>1. UNCHANGED <<desk, graph, section, input, summary>>
    BY <1>3 DEF vars
  <2>2. /\ Countable(desk)' = Countable(desk) /\ Countable(input)' = Countable(input)
        /\ BeforeRelated' = BeforeRelated
    BY <2>1 DEF Countable, BeforeRelated
  <2>3. Shown(graph.nodes, section, input)' = Shown(graph.nodes, section, input)
    BY <2>1 DEF Shown, If, CoverageNodes, Checks, NoticeNodes, DocumentNodes, FraudNodes,
       ExceptionNodes, OpenExceptions, Indicators
  <2>4. /\ RelatedShown(graph.nodes, input)' = RelatedShown(graph.nodes, input)
        /\ NamedTwice(input)' = NamedTwice(input)
    BY <2>1 DEF RelatedShown, NamedTwice
  <2>5. Summary(graph, input)' = Summary(graph, input)
    BY <2>1
  <2> QED
    BY <2>1, <2>2, <2>3, <2>4, <2>5 DEF Tallied
<1> QED
  BY <1>1, <1>2, <1>3, ReadTally, ClaimTally, PolicyTally, IncidentTally, AssetsTally,
     CoverageTally, EvidenceTally, PeopleTally, CatastropheTally, RiskTally, RelatedTally,
     SeededTally DEF Next

LEMMA AlwaysTallied == Spec => [](IInv /\ Tallied)
<1>1. Init => IInv /\ Tallied
  BY InitHolds, InitTallied
<1>2. (IInv /\ Tallied) /\ [Next]_vars => (IInv /\ Tallied)'
  BY NextHolds, NextTallied
<1> QED
  BY <1>1, <1>2, PTL DEF Spec

-----------------------------------------------------------------------------
(* The tiles, one by one.                                                  *)
LEMMA DisjointSum ==
  ASSUME NEW a, NEW b, IsFiniteSet(a), IsFiniteSet(b), a \cap b = {}
  PROVE  /\ IsFiniteSet(a \cup b)
         /\ Cardinality(a \cup b) = Cardinality(a) + Cardinality(b)
         /\ Cardinality(a) \in Nat /\ Cardinality(b) \in Nat
<1>1. /\ IsFiniteSet(a \cup b)
      /\ Cardinality(a \cup b) = Cardinality(a) + Cardinality(b) - Cardinality(a \cap b)
  BY FS_Union
<1>2. Cardinality(a \cap b) = 0
  BY FS_EmptySet
<1>3. Cardinality(a) \in Nat /\ Cardinality(b) \in Nat
  BY FS_CardinalityType
<1> QED
  BY <1>1, <1>2, <1>3

LEMMA IssuesCount ==
  ASSUME NEW in, Countable(in)
  PROVE  Cardinality({n \in CoverageNodes(in) : n.flag # "none"}) = Cardinality(Undecided(in))
<1> DEFINE ns == {n \in CoverageNodes(in) : n.flag # "none"}
           flagged(key) == Node(<<"coverage", key>>, "derived", CheckFlag(Checks(in)[key]))
<1>1. \A state : CheckFlag(state) # "none" <=> state \in {"fail", "warn", "attention"}
  BY DEF CheckFlag
<1>2. \A key : /\ flagged(key).id = <<"coverage", key>>
               /\ flagged(key).flag = CheckFlag(Checks(in)[key])
  BY DEF Node
<1>3. CoverageNodes(in) = {flagged(key) : key \in DOMAIN Checks(in)}
  BY DEF CoverageNodes
<1> HIDE DEF flagged
<1>4. ns = {flagged(key) : key \in Undecided(in)}
  BY <1>1, <1>2, <1>3 DEF Undecided
<1> HIDE DEF ns
<1>5. Ids(ns) = {<<"coverage", key>> : key \in Undecided(in)}
  BY <1>2, <1>4 DEF Ids
<1>6. Unique(ns)
  <2> SUFFICES ASSUME NEW n \in ns, NEW m \in ns, n.id = m.id
               PROVE  n = m
    BY DEF Unique
  <2>1. PICK a : n = flagged(a)
    BY <1>4
  <2>2. PICK b : m = flagged(b)
    BY <1>4
  <2>3. <<"coverage", a>> = <<"coverage", b>>
    BY <2>1, <2>2, <1>2
  <2>4. a = b
    BY <2>3
  <2> QED
    BY <2>1, <2>2, <2>4
<1>7. IsFiniteSet(Undecided(in))
  <2>1. IsFiniteSet(DOMAIN Checks(in))
    <3>1. CASE "coverage" \in DOMAIN in.analyses
      BY <3>1 DEF Countable, Checks
    <3>2. CASE "coverage" \notin DOMAIN in.analyses
      <4>1. DOMAIN Checks(in) = {}
        BY <3>2 DEF Checks, NoRows
      <4> QED
        BY <4>1, FS_EmptySet
    <3> QED
      BY <3>1, <3>2
  <2>2. Undecided(in) \subseteq DOMAIN Checks(in)
    BY DEF Undecided
  <2> QED
    BY <2>1, <2>2, FS_Subset
<1>8. Cardinality(ns) = Cardinality(Undecided(in))
  BY <1>5, <1>6, <1>7, CountByKey
<1> QED
  BY <1>8 DEF ns

LEMMA EvidenceCounts ==
  ASSUME NEW in, Countable(in)
  PROVE  Cardinality(NoticeNodes(in) \cup DocumentNodes(in))
           = Cardinality(DOMAIN in.documents) + (IF in.case = None THEN 0 ELSE 1)
<1>1. IsFiniteSet(DOMAIN in.documents)
  BY DEF Countable
<1>2. Unique(DocumentNodes(in))
  BY DEF Unique, DocumentNodes, Node
<1>3. Ids(DocumentNodes(in)) = {<<"evidence", d>> : d \in DOMAIN in.documents}
  <2> DEFINE node(d) == Node(<<"evidence", d>>, "record",
                             IF in.documents[d].failed THEN "issue" ELSE "none")
  <2>1. \A d : node(d).id = <<"evidence", d>>
    BY DEF Node
  <2>2. DocumentNodes(in) = {node(d) : d \in DOMAIN in.documents}
    BY DEF DocumentNodes
  <2> HIDE DEF node
  <2> QED
    BY <2>1, <2>2 DEF Ids
<1>4. /\ IsFiniteSet(DocumentNodes(in))
      /\ Cardinality(DocumentNodes(in)) = Cardinality(DOMAIN in.documents)
  BY <1>1, <1>2, <1>3, CountByKey
<1>5. /\ IsFiniteSet(NoticeNodes(in))
      /\ Cardinality(NoticeNodes(in)) = IF in.case = None THEN 0 ELSE 1
  BY FS_EmptySet, FS_Singleton DEF NoticeNodes, If
<1>6. NoticeNodes(in) \cap DocumentNodes(in) = {}
  <2>1. \A n \in NoticeNodes(in) : Kind(n.id) = "notification"
    BY DEF NoticeNodes, If, Node, Kind, Notice, One
  <2>2. \A n \in DocumentNodes(in) : Kind(n.id) = "evidence"
    BY DEF DocumentNodes, Node, Kind
  <2> QED
    BY <2>1, <2>2
<1>7. Cardinality(NoticeNodes(in) \cup DocumentNodes(in))
        = Cardinality(NoticeNodes(in)) + Cardinality(DocumentNodes(in))
  BY <1>4, <1>5, <1>6, DisjointSum
<1>8. Cardinality(DOMAIN in.documents) \in Nat
  BY <1>1, FS_CardinalityType
<1> QED
  BY <1>4, <1>5, <1>7, <1>8

LEMMA RiskCounts ==
  ASSUME NEW in, Countable(in)
  PROVE  /\ IsFiniteSet(FraudNodes(in) \cup ExceptionNodes(in))
         /\ Cardinality(FraudNodes(in) \cup ExceptionNodes(in))
              = Len(Indicators(in)) + Cardinality(OpenExceptions(in))
<1>1. /\ Len(Indicators(in)) \in Nat
      /\ DOMAIN Indicators(in) = 1..Len(Indicators(in))
      /\ IsFiniteSet(OpenExceptions(in))
  BY RiskAdds
<1>2. /\ IsFiniteSet(DOMAIN Indicators(in))
      /\ Cardinality(DOMAIN Indicators(in)) = Len(Indicators(in))
  <2> DEFINE number == Len(Indicators(in))
  <2>1. 1 \in Int /\ number \in Int /\ number \in Nat
    BY <1>1
  <2> HIDE DEF number
  <2>2. /\ IsFiniteSet(1..number)
        /\ Cardinality(1..number) = IF 1 > number THEN 0 ELSE number - 1 + 1
    BY <2>1, FS_Interval
  <2>3. Cardinality(1..number) = number
    BY <2>1, <2>2
  <2> QED
    BY <1>1, <2>2, <2>3 DEF number
<1>3. Unique(FraudNodes(in)) /\ Unique(ExceptionNodes(in))
  BY DEF Unique, FraudNodes, ExceptionNodes, Node
<1>4. Ids(FraudNodes(in)) = {<<"fraud", i>> : i \in DOMAIN Indicators(in)}
  <2> DEFINE node(i) == Node(<<"fraud", i>>, "derived", SeverityFlag(Indicators(in)[i]))
  <2>1. \A i : node(i).id = <<"fraud", i>>
    BY DEF Node
  <2>2. FraudNodes(in) = {node(i) : i \in DOMAIN Indicators(in)}
    BY DEF FraudNodes
  <2> HIDE DEF node
  <2> QED
    BY <2>1, <2>2 DEF Ids
<1>5. Ids(ExceptionNodes(in)) = {<<"exception", code>> : code \in OpenExceptions(in)}
  <2> DEFINE node(code) == Node(<<"exception", code>>, "derived",
                                IF in.exceptions[code].blocking THEN "issue" ELSE "watch")
  <2>1. \A code : node(code).id = <<"exception", code>>
    BY DEF Node
  <2>2. ExceptionNodes(in) = {node(code) : code \in OpenExceptions(in)}
    BY DEF ExceptionNodes
  <2> HIDE DEF node
  <2> QED
    BY <2>1, <2>2 DEF Ids
<1>6. /\ IsFiniteSet(FraudNodes(in)) /\ IsFiniteSet(ExceptionNodes(in))
      /\ Cardinality(FraudNodes(in)) = Cardinality(DOMAIN Indicators(in))
      /\ Cardinality(ExceptionNodes(in)) = Cardinality(OpenExceptions(in))
  <2> DEFINE fs == FraudNodes(in)
             xs == ExceptionNodes(in)
             found == DOMAIN Indicators(in)
             open == OpenExceptions(in)
  <2>1. /\ IsFiniteSet(found) /\ Unique(fs)
        /\ Ids(fs) = {<<"fraud", i>> : i \in found}
    BY <1>2, <1>3, <1>4
  <2>2. /\ IsFiniteSet(open) /\ Unique(xs)
        /\ Ids(xs) = {<<"exception", code>> : code \in open}
    BY <1>1, <1>3, <1>5
  <2> HIDE DEF fs, xs, found, open
  <2>3. IsFiniteSet(fs) /\ Cardinality(fs) = Cardinality(found)
    BY <2>1, CountByKey
  <2>4. IsFiniteSet(xs) /\ Cardinality(xs) = Cardinality(open)
    BY <2>2, CountByKey
  <2> QED
    BY <2>3, <2>4 DEF fs, xs, found, open
<1>7. FraudNodes(in) \cap ExceptionNodes(in) = {}
  <2>1. \A n \in FraudNodes(in) : Kind(n.id) = "fraud"
    BY DEF FraudNodes, Node, Kind
  <2>2. \A n \in ExceptionNodes(in) : Kind(n.id) = "exception"
    BY DEF ExceptionNodes, Node, Kind
  <2> QED
    BY <2>1, <2>2
<1>8. /\ IsFiniteSet(FraudNodes(in) \cup ExceptionNodes(in))
      /\ Cardinality(FraudNodes(in) \cup ExceptionNodes(in))
           = Cardinality(FraudNodes(in)) + Cardinality(ExceptionNodes(in))
  BY <1>6, <1>7, DisjointSum
<1> QED
  BY <1>2, <1>6, <1>8

(* knowledge_graph.py:1794-1817: when the request is answered each tile is *)
(* the number of records behind it, whatever was committed while they were *)
(* read, and the scaffolding counted beside them.                          *)
THEOREM TilesAgree == Spec => []TilesCount
<1>1. IInv /\ Tallied => TilesCount
  <2> SUFFICES ASSUME IInv, Tallied, section = "done"
               PROVE  /\ summary.coverage_issues = Cardinality(Undecided(input))
                      /\ summary.evidence_count =
                           Cardinality(DOMAIN input.documents)
                             + (IF input.case = None THEN 0 ELSE 1)
                      /\ summary.risk_indicators =
                           Len(Indicators(input)) + Cardinality(OpenExceptions(input))
                             + Cardinality(SeededOf("seeded"))
                      /\ summary.related_claims =
                           Cardinality(DOMAIN input.duplicates \cup input.related_claims)
                             + Cardinality(SeededOf("related"))
                      /\ summary.relationship_count =
                           Cardinality(graph.edges)
                             + Cardinality(DOMAIN input.duplicates \cap input.related_claims)
    BY DEF TilesCount
  <2> DEFINE nodes == graph.nodes
             risk == FraudNodes(input) \cup ExceptionNodes(input)
             evidence == NoticeNodes(input) \cup DocumentNodes(input)
             named == {n \in OfKind(nodes, {"related"}) : n.provenance # "seeded"}
             refs == DOMAIN input.duplicates \cup input.related_claims
  <2>1. /\ summary.coverage_issues = Cardinality(CoverageIssues(graph))
        /\ summary.evidence_count = Cardinality(OfKind(nodes, EvidenceKinds))
        /\ summary.risk_indicators = Cardinality(OfKind(nodes, IndicatorKinds))
        /\ summary.related_claims = Cardinality(OfKind(nodes, {"related"}))
        /\ summary.relationship_count = graph.links
    <3>1. summary = Summary(graph, input)
      BY DEF Tallied
    <3> QED
      BY <3>1 DEF Summary
  <2>2. /\ Countable(input) /\ IsFiniteSet(nodes) /\ Unique(nodes)
        /\ \A n \in nodes : Kind(n.id) = "seeded" => n.provenance = "seeded"
        /\ RelatedShown(nodes, input)
        /\ graph.links = Cardinality(graph.edges) + NamedTwice(input)
    BY DEF Tallied, IInv, Unbuilt, BeforeRelated, Whole
  <2>3. /\ OfKind(nodes, {"coverage"}) = CoverageNodes(input)
        /\ OfKind(nodes, EvidenceKinds) = evidence
        /\ OfKind(nodes, {"fraud", "exception"}) = risk
    BY DEF Tallied, Shown, If, CoverageAhead, EvidenceAhead, RiskAhead
  <2>4. /\ SeededOf("seeded") = {n \in nodes : n.provenance = "seeded" /\ Kind(n.id) = "seeded"}
        /\ SeededOf("related") = {n \in nodes : n.provenance = "seeded" /\ Kind(n.id) = "related"}
        /\ IsFiniteSet(SeededOf("seeded")) /\ IsFiniteSet(SeededOf("related"))
    <3>1. /\ SeededOf("seeded") = {n \in nodes : n.provenance = "seeded" /\ Kind(n.id) = "seeded"}
          /\ SeededOf("related") = {n \in nodes : n.provenance = "seeded" /\ Kind(n.id) = "related"}
      BY DEF SeededOf, Seeded
    <3> HIDE DEF nodes
    <3>2. SeededOf("seeded") \subseteq nodes /\ SeededOf("related") \subseteq nodes
      BY <3>1
    <3> QED
      BY <2>2, <3>1, <3>2, FS_Subset
  <2> HIDE DEF nodes, risk, evidence
  <2>5. summary.coverage_issues = Cardinality(Undecided(input))
    <3>1. CoverageIssues(graph) = {n \in CoverageNodes(input) : n.flag # "none"}
      BY <2>3 DEF CoverageIssues, nodes
    <3> QED
      BY <2>1, <2>2, <3>1, IssuesCount
  <2>6. summary.evidence_count =
          Cardinality(DOMAIN input.documents) + (IF input.case = None THEN 0 ELSE 1)
    BY <2>1, <2>2, <2>3, EvidenceCounts DEF evidence
  <2>7. summary.risk_indicators =
          Len(Indicators(input)) + Cardinality(OpenExceptions(input))
            + Cardinality(SeededOf("seeded"))
    <3>1. OfKind(nodes, IndicatorKinds) = risk \cup SeededOf("seeded")
      <4>1. OfKind(nodes, IndicatorKinds)
              = OfKind(nodes, {"fraud", "exception"})
                  \cup {n \in nodes : Kind(n.id) = "seeded"}
        BY DEF OfKind, IndicatorKinds
      <4>2. {n \in nodes : Kind(n.id) = "seeded"} = SeededOf("seeded")
        BY <2>2, <2>4
      <4> QED
        BY <2>3, <4>1, <4>2
    <3>2. risk \cap SeededOf("seeded") = {}
      <4>1. \A n \in risk : Kind(n.id) \in {"fraud", "exception"}
        BY <2>3 DEF OfKind
      <4> QED
        BY <2>4, <4>1
    <3>3. /\ IsFiniteSet(risk)
          /\ Cardinality(risk) = Len(Indicators(input)) + Cardinality(OpenExceptions(input))
      BY <2>2, RiskCounts DEF risk
    <3>4. Cardinality(risk \cup SeededOf("seeded"))
            = Cardinality(risk) + Cardinality(SeededOf("seeded"))
      BY <2>4, <3>2, <3>3, DisjointSum
    <3> QED
      BY <2>1, <3>1, <3>3, <3>4
  <2>8. summary.related_claims = Cardinality(refs) + Cardinality(SeededOf("related"))
    <3>1. OfKind(nodes, {"related"}) = named \cup SeededOf("related")
      BY <2>4 DEF OfKind
    <3>2. named \cap SeededOf("related") = {}
      BY <2>4
    <3>3. Ids(named) = {<<"related", ref>> : ref \in refs}
      BY <2>2 DEF RelatedShown
    <3>4. Unique(named)
      BY <2>2 DEF Unique, OfKind
    <3>5. IsFiniteSet(refs)
      BY <2>2, RelatedNamed, FS_Union
    <3> HIDE DEF named, refs
    <3>6. IsFiniteSet(named) /\ Cardinality(named) = Cardinality(refs)
      BY <3>3, <3>4, <3>5, CountByKey
    <3>7. Cardinality(named \cup SeededOf("related"))
            = Cardinality(named) + Cardinality(SeededOf("related"))
      BY <2>4, <3>2, <3>6, DisjointSum
    <3> QED
      BY <2>1, <3>1, <3>6, <3>7
  <2>9. summary.relationship_count =
          Cardinality(graph.edges)
            + Cardinality(DOMAIN input.duplicates \cap input.related_claims)
    BY <2>1, <2>2 DEF NamedTwice
  <2> QED
    BY <2>5, <2>6, <2>7, <2>8, <2>9
<1> QED
  BY <1>1, AlwaysTallied, PTL

=============================================================================
