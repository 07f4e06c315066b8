# Claims Workbench: specifications

TLA+ models of the first-notice-of-loss (FNOL) service under `src/app`, the TLC
runs that check them, and theorems checked by TLAPS. `PROJECT.json` maps every
definition to the lines it models, and lists the runs, the hazards they are for
and what they found.

## 1. The system

A notification arrives (a portal, a mailbox, the telephone), is logged as a
*notice*, read by an intake pipeline, put right by officers, and at last turned
into a *claim*. All of it runs in FastAPI handlers on one asyncio loop per
process, several processes over one PostgreSQL database. A handler has one
SQLAlchemy session, loads the notice with its child rows, and commits once at
the end. The isolation level is READ COMMITTED, there is no version column, and
the session has `autoflush=False, expire_on_commit=False`.

| part | state | operations | properties that make it correct |
|---|---|---|---|
| lifecycle (`domain/lifecycle.py`) | – | legal moves, the status the open codes imply | a status an officer chose, or a final one, is kept |
| notice store (`models/fnol.py`, `repositories/fnol.py`) | case row; fields, policy candidates, duplicate candidates, exceptions, stored readings, documents | load, flush, commit | officers' decisions survive, child rows agree with the case row |
| pipeline (`services/fnol/pipeline.py`) | on the session | read, classify, match, assess, raise exceptions, set the status; catch a stage that raises | the status is what the open codes imply; partial work breaks nothing |
| officers' routes (`service.py`, `routes/fnol.py`) | on the session | correct, select a policy, decide a duplicate, close an exception, attribute to a catastrophe, move, upload, remove | a converted notice does not change |
| claim creation (`claims.py`) | claim row, link | lock, look, check, insert | refused when it should be, at most once, all or nothing, a copy of the notice |
| ingestion (`ingestion.py`) | keys on the case row | find, insert | a message delivered again is not logged again |
| references (`repositories/reference.py`) | a counter row per prefix and year | upsert, lock, increment | unique, no gaps |
| documents and stores (`services/documents`) | bytes under a key; rows | attach, remove | a row has its own bytes, the limit, an e-mail is attached whole |
| triage and assignment (`domain/triage.py`, `services/fnol/triage.py`) | triage and assignment rows, handlers' counters | route, score, assign | routing order, authority, workload |
| rules (`assessment.py`, `rules.py`, `catastrophe.py`) | – | pure functions | monotone, bounded, agree with their thresholds |
| matching (`services/fnol/matching.py`, `policy_match.py`, `duplicates.py`) | candidate rows, the policy of the case, the hold | rank, bind, select; scan, upsert, prune, decide | a quoted number finds its policy, a repeat is asked about, nothing is bound that wants a judgement, a hold has a reason |
| knowledge graph (`domain/knowledge_graph.py`, `routes/claims.py`) | – | a read model of a claim, read query by query | no dangling edge, everything hangs on the claim, scaffolding is told apart, the tiles agree with the records |
| outbound HTTP, key cache, worker loop | clients | retry, refresh, start and stop | no repeated effect, no refresh storm |
| audit, summary, PDF, configuration, seed, schemas | rows, text | – | – |

They interact by calls inside a handler and through the rows: two handlers on
one notice never call each other, they only meet in the database. That is where
the hard behaviours are: an object loaded before another request commits, a lock
taken on an object loaded before, a stage that raises after others wrote,
decisions of officers between two readings, a redelivery during the first
delivery, and row locks taken in different orders.

## 2. The modules

    Lifecycle          statuses, moves, blocking codes        (pure)
     \- NoticeStore    rows, sessions, stages of the pipeline (pure)
         \- NoticeRequests    requests: variables, actions, Spec, FairSpec
             \- NoticeProperties    properties; refinement of ClaimPromise
                 |- MCNotice        values for TLC
                 \- NoticeProofs    theorems
    ReferenceBook      abstract: numbered notices, one for a key
     \- Intake         deliveries, counters, keys; refinement of ReferenceBook
         |- MCIntake
         \- IntakeProofs
    ClaimPromise       abstract: a claim made once, with nothing open
    Documents          rows in the database, bytes in the store
     |- MCDocuments
     \- DocumentsProofs
         \- DocumentsLimitProofs
    Assessment         severity, fraud, coverage, catastrophes (pure)
     \- Triage         categories, route, priority, eligibility (pure)
         |- Findings   one notice through readings, overrides, failing runs
         |   |- MCFindings
         |   \- FindingsProofs
         \- Assignment claims, handlers, counters, overlapping requests
             |- MCAssignment
             \- AssignmentProofs
    Likeness           signals, weights, scores, strengths (pure)
     \- Matching       one notice, the book and the other reports
         |- MCMatching
         \- MatchingProofs
    KnowledgeGraph     one request for the graph of a claim
     |- MCKnowledgeGraph
     \- KnowledgeGraphProofs

### The notice

`store` is the committed database of one notice. `store.case` is the case row
(status, loss date, everything else known of the loss, policy, whether an
officer confirmed it, whether it is linked to a claim); `fields`, `matches`,
`dups`, `exc`, `analysis` and `docs` are its child rows. `claims` holds the claim
rows, `locker` who holds the lock of the case row. Per request, `pc` is how far
it is, `base` what its session loaded, `work` what it will have written at
commit.

What the notification says is not modelled, only the judgements reached on it. A
loss date is `past`, `late` (after the notice was received), `future` (only as
read: normalisation refuses to store it) or `none`. A member of `Details` tells
whether a critical fact is missing, whether the words a claim needs are there,
how strongly a policy matches and which policies are candidates. A reading of
the notification may give any date of `Answers` and any details, a scan may find
any set of duplicates: that covers what the scores and the readers can answer.

| action | code |
|---|---|
| `Load` | `FNOLService.get` and the selectin relationships |
| `UpdateFieldsOnly`, `UpdateFieldsAndRun` | `PATCH /{ref}`, without and with `reprocess` |
| `ResolveDuplicate`, `ResolveException`, `ConfirmCatMatch`, `Transition` | the routes of those names; all but `Transition` recompute the status |
| `UploadOnly`, `UploadAndRun`, `RemoveDocument` | upload without and with `reprocess`, delete |
| `SelectPolicy`, `Process` | the routes of those names |
| `StartRun` | the pipeline's first flush: `processing_started_at` changes, so the case row is updated and its lock held to the end; then the documents are listed |
| `RunPipeline` | `FNOLPipeline.run`: every stage in order, or (`fails`) a stage of `StageFailures` that raises after what came before it was written |
| `CreateLock`, `CreateReturns`, `CreateRefused`, `CreateCheck`, `CreateInsert` | `FNOLClaimService.create`: lock, look for a claim, checklist, insert with link and status |
| `Commit`, `Abort` | `context.commit()`; a refusal, an error, a killed process |

Two facts about sessions decide most of the results. `Seen`: a query decides
which rows exist, but a row that the session had loaded keeps its loaded
values – `with_for_update` included, which does not refresh the object it locks.
A query with a condition on a column (the open exceptions) is evaluated by the
database. `Flush`: only columns that differ from the loaded values are written,
so two requests that change different columns both succeed, and a value that
was recomputed equal to the stale one is not written.

`Write` is a request's queries and flush, `Commit` a step of its own: between
them the request holds the rows it flushed. A request that runs the pipeline has
the case row locked from its first flush, so its later queries are one step with
its last flush, but for the list of documents: an upload leaves the case row
alone, so it may be committed after a run has listed them (`SeenByRun`). The
other thing that can be committed meanwhile is a decision or a closed code after
which the status is as it was; that one falls between two of the later queries is
left out. Share locks of foreign keys are too: they can only take interleavings
away.

Of the facts, the loss date has a field row of its own and all others share one
(`details`), where `extraction.py:204-223` protects each path: what is said of
corrections is said of the date. `Ring` is what PostgreSQL's deadlock detector
looks for: a request that has flushed child rows waits for the case row, and the
pipeline that has it waits for those child rows; `DeadlockVictim` ends one.

### Intake

A delivery finds the notice of its key or nothing (`Returned`, `FoundNone`),
makes the counter row of the year unless it is there (`Upsert`), locks it and
takes the next number (`Lock`), inserts the notice against the unique indexes
(`Insert`, or `Refuse` with the error of the index) and commits. It holds the
counter row to the end, so a failure gives the number back. `Counters` stands
for the rows of one prefix; servers may disagree on the year. After it ended a
delivery may be made again, with the same key or another.

### Documents

`rows` are the committed document rows of a notice, `bytes` what the store holds
under each key, `own` and `doomed` what a request has flushed or will delete in
its transaction. A file is its bytes under a name; a key is made of both
(`Key`), a row is found by its bytes alone (`Known`). `Count`, `Put`,
`FoundExisting`, `FoundNone` and `Insert` are the steps of `attach_document`,
taken for one file by `Upload` and for each attachment by `Email`, which makes
the notice in the same transaction. `Remove`, `Erase`, `CommitRemoval` are
`remove_document`. `Abort` undoes what was flushed and none of what was stored;
it stands for every refusal and failure. `lost` is a history variable, read by
one property only.

Not here: what is accepted as a document, reading its text (`extract_text` does
not raise), a write torn by a crash (`write_bytes` is one step in `Put`, and is not
atomic in `store.py:78`), and the pipeline run after an upload, which `NoticeRequests` has and
which touches neither rows nor bytes.

### The findings

`NoticeStore` takes what is found of a loss as given; here it is computed.
`Assessment` has the rules for severity, fraud signals, coverage and
catastrophes, `Triage` those for categories, routes, priorities and who may be
recommended. A text is the set of phrases the rules find in it: `loss_description`
stands for the description and the cause of loss, and the phrases a stated
`loss_type` adds are left out. Amounts and days are whole numbers in a unit of the
instance's choosing; whether two places are near one another is given.

`Findings` follows one notice with one request at a time. `facts` is what is
stated of the loss, `corrected` the paths whose field row an officer modified,
`case` the columns the findings are kept in, with the state of the last run,
`analysis` the rows of the last assessment and the policy whose terms it looked
at, which no row names, `claim` what it became. The text searched for litigation
and injuries is that of `text_signals`; its `cause_of_loss` is part of the
description here.

| action | code |
|---|---|
| `Process`, `UpdateFieldsAndRun` | `POST /process`, `PATCH` with `reprocess`: a reading (the empty one is a stored reading reused), classification, policy, catastrophe, assessments, or a run that raises before one of the `Failures` |
| `UpdateFieldsOnly` | `PATCH` without: the facts change and no finding does |
| `SelectPolicy`, `OverrideSeverity`, `OverrideClassification`, `ConfirmCatMatch`, `RemoveCatMatch` | the routes of those names |
| `CreateClaim` | `FNOLClaimService.create` with `TriageService.run`: the stored findings and the current facts, side by side |

Which line a text is given, which policy is the strongest candidate and which
event is best when several reach the threshold are any choice; the scores of
policies are in `Likeness`.

### Assignment

`desk` holds the committed rows of each claim (claim, triage, assignment: the
columns these requests write), `open_claims` the stored counter of each handler,
`holder` the lock of each handler's row. `Create` is the triage and the
recommendation of a new claim, by the counters as they are; `LoadClaim` and
`LoadRows` are the two queries of `get_by_reference`, `Assign` and `Increment`
the route that accepts or names a handler, `Override` the triage route. `Merged`
is the flush: only columns that differ from the loaded ones are written. The
session does not flush before the counter's UPDATE (`autoflush=False`), so the
claim's rows are written at `Commit`.

### Matching

`NoticeStore` takes the scores of policies and of duplicates as a judgement;
`Likeness` computes them and `Matching` follows one notice through them, one
request at a time. A policy number is its digits and the way it is written
(`normalise_reference` keeps the digits, `ILIKE` sees the writing), a name a
sequence of words, an address or a description the set of its words, a time a
number of hours. A signal is a number of sixtieths or `Uncompared`; scores are
kept as the weight that agreed over the weight that could be compared, so the
division is exact, and rounded where the code rounds (`RoundedReaches`) and not
where it does not (`Reaches`, in `_strength`). The ratio of `difflib` is a
constant, `Ratio`, any number from nothing to full agreement.

`desk` is the notice's row and children: its facts, the columns an officer
corrected, the policy bound and whether it is confirmed, the candidate rows, the
duplicate rows, the hold. `around` are the other reports that are recent and not
called off, `fresh` says that nothing changed since the last run.

| action | code |
|---|---|
| `Process` | `Read`, `Match`, `Detect`, `Raise`: extraction and classification, `PolicyMatchingService.run`, `DuplicateDetectionService.run`, the duplicate code of `ExceptionService` |
| `UpdateFields` | `PATCH`, without and with `reprocess` |
| `SelectPolicy` | `PolicyMatchingService.select` and the run after it |
| `ResolveDuplicate`, `ResolveException` | the routes of those names |
| `ComeOrGo` | another notice is logged or called off, a claim is made, a report leaves the look-back window |

`FindCandidates` and `Scanned` are the queries that narrow what is scored: what
they leave out is never a candidate, however well it would score. Both stop at a
limit. The book's is 200 policies (`MaxCandidates`) in the order of their numbers
(`Before`), so what else a notice says may cut the policy it quotes; that of the
notices, and that of the claims, is 50 (`MaxScanned`), the newest first (`Newer`).
A name is looked for by its first word and found in any word that holds it
(`Inside`). Left out:
a search of the book and a refused selection, which change nothing; the country,
which narrows the book only where nothing else is known, among policies that no
signal then identifies.

### The knowledge graph

One request, `GET /claims/{reference}/knowledge-graph`. `desk` are the committed
records of a claim and its notice, `input` what the request has read so far. The
queries are made one after another (`Read`), and between any two a handler may
commit (`Commit`), so `input` may be of several moments; rows the session already
holds keep their values (`Listed`), only the order of a list is the database's
(`Ranked`). Then each section of `build_claim_graph` is one action: `ClaimNode`,
`PolicyAndInsured`, `IncidentAndLocation`, `Assets`, `Coverage`, `Evidence`,
`People`, `Catastrophe`, `Risk`, `RelatedClaims`, `SeededEntities`, `Summarise`.
`Add` and `Link` are the builder: the first entity with an id stays, a
relationship without both its ends is dropped. An entity is its id, its
provenance and its flag; a fact of a record is stated or not. Labels, panel rows,
sources and excerpts are left out.

## 3. The runs

All run in under five minutes with two workers. `officers`, `findings` and
`together`, the longest, take one to two; the others less.

| run | instance | what it shows |
|---|---|---|
| `officers` | 1 request at a time, 2 policies, 1 candidate, 1 document, any stage may raise, any move of the table | types; a confirmed policy stays the one selected; corrected dates stand; decisions on duplicates are kept; what opens or clears a code leaves the notice in the queue its codes imply |
| `together` | 2 requests, fair, 1 document, a stage that may raise after the child rows are written | one claim, no open code, link in the same step (`ClaimPromise`); the lock discipline; what takes a notice out of conversion; no request waits for ever |
| `intake` | 3 deliveries, 2 years, 1 key, 2 keyless, fair | no gap, no repeat, a key logged once (`ReferenceBook`); no delivery waits for ever |
| `documents` | 2 requests, 5 files, limit 2, every route | what is stored is what the row was made of; only a removal loses bytes; the limit is passed by at most the requests in flight but one; an e-mail becomes a notice with all it carried |
| `findings` | 1 request at a time, 2 policies, 1 event, 2 readings, 2 corrections, runs that fail at 3 stages | a signal never lowers a severity; no suspicion on one indicator; *likely covered* is of the policy bound now unless the last run failed; only a confirmed catastrophe reaches the claim; overrides outlast runs; a death makes the claim urgent; the fast track takes nothing another desk is for |
| `assignment` | 2 requests, 2 claims, 2 handlers, 1 override | no assignment is lost from a counter; the original route is the engine's; the claim names a handler exactly when its assignment row is assigned |
| `matching` | 1 request at a time, 3 policies, 3 other reports, 2 readings, 1 correction, queries that stop at 2 policies and 1 report | a quoted number lists its policy unless the query stopped before it; only a clear match is bound without an officer; a confirmation never lowers a score; a repeat is asked about, with the same proviso, and one shared column is not; the hold is there while a candidate is undecided, and goes with the last |
| `graph` | 1 request, 2 policies, every section with and without records, 1 commit while it reads | no relationship dangles; all is one or two steps from the claim; scaffolding shadows no record; a duplicate is shown as one; the tiles count what was read |

**Bounds.** One request at a time is not one request in all: requests start
again after they end, so every sequence of them is explored, and so is every
pair of interleaved ones. All races found need two. Two policies are needed to
select another than the matched one, two years for a row that is made and a row
that is there at the same time. `officers` leaves three routes to `together`:
closing an exception, removing a document and creating a claim, which multiply
its states by more than the run's time has; the theorems have all routes.
`MaxKeyless` bounds the notices logged without a key. Five files are four
contents, one of them under two names, so that two requests can pass a limit of
two by more than they may; four `Ids` are one more than the rows that can be
there at once, for the row of a removal whose row is gone. In `findings` the
corrections are two that disturb a finding without a run (a date taken back, a
flag), one reading finds nothing and the other what sends a claim to most desks,
and a single correction counts as repeated ones. `together` has a pipeline that
reads nothing or raises, and only after the duplicates are scanned
(`StageFailures = {"scanned"}`), when it has written the child rows another
request may hold: a stage that raised before would end the wait the run is
about. The loss date comes from officers, so that codes open and close. In
`assignment` `MaxOpen` stops the counters, which nothing lowers, at two: enough
for two requests to raise one counter at once, and for a handler to reach its
capacity. Requests are interchangeable there and the run has no liveness
property, so symmetry is sound. In `matching` two of the policies have the same
digits written differently and the third has those digits and one more, so that
a number equals, holds and contradicts; a notice says everything wrong but the
number, or nothing but the loss. The reports are one in other words, a newer one
that shares its day, and a claim with a single column, so that an undecided
candidate can be left. `MaxCandidates` is two and `MaxScanned` one, so that both
queries stop short: with either limit left out of its property TLC finds a
policy or a repeat that was cut. `MaxEdits` (one correction) and `MaxChanges`
(two comings and goings) stop what has no end of its own. In `graph`
`MaxCommits` is one: a commit may fall between any two queries, and a second
adds only mixtures of three readings where no section relates more than two
records. The rest of the state is finite by itself.

**Fairness.** Strong fairness of each request's own steps: the event loop
resumes a handler, and PostgreSQL hands a released row to the waiter that came
first, so none is passed over for ever. A stage that raises is not fair and
neither is a rollback: nothing makes them happen. Weak fairness of
`DeadlockVictim`: the database's detector acts when the ring is there and stays.
In `together` it does form, a request that closed an exception and wants the
case row against a run that has it and wants that exception row: without the
detector's fairness TLC finds `EveryRequestEnds` violated by the two waiting for
each other.

**Where the code does otherwise.** Each of the other runs checks one statement
of the repository that the code does not keep, and TLC finds the steps. Three
need a second request in flight: what they violate holds as long as requests come
one at a time, and `HumanDateCorrect` and `QueueCorrect` say that it holds as long
as none writes over rows that changed since it loaded them.

| run | what happens |
|---|---|
| `claim_from_stale_copy` | `create_claim` locks the row and reads the object it loaded before: a correction committed in between is not on the claim |
| `correction_lost` | a pipeline run that loaded the field row before an officer's correction puts the machine's date back |
| `queue_lags` | two requests each clear one code and compute the status without seeing the other: the notice stays held with nothing open |
| `over_limit` | a limit check that failed does not stop *likely covered*: the verdict looks for checks that need attention only (one request after another) |

The quotations and lines are in `PROJECT.json` (`findings`). The modelled code
does more that the repository says otherwise of, or that a reader would not
expect. Each is visible in the definition named; none is run:

* the future-date code looks at the stored reading as well, so the correction it
  asks for does not clear it (`RaiseExceptions`, `exceptions.py:173`);
* `remove_document` deletes the bytes before the transaction commits: when it
  fails the row stays without them (`Erase`, `service.py:583`);
* a pipeline run that loaded the notice before it was converted writes its own
  status over `claim_created` (the second case of `ConversionStands`), and
  an upload or a removal that loaded it before changes its documents after
  (`Commit`, `CommitRemoval`), against `routes/fnol.py:954`;
* a document that is there already is refused when the notice is full, because
  the limit is looked at first (`Count`, `services/fnol/service.py:531`);
* the second of two simultaneous deliveries is answered with the error of the
  unique index instead of the notice (`Refuse`, `ingestion.py:154`), against
  `routes/fnol.py:91`;
* a notice logged without processing is marked queued and nothing takes queued
  notices up (`services/fnol/service.py:597`);
* the same bytes uploaded twice at once are refused by the unique index the
  second time (`Insert`, same comment);
* `POST /process` does not refuse a converted notice (`Process`), so a forced
  reading changes it and a failing stage takes it out of `claim_created`
  (`PipelineFailure`), against `routes/fnol.py:954`;
* the same failure moves a referred notice (`lifecycle.py:12`);
* a notice that misses both a policy and a loss date is *incomplete* and not, as
  the comment on the table says, *policy match required*: the missing information
  stands first in the table (`ImpliedStatus`, `lifecycle.py:142-155`), and the
  comment inside the table says why;
* the external reference is named a third guard against logging a notice twice
  (`ingestion.py:8-12`, `models/fnol.py:75-81`), but `find_existing` looks at the
  two keys only and the column is not unique: a delivery with the same outside
  reference and no key is another notice (`Keyless` in `Intake`), which the scan
  for duplicates may ask about later;
* a policy whose number a notice quotes is not found when 200 policies with lower
  numbers share a broker, a name or an address with it (`FindCandidates`,
  `repositories/policy.py:24` and `:99`), and then cannot be selected; a rival that
  was cut does not stop a binding either;
* a repeat is not asked about when 50 newer notices share a day or a name
  (`Scanned`, `repositories/fnol.py:250`, `repositories/claim.py:208`), and a
  candidate listed before is pruned then, unless it was decided; the docstring
  gives the narrowing as one of speed, which leaves out no duplicate
  (`repositories/fnol.py:217-220`);
* a run that listed the candidates before an officer's decision was committed
  deletes the decided row (`Pruned` with two requests,
  `repositories/fnol.py:528`);
* an upload committed after a run listed the documents is not in the reading the
  run stores, nor in the status it sets; the next run compares the fingerprints
  and reads again (`SeenByRun`, `pipeline.py:156-168`);
* the coverage verdict of one policy stays when another is selected or bound by a
  run that fails before the assessments; the failed state is the only sign
  (`RaisesBefore`, `LikelyCoveredIsSettled`);
* one indicator makes a suspect when `fraud_medium_threshold` or
  `fraud_high_threshold` is set to 0.30 or less (`Suspect`,
  `SuspicionAssumption`), and nothing checks the setting (`core/config.py:261`);
* a rejected notice is converted (`CreateInsert`, `enums.py:39`);
* `refresh_status` takes steps that are not in the table of moves, and replaces
  `needs_review` (`Settle`, `lifecycle.py:5` and `:11`);
* a hold that was dealt with is not raised again for a new candidate
  (`RaiseExceptions`, `repositories/fnol.py:567`);
* the four flags of a loss have no field row, so a reading writes over what an
  officer set (`Applied`, `extraction.py:377`);
* an attribution an officer removed is suggested again by the next run, and one
  suggested for a date that was since cleared stays (`Attributed`,
  `matching.py:259`);
* the severity counts a suggested catastrophe, triage only a confirmed one
  (`EventOf`, `Copy`);
* several weak fraud indicators do out-score one strong one (`FraudLevel`,
  against the comment at `assessment.py:565`);
* the words of litigation and injury are looked for as substrings, so that "writ"
  is found in "written" (`assessment.py:858`), which `_mentions` is there to avoid;
* the claim is triaged by the severity last stored, which an edit without a run
  or a run that failed leaves behind the facts (`Copy`, `CreateClaim`);
* every assignment adds one to a counter and nothing takes one off
  (`Increment`, `triage.py:197`), so that recommendations see handlers fill up;
* when one manager accepts a recommendation while another names somebody else,
  the assignment row may keep the one and the claim the other (`Merged`);
  `over_authority` and the priority of claim and triage row can part likewise;
* `over_authority` keeps what the former handler's limit said when the new one
  has none (`Assigned`);
* a search of the book records no candidate, so selecting a policy it found is
  refused, against "Search for it first so the match is recorded."
  (`SelectPolicy`, `routes/fnol.py:420` and `:450`);
* `select` writes the policy's number on the case and no field row, so a later
  reading writes its own number over it (`Select`, `Read`;
  `services/fnol/matching.py:129`, `extraction.py:222`);
* a policy stays bound after the number it was bound by is corrected, and one may
  be bound though no date is known (`Match`, against "in force" at
  `services/fnol/matching.py:96`);
* the row of a chosen policy that is no candidate any more keeps its old rank, so
  two rows can have one rank (`Row`);
* the scan compares raw writings of a number where the score compares normalised
  ones, so a repeat with its number written differently is found by its day or
  name or not at all (`RawWithin`, `InScanPool`); a claim's own reference is
  compared with the notice's outside one; and the location its docstring
  names is no clause (`repositories/fnol.py:219`);
* notices and claims that share only their day and state nothing else score in full
  (`PairScore`): what cannot be compared does not count;
* a converted notice that is processed again finds its own claim
  (`repositories/claim.py:175`);
* no reading gives a party the role `adjuster` (`normalisation.py:251` makes it
  `other`), so the adjuster of a graph is the seeded one (`AdjusterNodes`);
* the graph is one call so that a check is not shown beside another policy
  (`routes/claims.py:270`), but its queries are several, and a run that commits
  between them gives just that (`Read`, `Commit`);
* the graph compares a duplicate's resolution with "open", which is none of
  its values, so a likely duplicate is never an issue (`DuplicateNodes`,
  `knowledge_graph.py:1592`);
* it schedules every location under the policy, the one the policy does not have
  as its own too (`IncidentEdges`), draws a claim named by two sections
  twice (`links`), and says that every check passed where one is unknown
  (`CoverageIssues`, `knowledge_graph.py:1840`).

## 4. What is proved

`NoticeProofs`, for any sets of requests, policies, candidates, documents,
details and dates that satisfy the assumptions of the modules:

* `TypeCorrect`, `LockCorrect`, `SecondClaimNever`, and `PromiseKept`: the
  specification implements `ClaimPromise`;
* `ConversionCorrect`: only a failed run, or a request that loaded the notice
  before it was converted, takes it out of conversion;
* as long as a request whose rows changed since it loaded them writes nothing
  (`StaleWritesNothing`): `SelectionCorrect`, `QueueCorrect`, `HumanDateCorrect`,
  `DecisionsCorrect`. `OneAtATimeIsFresh`: requests that come one at a time meet
  that condition.

The inductive invariant is `Inv == TypeOK /\ LockDiscipline`. The promise needs
that no code is open when a claim is inserted, though the checklist was read in
an earlier step. It holds because a code can only be opened by a pipeline run,
which has the case row; the claim has it from `CreateLock` to `CreateInsert`;
and a request that commits without the case row has at most closed codes
(`locker = r \/ OpenCodes(work[r].exc) \subseteq OpenCodes(base[r].exc)`). The
type invariant is not inductive without it: that a claim exists exactly when the
case row is linked is what makes the flushed link of any request harmless.

The second group cannot be had of `Spec` alone: `correction_lost` and
`queue_lags` violate two of its properties with two requests, because the code
compares no version of the rows before it writes. `StaleWritesNothing` is what
such a comparison would give. It says nothing of how many requests are under way,
of which is refused, or of what a request reads. No such theorem is stated of
`ClaimIsCopy`, where the condition would be all but the conclusion. The theorems
are the properties of `officers` for any number of sequential requests, every
route and any policies, candidates, answers and details, and they show that stale
writes are the only thing that breaks them. Their invariant `Kept` says that the
committed rows are lawful (a confirmed policy is the one selected candidate, a
date whose field row is an officer's is one officers set) and that what a request
wrote is an `Outcome` of the rows it loaded: it keeps decisions, dates and
selections, and leaves the status where its codes or an officer's move put it. One
lemma per stage and per edit says that it makes an outcome (`ExtractKeeps`,
`MatchPoliciesKeeps`, `SelectedKeeps`, ...), whichever stage raises.

`IntakeProofs`, for any deliveries, keys and counters:

* `TypeCorrect`, `BookCorrect` (implements `ReferenceBook`), `GaplessAlways`,
  `UniqueAlways`, `FreshAlways`.

The invariant `Inv` adds to the types that a delivery with a number holds its
counter row with the value before that number (`NumbersHeld`) and that a key
being inserted is on no notice and no other insertion (`KeysClaimed`). Gapless
and unique numbering are invariants of the book, carried over each `Commit`.

`DocumentsProofs` and `DocumentsLimitProofs`, for any files, requests and limit:

* `TypeCorrect`, `BytesCorrect`, `LostCorrect`, `LimitCorrect`, `EmailCorrect`.

`Inv` says that a file a request has stored is in the store until a removal of
that very file takes it (`AllAccounted`), which needs that a key belongs to one
file (`KeyInjective`). The limit is not inductive by itself: `Counted` adds to
the rows one place for each request that has counted and not ended, and a
request that counts saw fewer rows than the limit whatever the others do. `Whole`
keeps the attachments of an e-mail: each is to come, in hand, or on a row.

`FindingsProofs`, for any thresholds, words, policies, events, readings and
failures:

* `TypeCorrect`, `RaisedAlways`, `SuspicionCorrect`, `CoverageCorrect`,
  `AttributionCorrect`, `OverridesCorrect`, `DeathsCorrect`, `FastTrackCorrect`.

`RaisedAlways` and the two theorems of triage are facts about the rules;
`SuspicionCorrect` rests on the weights, each below any threshold of a suspicion
that `SuspicionAssumption` admits.
The others are invariants of the stored rows: `Inv` is the type invariant with
the three state properties, and the step properties follow from it, one lemma per
action. A run that stops in the middle is the interesting case: it stores facts
and no findings, or binds a policy and leaves the verdict of another. It marks the
notice failed, which is what `CoverageCorrect` rests on.

`AssignmentProofs`, for any claims, handlers, requests and overrides:

* `TypeCorrect`, `WorkloadCorrect`, `OriginalCorrect`, `OwnedCorrect`.

None of the three properties is inductive. What is committed may be later than
what a request loaded, and `Later` says how: nothing assigned, named or
overridden is taken back, and a row that is not assigned has its recommended
handler still. With it `AssignMerges` and `OverrideMerges` say what a row written
column by column over a later one is. The counter's half is that a request which
raised a counter holds its row, so that its sum is still one more than the
committed value when it commits.

`MatchingProofs`, for any book, notices, readings, reports and corrections, any
names and any `Ratio`:

* `DeskTyped`, `QuotedIsListed`, `BindingIsClear`, `ConfirmationRaises`,
  `RepeatsAreAsked`, `OneThingIsNotEnough`, `UndecidedIsHeld`.

Half of it is arithmetic of the weights: an equal number keeps a policy at the
candidate threshold with every other signal against it unless the holder is
(`NumberScores`), so that it is left out only by a limit; the three signals of a
repeat reach the duplicate threshold against all that may still differ
(`RepeatScores`), and one agreeing signal does not when the policy contradicts
(`LoneScores`). The thresholds are the defaults of `core/config.py`. The other
half is `Inv`: the types; a chosen row is there only when a policy is confirmed,
so that `replace_policy_matches` leaves nothing unscored on a notice nobody
confirmed; the hold stands while a candidate is undecided; and while `fresh`,
the candidates are those of the facts as they are (`Listed`, `Asked`). Without
the last the properties about scores would speak of facts the rows were not made
from. `ConfirmationRaises` needs that the holders of the book have a word
besides their company form: taking over a name that has none would add a signal
of nothing.

`KnowledgeGraphProofs`, for any records, any commits in between and any policies:

* `GraphWellFormed`, `GraphReachesClaim`, `ScaffoldingStaysApart`,
  `DuplicatesStayShown`, `TilesAgree`.

`IInv` goes by section: until the related claims there is nothing seeded and
no related entity, and after each section ids are unique, relationships have their
ends and all entities are reached. `Fine` says that of what one section adds, one
lemma per section, for whatever it is given to read; that is why commits
between the queries disturb nothing.

`TilesAgree` counts, and needs a second invariant, `Tallied`: all is finite
(`RecordsAssumption`); each kind of entity that a tile counts comes from one
section, which has drawn one for each record by the time it is done and none
before (`Shown`); the names of relationships tell the sections apart, so that a
section never draws what is there already, and `links` is the number of
relationships, but for the claims that are both a duplicate and in the policy's
history, which are counted twice (`NamedTwice`); and what is seeded is one of
four entities.

Assumptions: `LikenessAssumption`, `MatchingAssumption` (finitely many words and
policies, policies ordered by number, rows and facts of the types of their
columns, no value is the empty one), `DetailsAssumption` (the matcher answers
*none* exactly when it has no candidate), `NoPolicyAssumption`,
`RequestsAssumption`, `IntakeAssumption`, `DocumentsAssumption` (a file is
nothing but its bytes and its name; 64 bits of a checksum tell bytes apart),
`ThresholdsAssumption`, `SuspicionAssumption` (no threshold of suspicion is as
low as the weight of one indicator; the defaults are 0.35 and 0.65),
`TriageAssumption` and `FindingsAssumption` (thresholds are whole numbers, the
major-loss one is not zero, readings and corrections have the types of their
columns), `AssignmentAssumption` and `NoRowAssumption` (finitely many claims,
amounts not negative, the empty values are no values), `RecordsAssumption` (a
claim has finitely many documents, exceptions, duplicates, checks and
indicators; numbers of assets are not negative). TLC evaluates them on the
instances it runs.

Proved and in no run: the type invariants of the later modules,
`SecondClaimNever`, which `PromiseKept` rests on, `FreshAlways`, which
`BookCorrect` does, and `OneAtATimeIsFresh`, which ties the condition of the second
group to `officers`.

Only model-checked: `EveryRequestEnds` and `EveryDeliveryEnds`, the two liveness
properties. Fairness and ENABLED are out of the prover's reach. Every
other property of a passing run is stated by a theorem.

## 5. What is left out, and what comes next

Not modelled, with the reason:

* notes, parties and their merging, advisory exceptions, the audit trail and the
  other read-only routes: no modelled rule reads them;
* the score that orders eligible handlers, the completeness score and the strength
  of an event when several reach the threshold: each is any choice, and no
  property depends on it;
* the heuristic reader, normalisation, sanitising and the classifier's words:
  regular expressions over text, whose result is any reading here;
* the model provider, outbound HTTP, the key cache, worker tasks, cache and pools:
  clients of services whose behaviour is not in the repository; the worker's
  tasks are a heartbeat and a ping;
* configuration, migrations, seed data, schemas, PDF and summary: data, layout and
  wording. The unique constraints of the migrations are in the models.

What would come next, the most important first:

1. `Fields`: facts by several officers and readings, each protected by its
   provenance, with `Select`, which protects nothing, among them.
2. The catastrophe scorer and the handler scorer as functions, as `Likeness` has the
   others, and `Details` of `NoticeStore` tied to `RankCandidates`.
3. `Outbound`, `KeyCache`: a POST repeated after a transport error
   (`integrations/http.py:85`), keys forgotten for an unknown one
   (`core/security.py:60`).
4. Proofs: which columns two overlapping requests may change without breaking
   `ClaimIsCopy` and `HumanDateStands`, in place of `StaleWritesNothing`; that an
   exclusive row lock and a fair one give what the liveness properties rest on
   (no ring of waiting requests without the detector, as an invariant).
