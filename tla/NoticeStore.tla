---------------------------- MODULE NoticeStore ----------------------------
(***************************************************************************)
(* What the database keeps about one notice, how a request's session reads *)
(* and writes it, and what the stages of the intake pipeline do to it.     *)
(*                                                                         *)
(* A store is the committed rows of one notice: the case row, and one row  *)
(* per fact, policy candidate, duplicate candidate, exception code and     *)
(* extraction.  The words of a notification are abstracted to what the     *)
(* rules conclude from them: a member of Details says which judgements the *)
(* policy matcher and the completeness rules reach on it.                  *)
(***************************************************************************)
EXTENDS Lifecycle, Sequences, Naturals

CONSTANTS
  Policies,     \* policies in the book
  NoPolicy,     \* the policy_id of a notice bound to none
  Candidates,   \* other notices and claims this one may repeat
  Docs,         \* documents with readable text
  Details       \* what can be known of the policy, the parties and the loss

Strengths == {"none", "possible", "high", "exact"}

(* missing: a critical field other than the date is empty;  claimable: the *)
(* description and a name are there;  strength, ranked: what the matcher   *)
(* answers, best candidate first.  It answers none exactly when nothing    *)
(* scores above the candidate threshold.                                   *)
DetailsAssumption ==
  /\ Details # {}
  /\ \A d \in Details :
       /\ d \in [missing: BOOLEAN, claimable: BOOLEAN, strength: Strengths,
                 ranked: Seq(Policies)]
       /\ d.strength = "none" <=> d.ranked = <<>>

ASSUME DetailsAssumption
ASSUME NoPolicyAssumption == NoPolicy \notin Policies

(* "late" is a date after the notice was received but not in the future;   *)
(* a future date is read by the extraction and never stored.               *)
StoredDates == {"none", "past", "late"}
ReadDates   == StoredDates \cup {"future"}
FactNames   == {"date", "details"}

Resolutions == {"new_claim", "linked", "duplicate"}

CaseRow ==
  [status: FNOLStatus, date: StoredDates, details: Details,
   policy: Policies \cup {NoPolicy}, confirmed: BOOLEAN, claim: BOOLEAN]

Store ==
  [case:     CaseRow,
   fields:   [FactNames -> {"absent", "machine", "human"}],
   matches:  [Policies -> {"absent", "listed", "selected"}],
   dups:     [Candidates -> {"absent", "unresolved"} \cup Resolutions],
   exc:      [BlockingExceptions -> {"absent", "open", "closed"}],
   analysis: [texts: SUBSET Docs, date: ReadDates \cup {"unread"}],
   docs:     SUBSET Docs]

Unread == [texts |-> {}, date |-> "unread"]

(* A notice as ingestion leaves it: nothing assessed, and a fact the       *)
(* channel supplied has a field row that no officer has touched.           *)
NewNotice(date, details, docs) ==
  [case     |-> [status |-> "received", date |-> date, details |-> details,
                 policy |-> NoPolicy, confirmed |-> FALSE, claim |-> FALSE],
   fields   |-> [f \in FactNames |->
                   IF f = "date" /\ date # "none" THEN "machine" ELSE "absent"],
   matches  |-> [p \in Policies |-> "absent"],
   dups     |-> [c \in Candidates |-> "absent"],
   exc      |-> [c \in BlockingExceptions |-> "absent"],
   analysis |-> Unread,
   docs     |-> docs]

Blank == NewNotice("none", CHOOSE d \in Details : TRUE, {})

OpenCodes(exc) == {c \in BlockingExceptions : exc[c] = "open"}

-----------------------------------------------------------------------------
(***************************************************************************)
(* Sessions.  A session loads the case with every child row at the start of*)
(* a request and keeps the objects it loaded: a later query decides which  *)
(* rows exist, but a row loaded before keeps the values it was loaded with.*)
(* A flush writes the columns and rows that differ from what was loaded.   *)
(***************************************************************************)
SeenRows(loaded, now) ==
  [x \in DOMAIN now |->
     IF now[x] = "absent" \/ loaded[x] = "absent" THEN now[x] ELSE loaded[x]]

Seen(loaded, now) ==
  [case     |-> loaded.case,
   fields   |-> SeenRows(loaded.fields, now.fields),
   matches  |-> SeenRows(loaded.matches, now.matches),
   dups     |-> SeenRows(loaded.dups, now.dups),
   exc      |-> SeenRows(loaded.exc, now.exc),
   analysis |-> IF loaded.analysis = Unread THEN now.analysis ELSE loaded.analysis,
   docs     |-> now.docs]

Changed(now, seen, new) == IF new = seen THEN now ELSE new

FlushRows(now, seen, new) == [x \in DOMAIN now |-> Changed(now[x], seen[x], new[x])]

FlushCase(now, seen, new) ==
  [status    |-> Changed(now.status, seen.status, new.status),
   date      |-> Changed(now.date, seen.date, new.date),
   details   |-> Changed(now.details, seen.details, new.details),
   policy    |-> Changed(now.policy, seen.policy, new.policy),
   confirmed |-> Changed(now.confirmed, seen.confirmed, new.confirmed),
   claim     |-> Changed(now.claim, seen.claim, new.claim)]

Flush(now, seen, new) ==
  [case     |-> FlushCase(now.case, seen.case, new.case),
   fields   |-> FlushRows(now.fields, seen.fields, new.fields),
   matches  |-> FlushRows(now.matches, seen.matches, new.matches),
   dups     |-> FlushRows(now.dups, seen.dups, new.dups),
   exc      |-> FlushRows(now.exc, seen.exc, new.exc),
   analysis |-> Changed(now.analysis, seen.analysis, new.analysis),
   docs     |-> (now.docs \cup (new.docs \ seen.docs)) \ (seen.docs \ new.docs)]

(* The child rows a flush updates or deletes: it holds their locks until   *)
(* the transaction ends.                                                   *)
Written(seen, new) ==
  {<<"match", p>> : p \in {q \in Policies : new.matches[q] # seen.matches[q]}} \cup
  {<<"duplicate", c>> : c \in {d \in Candidates : new.dups[d] # seen.dups[d]}} \cup
  {<<"exception", c>> : c \in {d \in BlockingExceptions : new.exc[d] # seen.exc[d]}} \cup
  {<<"field", f>> : f \in {g \in FactNames : new.fields[g] # seen.fields[g]}} \cup
  {<<"document", d>> : d \in (new.docs \ seen.docs) \cup (seen.docs \ new.docs)}

SettleUnflushed(now, seen, w) ==                               \* mutant
  [w EXCEPT !.case.status = DeriveStatus(@, OpenCodes(now.exc))]

(* The status the findings imply, read from the exceptions as the database *)
(* holds them after the session's own flush.                               *)
Settle(now, seen, w) ==
  [w EXCEPT !.case.status =
     DeriveStatus(@, OpenCodes(FlushRows(now.exc, seen.exc, w.exc)))]

-----------------------------------------------------------------------------
(***************************************************************************)
(* The stages of the pipeline, each from one working image of the notice to*)
(* the next.                                                               *)
(***************************************************************************)
StartProcessing(w) ==
  [w EXCEPT !.case.status = IF @ = "received" THEN "processing" ELSE @]

(* The stored reading stands while the text it was read from is the same.  *)
Reusable(w) == w.analysis # Unread /\ w.analysis.texts = w.docs

RefusedBlank(date) == date = "none"                            \* mutant

(* A reading the parser refuses leaves the fact as it is, and so does the  *)
(* row of a fact an officer has set.                                       *)
Refused(date) == date \in {"none", "future"}

ProtectedNever(w, f) == FALSE                                  \* mutant

Protected(w, f) == w.fields[f] = "human"

Extract(w, reading, force) ==
  IF Reusable(w) /\ ~force
    THEN w
    ELSE [w EXCEPT
            !.case.date = IF Protected(w, "date") \/ Refused(reading.date)
                            THEN @ ELSE reading.date,
            !.case.details = IF Protected(w, "details")
                               THEN @ ELSE reading.details,
            !.fields = [f \in FactNames |->
                          IF Protected(w, f) THEN "human" ELSE "machine"],
            !.analysis = [texts |-> w.docs, date |-> reading.date]]

Listed(d) == {d.ranked[i] : i \in DOMAIN d.ranked}

BindsAlways(w) == w.case.details.strength = "exact"            \* mutant

Binds(w) == w.case.details.strength = "exact" /\ ~w.case.confirmed

(* Candidates are replaced except the one an officer selected; an exact    *)
(* match binds the policy unless one is confirmed.                         *)
MatchPolicies(w) ==
  LET d == w.case.details IN
  [w EXCEPT
     !.matches = [p \in Policies |->
                    IF w.matches[p] = "selected" THEN "selected"
                    ELSE IF p \in Listed(d) THEN "listed" ELSE "absent"],
     !.case.policy = IF Binds(w) THEN d.ranked[1] ELSE @]

PrunedWhatever(w, found, c) == c \notin found                  \* mutant

Pruned(w, found, c) == c \notin found /\ w.dups[c] = "unresolved"

(* A candidate that scores keeps its decision; one that no longer scores is*)
(* dropped unless it is decided.                                           *)
ScanDuplicates(w, found) ==
  [w EXCEPT !.dups =
     [c \in Candidates |->
        IF c \in found /\ w.dups[c] = "absent" THEN "unresolved"
        ELSE IF Pruned(w, found, c) THEN "absent"
        ELSE w.dups[c]]]

(* When each blocking code is raised.                                      *)
Cause(w, c) ==
  LET d == w.case.details
      several == d.strength = "possible" /\ Len(d.ranked) > 1
  IN
  \/ /\ c = "no_policy_match"
     /\ ~w.case.confirmed
     /\ d.strength = "none"
  \/ /\ c = "multiple_policy_matches"
     /\ ~w.case.confirmed
     /\ several
  \/ /\ c = "unconfirmed_policy_match"
     /\ ~w.case.confirmed
     /\ d.strength \in {"high", "possible"}
     /\ ~several
  \/ /\ c = "future_loss_date"
     /\ w.analysis.date = "future" \/ w.case.date = "late"
  \/ /\ c = "missing_critical_information"
     /\ w.case.date = "none" \/ d.missing
  \/ /\ c = "possible_duplicate"
     /\ \E x \in Candidates : w.dups[x] = "unresolved"

(* A raised code opens a row unless there is one; a code whose cause is    *)
(* gone loses its row only while it is open.                               *)
RaiseExceptions(w) ==
  [w EXCEPT !.exc =
     [c \in BlockingExceptions |->
        IF Cause(w, c) /\ w.exc[c] = "absent" THEN "open"
        ELSE IF ~Cause(w, c) /\ w.exc[c] = "open" THEN "absent"
        ELSE w.exc[c]]]

(* The pipeline up to a stage: what is on the session when the stage after *)
(* it raises, as the set of that one image.                                *)
UpTo(stage, w, reading, found, force) ==
  LET read    == {Extract(w, reading, force)}
      matched == {MatchPolicies(image) : image \in read}
      scanned == {ScanDuplicates(image, found) : image \in matched}
      raised  == {RaiseExceptions(image) : image \in scanned}
  IN CASE stage = "started"  -> {w}
       [] stage = "read"     -> read
       [] stage = "matched"  -> matched
       [] stage = "scanned"  -> scanned
       [] OTHER              -> raised

Stages == {"started", "read", "matched", "scanned"}

PipelineRun(now, seen, w, reading, found, force) ==
  {Settle(now, seen, image) :
     image \in UpTo("raised", StartProcessing(w), reading, found, force)}

(* An exception out of a stage is caught: what the stages before it put on *)
(* the session stays, and the notice is marked failed.                     *)
PipelineFailure(stage, w, reading, found, force) ==
  {[image EXCEPT !.case.status = "ai_processing_failed"] :
     image \in UpTo(stage, StartProcessing(w), reading, found, force)}
=============================================================================
