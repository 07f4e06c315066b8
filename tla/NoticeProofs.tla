---------------------------- MODULE NoticeProofs ----------------------------
(***************************************************************************)
(* Theorems about the requests on a notice, for every set of requests,     *)
(* policies, candidates, documents and details.                            *)
(***************************************************************************)
EXTENDS NoticeProperties, TLAPS

USE DetailsAssumption, NoPolicyAssumption, RequestsAssumption

LEMMA DeriveStatusType ==
  ASSUME NEW current \in FNOLStatus, NEW open
  PROVE  DeriveStatus(current, open) \in FNOLStatus
BY DEF DeriveStatus, ImpliedStatus, FNOLStatus

LEMMA SeenRowsType ==
  ASSUME NEW S, NEW T, NEW loaded \in [S -> T], NEW now \in [S -> T]
  PROVE  SeenRows(loaded, now) \in [S -> T]
BY DEF SeenRows

LEMMA SeenType ==
  ASSUME NEW loaded \in Store, NEW now \in Store
  PROVE  Seen(loaded, now) \in Store
BY SeenRowsType DEF Seen, Store

LEMMA FlushRowsType ==
  ASSUME NEW S, NEW T, NEW now \in [S -> T], NEW seen \in [S -> T], NEW new \in [S -> T]
  PROVE  FlushRows(now, seen, new) \in [S -> T]
BY DEF FlushRows, Changed

LEMMA FlushCaseType ==
  ASSUME NEW now \in CaseRow, NEW seen \in CaseRow, NEW new \in CaseRow
  PROVE  FlushCase(now, seen, new) \in CaseRow
BY DEF FlushCase, Changed, CaseRow

LEMMA FlushType ==
  ASSUME NEW now \in Store, NEW seen \in Store, NEW new \in Store
  PROVE  Flush(now, seen, new) \in Store
BY FlushRowsType, FlushCaseType DEF Flush, Store, Changed

-----------------------------------------------------------------------------
(***************************************************************************)
(* Every stage of the pipeline, and every edit, maps a store to a store    *)
(* that carries the same link to a claim, and is converted if it was; only *)
(* a failure leaves conversion.                                            *)
(***************************************************************************)
LinkKept(w) ==
  {v \in Store : v.case.claim = w.case.claim /\ (Converted(w) => Converted(v))}

Left(w) ==
  {v \in Store :
     /\ v.case.claim = w.case.claim
     /\ Converted(w) => Converted(v) \/ v.case.status = "ai_processing_failed"}

LEMMA NewNoticeType ==
  ASSUME NEW date \in StoredDates, NEW details \in Details, NEW docs \in SUBSET Docs
  PROVE  NewNotice(date, details, docs) \in Store
BY DEF NewNotice, Store, CaseRow, StoredDates, ReadDates, Unread, FNOLStatus

LEMMA BlankType == Blank \in Store
BY NewNoticeType DEF Blank, StoredDates, DetailsAssumption

(* Rows may be replaced by rows.                                           *)
With(w, row, rows, read) == [w EXCEPT !.case = row, !.fields = rows, !.analysis = read]

LEMMA Replaced ==
  ASSUME NEW w \in Store, NEW row \in CaseRow,
         NEW rows \in [FactNames -> {"absent", "machine", "human"}],
         NEW read \in [texts: SUBSET Docs, date: ReadDates \cup {"unread"}]
  PROVE  With(w, row, rows, read) \in Store /\ With(w, row, rows, read).case = row
BY DEF Store, With

(* What keeps the link to the claim and the status.                        *)
LEMMA SameStatus ==
  ASSUME NEW w \in Store, NEW v \in Store,
         v.case.claim = w.case.claim, v.case.status = w.case.status
  PROVE  v \in LinkKept(w)
BY DEF LinkKept, Converted

LEMMA SettleType ==
  ASSUME NEW now \in Store, NEW seen \in Store, NEW w \in Store
  PROVE  Settle(now, seen, w) \in LinkKept(w)
<1> DEFINE open == OpenCodes(FlushRows(now.exc, seen.exc, w.exc))
           next == DeriveStatus(w.case.status, open)
<1>1. w.case \in CaseRow /\ w.case.status \in FNOLStatus
  BY DEF Store, CaseRow
<1>2. next \in FNOLStatus
  BY <1>1, DeriveStatusType
<1>3. w.case.status = "claim_created" => next = "claim_created"
  BY DEF DeriveStatus, TerminalStatuses
<1>4. Settle(now, seen, w) = [w EXCEPT !.case = [w.case EXCEPT !.status = next]]
  BY <1>1 DEF Settle, Store, CaseRow
<1> HIDE DEF open, next
<1>5. [w EXCEPT !.case = [w.case EXCEPT !.status = next]] \in LinkKept(w)
  BY <1>2, <1>3 DEF LinkKept, Store, CaseRow, Converted
<1> QED
  BY <1>4, <1>5

LEMMA StartProcessingType ==
  ASSUME NEW w \in Store
  PROVE  StartProcessing(w) \in LinkKept(w)
BY DEF LinkKept, StartProcessing, Store, CaseRow, FNOLStatus, Converted

LEMMA ExtractType ==
  ASSUME NEW w \in Store, NEW force,
         NEW reading \in [date: ReadDates, details: Details]
  PROVE  Extract(w, reading, force) \in LinkKept(w)
<1> DEFINE date == IF Protected(w, "date") \/ Refused(reading.date)
                   THEN w.case.date ELSE reading.date
<1> DEFINE details == IF Protected(w, "details") THEN w.case.details ELSE reading.details
<1> DEFINE rows == [f \in FactNames |-> IF Protected(w, f) THEN "human" ELSE "machine"]
<1> DEFINE read == [texts |-> w.docs, date |-> reading.date]
<1>1. date \in StoredDates /\ details \in Details
  BY DEF Refused, Store, CaseRow, ReadDates, StoredDates
<1>2. /\ rows \in [FactNames -> {"absent", "machine", "human"}]
      /\ read \in [texts: SUBSET Docs, date: ReadDates \cup {"unread"}]
  BY DEF Store
<1>3. CASE Reusable(w) /\ ~force
  BY <1>3 DEF Extract, LinkKept, Converted
<1>4. CASE ~(Reusable(w) /\ ~force)
  <2> DEFINE kept == [w.case EXCEPT !.date = date, !.details = details]
  <2>1. Extract(w, reading, force)
          = With(w, kept, rows, read)
    BY <1>4 DEF Extract, Store, CaseRow, With
  <2> HIDE DEF date, details
  <2>2. kept \in CaseRow /\ kept.claim = w.case.claim /\ kept.status = w.case.status
    BY <1>1 DEF Store, CaseRow
  <2> HIDE DEF kept, rows, read
  <2> DEFINE v == With(w, kept, rows, read)
  <2>3. v \in Store /\ v.case = kept
    BY <1>2, <2>2, Replaced
  <2>4. v \in Store /\ v.case.claim = w.case.claim /\ v.case.status = w.case.status
    BY <2>2, <2>3
  <2> HIDE DEF v
  <2>5. v \in LinkKept(w)
    BY <2>4, SameStatus
  <2> QED
    BY <2>1, <2>5 DEF v
<1> QED
  BY <1>3, <1>4

LEMMA MatchPoliciesType ==
  ASSUME NEW w \in Store
  PROVE  MatchPolicies(w) \in LinkKept(w)
<1>1. Binds(w) => w.case.details.ranked[1] \in Policies
  BY DEF Binds, DetailsAssumption, Store, CaseRow
<1> QED
  BY <1>1 DEF LinkKept, MatchPolicies, Store, CaseRow, Converted

LEMMA ScanDuplicatesType ==
  ASSUME NEW w \in Store, NEW found
  PROVE  ScanDuplicates(w, found) \in LinkKept(w)
BY DEF LinkKept, ScanDuplicates, Store, Converted

LEMMA RaiseExceptionsType ==
  ASSUME NEW w \in Store
  PROVE  RaiseExceptions(w) \in LinkKept(w)
BY DEF LinkKept, RaiseExceptions, Store, Converted

LEMMA UpToType ==
  ASSUME NEW w \in Store, NEW found, NEW force, NEW stage,
         NEW reading \in [date: ReadDates, details: Details]
  PROVE  UpTo(stage, w, reading, found, force) \subseteq LinkKept(w)
<1> DEFINE read == Extract(w, reading, force)
           matched == MatchPolicies(read)
           scanned == ScanDuplicates(matched, found)
<1>1. read \in LinkKept(w)
  BY ExtractType
<1>2. matched \in LinkKept(w)
  BY <1>1, MatchPoliciesType DEF LinkKept
<1>3. scanned \in LinkKept(w)
  BY <1>2, ScanDuplicatesType DEF LinkKept
<1>4. RaiseExceptions(scanned) \in LinkKept(w)
  BY <1>3, RaiseExceptionsType DEF LinkKept
<1>5. w \in LinkKept(w)
  BY DEF LinkKept
<1>6. UpTo(stage, w, reading, found, force) \in
        {{w}, {read}, {matched}, {scanned}, {RaiseExceptions(scanned)}}
  BY DEF UpTo
<1> QED
  BY <1>1, <1>2, <1>3, <1>4, <1>5, <1>6

LEMMA PipelineType ==
  ASSUME NEW now \in Store, NEW seen \in Store, NEW w \in Store,
         NEW found, NEW force, NEW stage,
         NEW reading \in [date: ReadDates, details: Details]
  PROVE  /\ PipelineRun(now, seen, w, reading, found, force) \subseteq LinkKept(w)
         /\ PipelineFailure(stage, w, reading, found, force) \subseteq Left(w)
<1>1. \A s : UpTo(s, StartProcessing(w), reading, found, force) \subseteq LinkKept(w)
  BY StartProcessingType, UpToType DEF LinkKept
<1>2. PipelineRun(now, seen, w, reading, found, force) \subseteq LinkKept(w)
  BY <1>1, SettleType DEF LinkKept, PipelineRun
<1>3. ASSUME NEW v \in LinkKept(w)
      PROVE  [v EXCEPT !.case.status = "ai_processing_failed"] \in Left(w)
  BY <1>3 DEF LinkKept, Left, Store, CaseRow, FNOLStatus
<1>4. PipelineFailure(stage, w, reading, found, force) \subseteq Left(w)
  BY <1>1, <1>3 DEF PipelineFailure
<1> QED
  BY <1>2, <1>4

LEMMA EditedType ==
  ASSUME NEW s \in Store, NEW edit \in Corrections(s)
  PROVE  Edited(s, edit) \in LinkKept(s)
<1> DEFINE kept == [s.case EXCEPT !.date = edit.date, !.details = edit.details]
<1> DEFINE rows == [s.fields EXCEPT
                      !["date"] = IF edit.date # s.case.date THEN "human" ELSE @,
                      !["details"] = IF edit.details # s.case.details THEN "human" ELSE @]
<1>1. edit.date \in StoredDates /\ edit.details \in Details
  BY RequestsAssumption DEF Corrections, Store, CaseRow
<1>2. kept \in CaseRow /\ kept.claim = s.case.claim /\ kept.status = s.case.status
  BY <1>1 DEF Store, CaseRow
<1>3. rows \in [FactNames -> {"absent", "machine", "human"}]
  BY DEF Store, FactNames
<1>4. Edited(s, edit) = [s EXCEPT !.case = kept, !.fields = rows]
  BY DEF Edited, Store, CaseRow, FactNames
<1> HIDE DEF kept, rows
<1>5. s.analysis \in [texts: SUBSET Docs, date: ReadDates \cup {"unread"}]
  BY DEF Store
<1> DEFINE v == With(s, kept, rows, s.analysis)
<1>6. v \in Store /\ v.case = kept
  BY <1>2, <1>3, <1>5, Replaced
<1>7. v = [s EXCEPT !.case = kept, !.fields = rows]
  BY DEF Store, With
<1> HIDE DEF v
<1>8. v \in LinkKept(s)
  BY <1>2, <1>6, SameStatus
<1> QED
  BY <1>4, <1>7, <1>8

LEMMA DecidedType ==
  ASSUME NEW s \in Store, NEW c \in Candidates, NEW resolution \in Resolutions
  PROVE  /\ Decided(s, c, resolution) \in Store
         /\ ~Converted(s) => Decided(s, c, resolution) \in LinkKept(s)
<1> DEFINE lifts == resolution # "duplicate" /\ ~OthersUndecided(s, c)
<1> DEFINE kept == [s.case EXCEPT !.status = IF resolution = "duplicate" THEN "rejected" ELSE @]
<1> DEFINE held == [s.exc EXCEPT !["possible_duplicate"] =
                      IF lifts /\ @ = "open" THEN "absent" ELSE @]
<1>1. kept \in CaseRow /\ kept.claim = s.case.claim
  BY DEF Store, CaseRow, FNOLStatus
<1>2. held \in [BlockingExceptions -> {"absent", "open", "closed"}]
  BY DEF Store
<1>3. [s.dups EXCEPT ![c] = resolution] \in [Candidates -> {"absent", "unresolved"} \cup Resolutions]
  BY DEF Store
<1>4. Decided(s, c, resolution)
        = [s EXCEPT !.dups = [@ EXCEPT ![c] = resolution], !.case = kept, !.exc = held]
  BY DEF Decided, Store, CaseRow
<1> HIDE DEF kept, held
<1> QED
  BY <1>1, <1>2, <1>3, <1>4 DEF LinkKept, Store

LEMMA SelectedType ==
  ASSUME NEW s \in Store, NEW p \in Policies, NEW details \in Details
  PROVE  Selected(s, p, details) \in LinkKept(s)
BY DEF LinkKept, Selected, Store, CaseRow, Converted

-----------------------------------------------------------------------------
(***************************************************************************)
(* What the requests write: an edit opens no code, none moves the link to  *)
(* a claim, and none leaves conversion but by a failure.                   *)
(***************************************************************************)
LEMMA Settled ==
  ASSUME NEW now \in Store, NEW s \in Store, NEW w \in LinkKept(s)
  PROVE  /\ Settle(now, s, w) \in LinkKept(s)
         /\ OpenCodes(Settle(now, s, w).exc) = OpenCodes(w.exc)
<1>1. w \in Store
  BY DEF LinkKept
<1>2. Settle(now, s, w) \in LinkKept(w)
  BY <1>1, SettleType
<1>3. Settle(now, s, w).exc = w.exc
  BY <1>1 DEF Settle, Store
<1> QED
  BY <1>2, <1>3 DEF LinkKept

LEMMA DecidedOpens ==
  ASSUME NEW s \in Store, NEW c \in Candidates, NEW resolution \in Resolutions
  PROVE  OpenCodes(Decided(s, c, resolution).exc) \subseteq OpenCodes(s.exc)
BY DEF Decided, OpenCodes, Store

WritesNoOpen(r) ==
  \E s \in Store : \E flushed \in Store, w \in Left(s) :
    /\ Write(r, s, flushed, w)
    /\ OpenCodes(w.exc) \subseteq OpenCodes(s.exc)

LEMMA LinkLeft ==
  ASSUME NEW s \in Store
  PROVE  LinkKept(s) \subseteq Left(s) /\ s \in LinkKept(s)
BY DEF LinkKept, Left

LEMMA EditsWrite ==
  ASSUME TypeOK, NEW r \in Requests, Edits(r)
  PROVE  pc[r] = "ready" /\ WritesNoOpen(r)
<1> DEFINE s == Seen(base[r], store)
<1>0. s \in Store /\ store \in Store /\ LinkKept(s) \subseteq Left(s) /\ s \in LinkKept(s)
  BY SeenType, LinkLeft DEF TypeOK
<1>1. CASE UpdateFieldsOnly(r)
  <2>1. PICK edit \in Corrections(s) :
          LET e == Edited(s, edit) IN Write(r, s, e, Settle(store, s, e))
    BY <1>1 DEF UpdateFieldsOnly
  <2> DEFINE e == Edited(s, edit)
  <2>2. e \in LinkKept(s) /\ OpenCodes(e.exc) = OpenCodes(s.exc)
    BY <1>0, EditedType DEF Edited, Store
  <2>3. /\ Settle(store, s, e) \in LinkKept(s)
        /\ OpenCodes(Settle(store, s, e).exc) = OpenCodes(s.exc)
    BY <1>0, <2>2, Settled
  <2> QED
    BY <1>0, <1>1, <2>1, <2>2, <2>3 DEF WritesNoOpen, LinkKept, UpdateFieldsOnly
<1>2. CASE ResolveDuplicate(r)
  <2>1. PICK c \in Candidates, resolution \in Resolutions :
          LET d == Decided(s, c, resolution) IN Write(r, s, d, Settle(store, s, d))
    BY <1>2 DEF ResolveDuplicate
  <2> DEFINE d == Decided(s, c, resolution)
  <2>2. d \in LinkKept(s) /\ OpenCodes(d.exc) \subseteq OpenCodes(s.exc)
    BY <1>0, <1>2, DecidedType, DecidedOpens DEF ResolveDuplicate
  <2>3. /\ Settle(store, s, d) \in LinkKept(s)
        /\ OpenCodes(Settle(store, s, d).exc) = OpenCodes(d.exc)
    BY <1>0, <2>2, Settled
  <2> QED
    BY <1>0, <1>2, <2>1, <2>2, <2>3 DEF WritesNoOpen, LinkKept, ResolveDuplicate
<1>3. CASE ResolveException(r)
  <2>1. PICK code \in BlockingExceptions :
          LET e == [s EXCEPT !.exc[code] = "closed"] IN Write(r, s, e, Settle(store, s, e))
    BY <1>3 DEF ResolveException
  <2> DEFINE e == [s EXCEPT !.exc[code] = "closed"]
  <2>2. e \in LinkKept(s) /\ OpenCodes(e.exc) \subseteq OpenCodes(s.exc)
    <3>1. e \in Store /\ e.case = s.case
      BY <1>0 DEF Store
    <3>2. OpenCodes(e.exc) \subseteq OpenCodes(s.exc)
      BY <1>0 DEF OpenCodes, Store
    <3> QED
      BY <3>1, <3>2 DEF LinkKept, Converted
  <2>3. /\ Settle(store, s, e) \in LinkKept(s)
        /\ OpenCodes(Settle(store, s, e).exc) = OpenCodes(e.exc)
    BY <1>0, <2>2, Settled
  <2> QED
    BY <1>0, <1>3, <2>1, <2>2, <2>3 DEF WritesNoOpen, LinkKept, ResolveException
<1>4. CASE ConfirmCatMatch(r)
  <2>1. /\ Settle(store, s, s) \in LinkKept(s)
        /\ OpenCodes(Settle(store, s, s).exc) = OpenCodes(s.exc)
    BY <1>0, Settled
  <2> QED
    BY <1>0, <1>4, <2>1 DEF WritesNoOpen, ConfirmCatMatch
<1>5. CASE Transition(r)
  <2>1. PICK target \in Targets :
          /\ CanTransition(s.case.status, target)
          /\ Write(r, s, s, [s EXCEPT !.case.status = target])
    BY <1>5 DEF Transition
  <2> DEFINE w == [s EXCEPT !.case.status = target]
  <2>2. ~Converted(s)
    BY <2>1, RequestsAssumption
       DEF CanTransition, Allowed, Converted, FNOLStatus, HeldStatuses
  <2>3. w \in LinkKept(s) /\ OpenCodes(w.exc) = OpenCodes(s.exc)
    BY <1>0, <2>2, RequestsAssumption DEF LinkKept, Store, CaseRow
  <2> QED
    BY <1>0, <1>5, <2>1, <2>3 DEF WritesNoOpen, Transition
<1>6. CASE UploadOnly(r)
  <2>1. PICK d \in Docs : Write(r, s, Attached(s, d), Attached(s, d))
    BY <1>6 DEF UploadOnly
  <2>2. /\ Attached(s, d) \in LinkKept(s)
        /\ OpenCodes(Attached(s, d).exc) = OpenCodes(s.exc)
    BY <1>0 DEF Attached, LinkKept, Store, Converted
  <2> QED
    BY <1>0, <1>6, <2>1, <2>2 DEF WritesNoOpen, LinkKept, UploadOnly
<1> QED
  BY <1>1, <1>2, <1>3, <1>4, <1>5, <1>6 DEF Edits

WritesAll(r) ==
  \E s \in Store : \E w \in Left(s) : Write(r, s, w, w)

LEMMA RunPipelineWrites ==
  ASSUME TypeOK, NEW r, NEW s \in Store, NEW start \in LinkKept(s), NEW force, NEW fails,
         RunPipeline(r, s, start, force, fails)
  PROVE  WritesAll(r)
<1>1. start \in Store /\ store \in Store
  BY DEF LinkKept, TypeOK
<1>2. PICK reading \in [date: Answers, details: Details], found \in SUBSET Candidates :
        \E w \in IF fails
                   THEN UNION {PipelineFailure(stage, start, reading, found, force) :
                                 stage \in StageFailures}
                   ELSE PipelineRun(store, s, start, reading, found, force) :
          Write(r, s, w, w)
  BY DEF RunPipeline
<1>3. reading \in [date: ReadDates, details: Details]
  BY RequestsAssumption
<1>4. PipelineRun(store, s, start, reading, found, force) \subseteq Left(s)
  <2>1. PipelineRun(store, s, start, reading, found, force) \subseteq LinkKept(start)
    BY <1>1, <1>3, PipelineType
  <2> QED
    BY <2>1 DEF LinkKept, Left
<1>5. \A stage : PipelineFailure(stage, start, reading, found, force) \subseteq Left(s)
  <2>1. \A stage : PipelineFailure(stage, start, reading, found, force) \subseteq Left(start)
    BY <1>1, <1>3, PipelineType
  <2> QED
    BY <2>1 DEF LinkKept, Left
<1>6. CASE fails
  BY <1>2, <1>5, <1>6 DEF WritesAll
<1>7. CASE ~fails
  BY <1>2, <1>4, <1>7 DEF WritesAll
<1> QED
  BY <1>6, <1>7

LEMMA SeenByRunType ==
  ASSUME TypeOK, NEW r \in Requests
  PROVE  SeenByRun(r) \in Store
<1>1. Seen(base[r], store) \in Store /\ base[r].docs \in SUBSET Docs
  BY SeenType DEF TypeOK, Store
<1> QED
  BY <1>1 DEF SeenByRun, Store

LEMMA RunsWrite ==
  ASSUME TypeOK, NEW r \in Requests, NEW fails, Runs(r, fails)
  PROVE  pc[r] = "running" /\ WritesAll(r)
<1> DEFINE s == SeenByRun(r)
<1>0. s \in Store /\ s \in LinkKept(s)
  BY SeenByRunType, LinkLeft
<1>1. CASE Process(r, fails)
  <2>1. PICK force \in BOOLEAN : RunPipeline(r, s, s, force, fails)
    BY <1>1 DEF Process
  <2> QED
    BY <1>0, <1>1, <2>1, RunPipelineWrites DEF Process
<1>2. CASE UpdateFieldsAndRun(r, fails)
  <2>1. PICK edit \in Corrections(s) : RunPipeline(r, s, Edited(s, edit), FALSE, fails)
    BY <1>2 DEF UpdateFieldsAndRun
  <2>2. Edited(s, edit) \in LinkKept(s)
    BY <1>0, EditedType
  <2>3. WritesAll(r)
    BY <1>0, <2>1, <2>2, RunPipelineWrites
  <2> QED
    BY <1>2, <2>3 DEF UpdateFieldsAndRun
<1>3. CASE SelectPolicy(r, fails)
  <2>1. PICK p \in Policies :
          \E details \in AfterSelection(s.case.details, p) :
            RunPipeline(r, s, Selected(s, p, details), FALSE, fails)
    BY <1>3 DEF SelectPolicy
  <2>2. \A details \in AfterSelection(s.case.details, p) :
          Selected(s, p, details) \in LinkKept(s)
    BY <1>0, SelectedType DEF AfterSelection
  <2>3. WritesAll(r)
    BY <1>0, <2>1, <2>2, RunPipelineWrites
  <2> QED
    BY <1>3, <2>3 DEF SelectPolicy
<1>4. CASE UploadAndRun(r, fails)
  <2>1. PICK d \in Docs : RunPipeline(r, s, Attached(s, d), FALSE, fails)
    BY <1>4 DEF UploadAndRun
  <2>2. Attached(s, d) \in LinkKept(s)
    BY <1>0 DEF Attached, LinkKept, Store, Converted
  <2>3. WritesAll(r)
    BY <1>0, <2>1, <2>2, RunPipelineWrites
  <2> QED
    BY <1>4, <2>3 DEF UploadAndRun
<1>5. CASE RemoveDocument(r, fails)
  <2>1. PICK d \in s.docs : RunPipeline(r, s, Detached(s, d), FALSE, fails)
    BY <1>5 DEF RemoveDocument
  <2>2. Detached(s, d) \in LinkKept(s)
    BY <1>0 DEF Detached, LinkKept, Store, Converted
  <2>3. WritesAll(r)
    BY <1>0, <2>1, <2>2, RunPipelineWrites
  <2> QED
    BY <1>5, <2>3 DEF RemoveDocument
<1> QED
  BY <1>1, <1>2, <1>3, <1>4, <1>5 DEF Runs

(* A request that runs the pipeline, to its end or not.                    *)
Running(r) == Runs(r, FALSE) \/ Runs(r, TRUE)

Acts(r) == Load(r) \/ Serve(r) \/ Runs(r, TRUE) \/ Abort(r)

LEMMA ActsAre ==
  ASSUME NEW r, Acts(r)
  PROVE  \/ Load(r) \/ Edits(r) \/ StartRun(r) \/ Running(r) \/ Commit(r) \/ Abort(r)
         \/ CreateLock(r) \/ CreateReturns(r) \/ CreateRefused(r) \/ CreateCheck(r)
         \/ CreateInsert(r)
BY DEF Acts, Running, Serve, Creates


-----------------------------------------------------------------------------
(***************************************************************************)
(* The inductive invariant.  Types alone are not inductive: the row a claim*)
(* is made of is a claim row because the checklist was gone through under  *)
(* the lock, and what a request will commit says how it may leave what it  *)
(* loaded.                                                                 *)
(***************************************************************************)
Leaving ==
  \A r \in Requests :
    pc[r] = "written" /\ Converted(base[r]) =>
      Converted(work[r]) \/ work[r].case.status = "ai_processing_failed"

Inv == TypeOK /\ LockDiscipline /\ Leaving

LEMMA InitInv == Init => Inv
<1> SUFFICES ASSUME Init PROVE Inv
  OBVIOUS
<1>1. PICK date \in Answers \cap StoredDates, details \in Details, docs \in SUBSET Docs :
        store = NewNotice(date, details, docs)
  BY DEF Init
<1>2. store \in Store /\ store.case.claim = FALSE
  BY <1>1, NewNoticeType DEF NewNotice
<1>3. TypeOK
  BY <1>2, BlankType DEF Init, TypeOK, Places
<1>4. LockDiscipline /\ Leaving
  BY <1>2 DEF Init, LockDiscipline, Leaving
<1> QED
  BY <1>3, <1>4 DEF Inv

LEMMA FlushOpens ==
  ASSUME NEW now \in Store, NEW seen \in Store, NEW new \in Store,
         OpenCodes(new.exc) \subseteq OpenCodes(seen.exc)
  PROVE  OpenCodes(Flush(now, seen, new).exc) \subseteq OpenCodes(now.exc)
<1>1. Flush(now, seen, new).exc = FlushRows(now.exc, seen.exc, new.exc)
  BY DEF Flush
<1>2. now.exc \in [BlockingExceptions -> {"absent", "open", "closed"}]
  BY DEF Store
<1> QED
  BY <1>1, <1>2 DEF OpenCodes, FlushRows, Changed

LEMMA FlushLink ==
  ASSUME NEW now, NEW seen, NEW new, new.case.claim = seen.case.claim
  PROVE  Flush(now, seen, new).case.claim = now.case.claim
BY DEF Flush, FlushCase, Changed

LEMMA WriteInv ==
  ASSUME Inv, NEW r \in Requests, NEW s \in Store, NEW flushed, NEW w \in Left(s),
         Write(r, s, flushed, w),
         pc[r] = "running" \/ OpenCodes(w.exc) \subseteq OpenCodes(s.exc)
  PROVE  Inv'
<1>1. w \in Store /\ w.case.claim = s.case.claim
  BY DEF Left
<1>2. TypeOK'
  BY <1>1 DEF Inv, TypeOK, Write, Places
<1>3. \A q \in Requests : locker = q => locker' = q
  BY RequestsAssumption DEF Write, LockFree
<1>4. \A q \in Requests \ {r} : /\ pc'[q] = pc[q]
                               /\ base'[q] = base[q]
                               /\ work'[q] = work[q]
  BY DEF Inv, TypeOK, Write
<1>5. pc'[r] = "written" /\ base'[r] = s /\ work'[r] = w
  BY DEF Inv, TypeOK, Write
<1>6. locker' = r \/ OpenCodes(w.exc) \subseteq OpenCodes(s.exc)
  BY <1>3 DEF Inv, LockDiscipline
<1>7. store' = store /\ claims' = claims
  BY DEF Write
<1>8. LockDiscipline'
  BY <1>1, <1>3, <1>4, <1>5, <1>6, <1>7 DEF Inv, LockDiscipline, Blocked
<1>9. Leaving'
  <2>1. Converted(s) => Converted(w) \/ w.case.status = "ai_processing_failed"
    BY DEF Left
  <2> QED
    BY <1>4, <1>5, <2>1 DEF Inv, Leaving, Converted
<1> QED
  BY <1>2, <1>8, <1>9 DEF Inv

(* A request that ends releases at most its own lock.                      *)
LEMMA ForgetInv ==
  ASSUME Inv, NEW r \in Requests, Forget(r),
         store' \in Store, claims' \subseteq ClaimRow,
         store'.case.claim <=> claims' # {},
         \A q \in Requests \ {r} :
           pc[q] = "checked" =>
             /\ claims' = {}
             /\ OpenCodes(store'.exc) \subseteq OpenCodes(store.exc)
  PROVE  Inv'
<1>1. TypeOK'
  BY BlankType DEF Inv, TypeOK, Forget, Places
<1>2. \A q \in Requests \ {r} : locker = q => locker' = q
  BY DEF Forget
<1>3. \A q \in Requests \ {r} : /\ pc'[q] = pc[q]
                               /\ base'[q] = base[q]
                               /\ work'[q] = work[q]
  BY DEF Inv, TypeOK, Forget
<1>4. pc'[r] = "idle"
  BY DEF Inv, TypeOK, Forget
<1>5. LockDiscipline'
  BY <1>2, <1>3, <1>4 DEF Inv, LockDiscipline, Blocked
<1>6. Leaving'
  BY <1>3, <1>4 DEF Inv, Leaving, Converted
<1> QED
  BY <1>1, <1>5, <1>6 DEF Inv

LEMMA InsertInv ==
  ASSUME Inv, NEW r \in Requests, CreateInsert(r)
  PROVE  Inv'
<1>1. locker = r /\ claims = {} /\ ~Blocked(r)
  BY DEF Inv, LockDiscipline, CreateInsert
<1>2. store \in Store /\ base[r] \in Store
  BY DEF Inv, TypeOK
<1>3. RowOf(base[r].case) \in ClaimRow
  <2>1. base[r].case \in CaseRow
    BY <1>2 DEF Store
  <2>2. base[r].case.policy # NoPolicy /\ base[r].case.date # "none"
    BY <1>1 DEF Blocked, Incomplete
  <2> QED
    BY <2>1, <2>2 DEF RowOf, ClaimRow, CaseRow
<1>4. /\ claims' = {RowOf(base[r].case)}
      /\ store' = [store EXCEPT !.case.status = "claim_created", !.case.claim = TRUE]
  BY <1>1 DEF CreateInsert
<1>5. store' \in Store /\ store'.case.claim = TRUE
  <2>1. store.case \in CaseRow
    BY <1>2 DEF Store
  <2> DEFINE row == [store.case EXCEPT !.status = "claim_created", !.claim = TRUE]
  <2>2. row \in CaseRow /\ row.claim = TRUE
    BY <2>1 DEF CaseRow, FNOLStatus
  <2>3. store' = [store EXCEPT !.case = row]
    BY <1>2, <1>4 DEF Store, CaseRow
  <2> HIDE DEF row
  <2> QED
    BY <1>2, <2>2, <2>3 DEF Store
<1>6. \A q \in Requests \ {r} : pc[q] # "checked"
  BY <1>1 DEF Inv, LockDiscipline
<1> QED
  BY <1>3, <1>4, <1>5, <1>6, ForgetInv DEF CreateInsert

LEMMA CommitInv ==
  ASSUME Inv, NEW r \in Requests, Commit(r)
  PROVE  Inv'
<1>1. store \in Store /\ base[r] \in Store /\ work[r] \in Store
  BY DEF Inv, TypeOK
<1>2. pc[r] = "written" /\ claims' = claims
      /\ store' = Flush(store, base[r], work[r])
  BY DEF Commit
<1>3. store' \in Store
  BY <1>1, <1>2, FlushType
<1>4. store'.case.claim = store.case.claim
  BY <1>2, FlushLink DEF Inv, LockDiscipline
<1>5. ASSUME NEW q \in Requests \ {r}, pc[q] = "checked"
      PROVE  /\ claims = {}
             /\ OpenCodes(store'.exc) \subseteq OpenCodes(store.exc)
  <2>1. locker = q /\ claims = {}
    BY <1>5 DEF Inv, LockDiscipline
  <2>2. OpenCodes(work[r].exc) \subseteq OpenCodes(base[r].exc)
    BY <1>2, <1>5, <2>1 DEF Inv, LockDiscipline
  <2> QED
    BY <1>1, <1>2, <2>1, <2>2, FlushOpens
<1> QED
  BY <1>2, <1>3, <1>4, <1>5, ForgetInv DEF Commit, Inv, TypeOK, LockDiscipline

(* Taking the lock, or going on with it, changes no row.                   *)
LEMMA StepInv ==
  ASSUME Inv, NEW r \in Requests,
         StartRun(r) \/ CreateLock(r) \/ CreateCheck(r)
  PROVE  Inv'
<1>1. CASE StartRun(r)
  <2>1. pc'[r] = "running" /\ locker' = r /\ locker = Free
    BY <1>1 DEF StartRun, Inv, TypeOK
  <2>2. \A q \in Requests \ {r} : pc'[q] = pc[q] /\ base'[q] = base[q]
    BY <1>1 DEF StartRun, Inv, TypeOK
  <2>3. work' = work /\ store' = store /\ claims' = claims
    BY <1>1 DEF StartRun
  <2>4. TypeOK'
    <3>1. [base[r] EXCEPT !.docs = store.docs] \in Store
      <4>1. base[r] \in Store /\ store.docs \in SUBSET Docs
        BY DEF Inv, TypeOK, Store
      <4> QED
        BY <4>1 DEF Store
    <3> QED
      BY <1>1, <3>1 DEF StartRun, Inv, TypeOK, Places
  <2>5. \A q \in Requests : pc[q] \notin {"running", "locked", "checked"}
    BY <2>1, RequestsAssumption DEF Inv, LockDiscipline
  <2>6. LockDiscipline'
    BY <2>1, <2>2, <2>3, <2>5, RequestsAssumption DEF Inv, LockDiscipline
  <2>7. Leaving'
    BY <2>1, <2>2, <2>3 DEF Inv, Leaving, Converted
  <2> QED
    BY <2>4, <2>6, <2>7 DEF Inv
<1>2. CASE CreateLock(r)
  BY <1>2, RequestsAssumption
     DEF CreateLock, Inv, TypeOK, LockDiscipline, Leaving, Converted, Places, Blocked
<1>3. CASE CreateCheck(r)
  BY <1>3 DEF CreateCheck, Inv, TypeOK, LockDiscipline, Leaving, Converted, Places, Blocked
<1> QED
  BY <1>1, <1>2, <1>3

LEMMA NextInv == Inv /\ [Next]_vars => Inv'
<1> SUFFICES ASSUME Inv, [Next]_vars PROVE Inv'
  OBVIOUS
<1>1. CASE UNCHANGED vars
  BY <1>1 DEF vars, Inv, TypeOK, LockDiscipline, Leaving, Converted, Blocked
<1>2. ASSUME NEW r \in Requests, Load(r) PROVE Inv'
  BY <1>2 DEF Load, Inv, TypeOK, LockDiscipline, Leaving, Converted, Places, Blocked
<1>3. ASSUME NEW r \in Requests, Edits(r) PROVE Inv'
  BY <1>3, EditsWrite, WriteInv DEF WritesNoOpen, Inv
<1>4. ASSUME NEW r \in Requests, Running(r) PROVE Inv'
  BY <1>4, RunsWrite, WriteInv DEF Running, WritesAll, Left, Inv
<1>5. ASSUME NEW r \in Requests, CreateReturns(r) \/ CreateRefused(r) \/ Abort(r)
      PROVE  Inv'
  <2>1. Forget(r) /\ store' = store /\ claims' = claims
    BY <1>5 DEF CreateReturns, CreateRefused, Abort
  <2> QED
    BY <2>1, ForgetInv DEF Inv, TypeOK, LockDiscipline
<1>6. ASSUME NEW r \in Requests, Acts(r) PROVE Inv'
  BY <1>2, <1>3, <1>4, <1>5, <1>6, ActsAre, StepInv, InsertInv, CommitInv
<1> QED
  BY <1>1, <1>6 DEF Next, Acts

(* The types of the state hold whatever requests come.                     *)
THEOREM TypeCorrect == Spec => []TypeOK
<1>1. Inv => TypeOK
  BY DEF Inv
<1> QED
  BY <1>1, InitInv, NextInv, PTL DEF Spec

(* The case row has one holder and only the holder opens codes or links    *)
(* claims, for any number of requests.                                     *)
THEOREM LockCorrect == Spec => []LockDiscipline
<1>1. Inv => LockDiscipline
  BY DEF Inv
<1> QED
  BY <1>1, InitInv, NextInv, PTL DEF Spec

(* A retried or concurrent creation never reaches the unique constraint.   *)
THEOREM SecondClaimNever == Spec => []NoSecondClaim
<1>1. Inv => NoSecondClaim
  BY DEF Inv, LockDiscipline, NoSecondClaim
<1> QED
  BY <1>1, InitInv, NextInv, PTL DEF Spec

-----------------------------------------------------------------------------
(***************************************************************************)
(* The requests implement the promise of claim creation: the insertion is  *)
(* its Convert, every other step an Assess.                                *)
(***************************************************************************)
LEMMA InitPromise == Init => Promise!Init
<1> SUFFICES ASSUME Init PROVE Promise!Init
  OBVIOUS
<1>1. PICK date \in Answers \cap StoredDates, details \in Details, docs \in SUBSET Docs :
        store = NewNotice(date, details, docs)
  BY DEF Init
<1>2. store.case.claim = FALSE /\ OpenCodes(store.exc) = {}
  BY <1>1 DEF NewNotice, OpenCodes
<1> QED
  BY <1>2 DEF Init, Promise!Init

LEMMA InsertConverts ==
  ASSUME Inv, NEW r \in Requests, CreateInsert(r)
  PROVE  Promise!Convert
<1>1. claims = {} /\ ~Blocked(r)
  BY DEF Inv, LockDiscipline, CreateInsert
<1>2. store \in Store /\ base[r] \in Store
  BY DEF Inv, TypeOK
<1> DEFINE row == RowOf(base[r].case)
<1>3. row \in ClaimRow /\ row.date # "none" /\ row.details.claimable
  BY <1>1, <1>2 DEF Blocked, Incomplete, RowOf, ClaimRow, Store, CaseRow
<1>4. claims' = {row}
  BY <1>1 DEF CreateInsert
<1>5. store'.case.claim = TRUE /\ store'.exc = store.exc
  BY <1>1, <1>2 DEF CreateInsert, Store, CaseRow
<1>6. OpenCodes(store.exc) = {} /\ OpenCodes(store'.exc) = OpenCodes(store.exc)
  BY <1>1, <1>5 DEF Blocked
<1> HIDE DEF row
<1> QED
  BY <1>1, <1>3, <1>4, <1>5, <1>6 DEF Promise!Convert

LEMMA OthersKeepClaims ==
  ASSUME NEW r \in Requests,
         Load(r) \/ Edits(r) \/ StartRun(r) \/ Running(r) \/ Commit(r) \/ Abort(r)
         \/ CreateLock(r) \/ CreateReturns(r) \/ CreateRefused(r) \/ CreateCheck(r)
  PROVE  claims' = claims
<1>1. CASE Load(r) \/ StartRun(r) \/ Commit(r) \/ Abort(r)
  BY <1>1 DEF Load, StartRun, Commit, Abort
<1>2. CASE CreateLock(r) \/ CreateReturns(r) \/ CreateRefused(r) \/ CreateCheck(r)
  BY <1>2 DEF CreateLock, CreateReturns, CreateRefused, CreateCheck
<1>3. CASE Edits(r)
  BY <1>3 DEF Edits, UpdateFieldsOnly, ResolveDuplicate, ResolveException,
              ConfirmCatMatch, Transition, UploadOnly, Write
<1>4. ASSUME NEW fails, Runs(r, fails) PROVE claims' = claims
  BY <1>4 DEF Runs, Process, UpdateFieldsAndRun, SelectPolicy, UploadAndRun,
              RemoveDocument, RunPipeline, Write
<1> QED
  BY <1>1, <1>2, <1>3, <1>4 DEF Running

LEMMA NextPromise ==
  Inv /\ Inv' /\ [Next]_vars =>
    [Promise!Next]_<<claims, store.case.claim, OpenCodes(store.exc)>>
<1> SUFFICES ASSUME Inv, Inv', [Next]_vars
             PROVE  [Promise!Next]_<<claims, store.case.claim, OpenCodes(store.exc)>>
  OBVIOUS
<1>1. ASSUME NEW r \in Requests, CreateInsert(r) PROVE Promise!Next
  BY <1>1, InsertConverts DEF Promise!Next
<1>2. ASSUME claims' = claims PROVE Promise!Next
  <2>1. store'.case.claim = store.case.claim
    BY <1>2 DEF Inv, TypeOK, LockDiscipline, Store, CaseRow
  <2>2. OpenCodes(store'.exc) \in SUBSET BlockingExceptions
    BY DEF OpenCodes
  <2> QED
    BY <1>2, <2>1, <2>2 DEF Promise!Next, Promise!Assess
<1>3. CASE UNCHANGED vars
  BY <1>3, <1>2 DEF vars
<1>4. ASSUME NEW r \in Requests, Acts(r) PROVE Promise!Next
  BY <1>1, <1>2, <1>4, ActsAre, OthersKeepClaims
<1> QED
  BY <1>3, <1>4 DEF Next, Acts

(* A claim is made at most once, only while no blocking code is open, from *)
(* a notice with a policy, a date and the words a claim needs, and the link*)
(* appears in the same step.                                               *)
THEOREM PromiseKept == Spec => ClaimPromised
<1>1. Spec => []Inv
  BY InitInv, NextInv, PTL DEF Spec
<1> QED
  BY <1>1, InitPromise, NextPromise, PTL DEF Spec, ClaimPromised, Promise!Spec

-----------------------------------------------------------------------------
(***************************************************************************)
(* Conversion, for any number of requests.                                 *)
(***************************************************************************)
LEMMA StatusMoves ==
  ASSUME Inv, NEW r \in Requests, Acts(r),
         Converted(store), ~Converted(store')
  PROVE  Commit(r)
<1>1. ~(Load(r) \/ StartRun(r) \/ Abort(r))
  BY DEF Load, StartRun, Abort, Converted
<1>2. ~(Edits(r) \/ Running(r))
  BY EditsWrite, RunsWrite DEF Running, WritesNoOpen, WritesAll, Write, Inv, Converted
<1>3. ~(CreateLock(r) \/ CreateReturns(r) \/ CreateRefused(r) \/ CreateCheck(r))
  BY DEF CreateLock, CreateReturns, CreateRefused, CreateCheck, Converted
<1>4. ~CreateInsert(r)
  <2> DEFINE w == [store EXCEPT !.case.status = "claim_created", !.case.claim = TRUE]
  <2>1. store \in Store /\ store.case \in CaseRow
    BY DEF Inv, TypeOK, Store
  <2>2. w.case.status = "claim_created"
    BY <2>1 DEF Store, CaseRow
  <2>3. CreateInsert(r) => store' = store \/ store' = w
    BY DEF CreateInsert
  <2> HIDE DEF w
  <2> QED
    BY <2>2, <2>3 DEF Converted
<1> QED
  BY <1>1, <1>2, <1>3, <1>4, ActsAre

LEMMA NextConversion ==
  ASSUME Inv, [Next]_vars, Converted(store), ~Converted(store')
  PROVE  \E r \in Requests :
           /\ pc[r] = "written"
           /\ pc'[r] = "idle"
           /\ \/ work[r].case.status = "ai_processing_failed"
              \/ ~Converted(base[r])
<1>1. PICK r \in Requests : Acts(r)
  BY DEF Next, Acts, vars, Converted
<1>2. Commit(r)
  BY <1>1, StatusMoves
<1>3. /\ pc[r] = "written" /\ pc'[r] = "idle"
      /\ store'.case.status = Changed(store.case.status, base[r].case.status,
                                      work[r].case.status)
  BY <1>2 DEF Commit, Forget, Inv, TypeOK, Flush, FlushCase
<1>4. Converted(base[r]) => work[r].case.status = "ai_processing_failed"
  BY <1>3 DEF Inv, Leaving, Converted, Changed
<1> QED
  BY <1>3, <1>4

(* No edit, no run that comes to its end and no claim creation undoes a    *)
(* conversion that its request saw: for any number of requests, and any    *)
(* order of their steps, a notice leaves conversion by a run with a stage  *)
(* that raised or by a request that loaded it before.                      *)
THEOREM ConversionCorrect == Spec => ConversionStands
<1>1. Inv /\ [Next]_vars =>
        [(/\ store.case.status = "claim_created"
          /\ store'.case.status # "claim_created")
         => \E r \in Requests :
              /\ pc[r] = "written"
              /\ pc'[r] = "idle"
              /\ \/ work[r].case.status = "ai_processing_failed"
                 \/ ~Converted(base[r])]_vars
  BY NextConversion DEF Converted
<1> QED
  BY <1>1, InitInv, NextInv, PTL DEF Spec, ConversionStands

-----------------------------------------------------------------------------
(***************************************************************************)
(* What one request may make of the rows it read, s, when it leaves them   *)
(* as w.  A confirmed policy stays the selected candidate, a fact stays    *)
(* with the officer who set it, and a decision stays made.                 *)
(***************************************************************************)
SelectedIsPolicy(w) ==
  w.case.confirmed => {p \in Policies : w.matches[p] = "selected"} = {w.case.policy}

HumanIsOfficers(w) == w.fields["date"] = "human" => w.case.date \in OfficerDates

Lawful(w) == SelectedIsPolicy(w) /\ HumanIsOfficers(w)

Keeps(s, w) ==
  /\ w \in Store
  /\ Lawful(s) => Lawful(w)
  /\ s.fields["date"] = "human" => w.fields["date"] = "human"
  /\ \A c \in Candidates : s.dups[c] \in Resolutions => w.dups[c] \in Resolutions

LEMMA KeepsOn ==
  ASSUME NEW s, NEW v, NEW w, Keeps(s, v), Keeps(v, w)
  PROVE  Keeps(s, w)
BY DEF Keeps

(* Status, codes, documents and reading are not what Keeps is about.       *)
LEMMA KeepsRest ==
  ASSUME NEW s \in Store, NEW w \in Store,
         w.case.confirmed = s.case.confirmed, w.case.policy = s.case.policy,
         w.case.date = s.case.date, w.matches = s.matches,
         w.fields = s.fields, w.dups = s.dups
  PROVE  Keeps(s, w)
BY DEF Keeps, Lawful, SelectedIsPolicy, HumanIsOfficers

LEMMA EditedKeeps ==
  ASSUME NEW s \in Store, NEW edit \in Corrections(s)
  PROVE  /\ Keeps(s, Edited(s, edit))
         /\ Edited(s, edit).case.status = s.case.status
         /\ Edited(s, edit).exc = s.exc
<1> DEFINE e == Edited(s, edit)
<1>1. e \in Store
  BY EditedType DEF LinkKept
<1>2. /\ e.case.confirmed = s.case.confirmed /\ e.case.policy = s.case.policy
      /\ e.case.status = s.case.status /\ e.exc = s.exc
      /\ e.matches = s.matches /\ e.dups = s.dups /\ e.case.date = edit.date
  BY DEF Edited, Store, CaseRow
<1>3. e.fields["date"] = IF edit.date # s.case.date THEN "human" ELSE s.fields["date"]
  BY DEF Edited, Store, FactNames
<1>4. edit.date # s.case.date => edit.date \in OfficerDates
  BY DEF Corrections
<1>5. SelectedIsPolicy(s) => SelectedIsPolicy(e)
  BY <1>2 DEF SelectedIsPolicy
<1>6. HumanIsOfficers(s) => HumanIsOfficers(e)
  BY <1>2, <1>3, <1>4 DEF HumanIsOfficers
<1> HIDE DEF e
<1> QED
  BY <1>1, <1>2, <1>3, <1>5, <1>6 DEF Keeps, Lawful, e

LEMMA DecidedKeeps ==
  ASSUME NEW s \in Store, NEW c \in Candidates, NEW resolution \in Resolutions
  PROVE  Keeps(s, Decided(s, c, resolution))
<1> DEFINE d == Decided(s, c, resolution)
<1>1. d \in Store
  BY DecidedType
<1>2. /\ d.case.confirmed = s.case.confirmed /\ d.case.policy = s.case.policy
      /\ d.case.date = s.case.date /\ d.matches = s.matches /\ d.fields = s.fields
  BY DEF Decided, Store, CaseRow
<1>3. \A x \in Candidates : d.dups[x] = IF x = c THEN resolution ELSE s.dups[x]
  BY DEF Decided, Store
<1> HIDE DEF d
<1> QED
  BY <1>1, <1>2, <1>3 DEF Keeps, Lawful, SelectedIsPolicy, HumanIsOfficers, d

LEMMA SelectedKeeps ==
  ASSUME NEW s \in Store, NEW p \in Policies, NEW details \in Details,
         s.matches[p] # "absent"
  PROVE  /\ Keeps(s, Selected(s, p, details))
         /\ Selected(s, p, details).case.status = s.case.status
         /\ Selected(s, p, details).exc = s.exc
<1> DEFINE w == Selected(s, p, details)
<1>1. w \in Store
  BY SelectedType DEF LinkKept
<1>2. /\ w.case.confirmed /\ w.case.policy = p /\ w.case.date = s.case.date
      /\ w.case.status = s.case.status /\ w.exc = s.exc
      /\ w.fields = s.fields /\ w.dups = s.dups
  BY DEF Selected, Store, CaseRow
<1>3. \A q \in Policies : w.matches[q] = "selected" <=> q = p
  BY DEF Selected, Store
<1> HIDE DEF w
<1>4. SelectedIsPolicy(w)
  BY <1>2, <1>3 DEF SelectedIsPolicy
<1> QED
  BY <1>1, <1>2, <1>4 DEF Keeps, Lawful, HumanIsOfficers, w

(* The stages: none touches what an officer decided.                       *)
LEMMA StartProcessingKeeps ==
  ASSUME NEW w \in Store
  PROVE  Keeps(w, StartProcessing(w))
<1>1. StartProcessing(w) \in Store
  BY StartProcessingType DEF LinkKept
<1> DEFINE v == StartProcessing(w)
<1>2. /\ v.case.confirmed = w.case.confirmed /\ v.case.policy = w.case.policy
      /\ v.case.date = w.case.date /\ v.matches = w.matches
      /\ v.fields = w.fields /\ v.dups = w.dups
  BY DEF StartProcessing, Store, CaseRow
<1> HIDE DEF v
<1> QED
  BY <1>1, <1>2, KeepsRest DEF v

LEMMA ExtractKeeps ==
  ASSUME NEW w \in Store, NEW force,
         NEW reading \in [date: ReadDates, details: Details]
  PROVE  /\ Keeps(w, Extract(w, reading, force))
         /\ Extract(w, reading, force).case.status = w.case.status
<1> DEFINE v == Extract(w, reading, force)
<1>1. v \in Store
  BY ExtractType DEF LinkKept
<1>2. /\ v.case.confirmed = w.case.confirmed /\ v.case.policy = w.case.policy
      /\ v.case.status = w.case.status /\ v.matches = w.matches /\ v.dups = w.dups
  BY DEF Extract, Store, CaseRow
<1>3. /\ w.fields["date"] = "human" => /\ v.fields["date"] = "human"
                                       /\ v.case.date = w.case.date
      /\ v.fields["date"] = "human" => w.fields["date"] = "human"
  BY DEF Extract, Protected, Store, CaseRow, FactNames
<1>4. SelectedIsPolicy(w) => SelectedIsPolicy(v)
  BY <1>2 DEF SelectedIsPolicy
<1>5. HumanIsOfficers(w) => HumanIsOfficers(v)
  BY <1>3 DEF HumanIsOfficers
<1> HIDE DEF v
<1> QED
  BY <1>1, <1>2, <1>3, <1>4, <1>5 DEF Keeps, Lawful, v

LEMMA MatchPoliciesKeeps ==
  ASSUME NEW w \in Store
  PROVE  /\ Keeps(w, MatchPolicies(w))
         /\ MatchPolicies(w).case.status = w.case.status
<1> DEFINE v == MatchPolicies(w)
<1>1. v \in Store
  BY MatchPoliciesType DEF LinkKept
<1>2. /\ v.case.confirmed = w.case.confirmed /\ v.case.date = w.case.date
      /\ v.case.status = w.case.status /\ v.fields = w.fields /\ v.dups = w.dups
      /\ w.case.confirmed => v.case.policy = w.case.policy
  BY DEF MatchPolicies, Binds, Store, CaseRow
<1>3. \A p \in Policies : v.matches[p] = "selected" <=> w.matches[p] = "selected"
  BY DEF MatchPolicies, Store
<1> HIDE DEF v
<1>4. SelectedIsPolicy(w) => SelectedIsPolicy(v)
  BY <1>2, <1>3 DEF SelectedIsPolicy
<1> QED
  BY <1>1, <1>2, <1>4 DEF Keeps, Lawful, HumanIsOfficers, v

LEMMA ScanDuplicatesKeeps ==
  ASSUME NEW w \in Store, NEW found
  PROVE  /\ Keeps(w, ScanDuplicates(w, found))
         /\ ScanDuplicates(w, found).case.status = w.case.status
<1> DEFINE v == ScanDuplicates(w, found)
<1>1. v \in Store
  BY ScanDuplicatesType DEF LinkKept
<1>2. v.case = w.case /\ v.matches = w.matches /\ v.fields = w.fields
  BY DEF ScanDuplicates, Store
<1>3. \A c \in Candidates : w.dups[c] \in Resolutions => v.dups[c] = w.dups[c]
  BY DEF ScanDuplicates, Pruned, Resolutions, Store
<1> HIDE DEF v
<1> QED
  BY <1>1, <1>2, <1>3 DEF Keeps, Lawful, SelectedIsPolicy, HumanIsOfficers, v

LEMMA RaiseExceptionsKeeps ==
  ASSUME NEW w \in Store
  PROVE  /\ Keeps(w, RaiseExceptions(w))
         /\ RaiseExceptions(w).case.status = w.case.status
<1>1. RaiseExceptions(w) \in Store
  BY RaiseExceptionsType DEF LinkKept
<1>2. RaiseExceptions(w) = [w EXCEPT !.exc = RaiseExceptions(w).exc]
  BY DEF RaiseExceptions, Store
<1> QED
  BY <1>1, <1>2, KeepsRest DEF Store

(* However far a run comes.                                                *)
LEMMA UpToKeeps ==
  ASSUME NEW w \in Store, NEW found, NEW force, NEW stage,
         NEW reading \in [date: ReadDates, details: Details],
         NEW v \in UpTo(stage, w, reading, found, force)
  PROVE  Keeps(w, v) /\ v.case.status = w.case.status
<1> DEFINE read == Extract(w, reading, force)
           matched == MatchPolicies(read)
           scanned == ScanDuplicates(matched, found)
           raised == RaiseExceptions(scanned)
<1>1. v \in {w, read, matched, scanned, raised}
  BY DEF UpTo
<1>2. Keeps(w, w)
  BY KeepsRest
<1>3. Keeps(w, read) /\ read.case.status = w.case.status
  BY ExtractKeeps
<1> HIDE DEF read
<1>4. Keeps(w, matched) /\ matched.case.status = w.case.status
  BY <1>3, MatchPoliciesKeeps, KeepsOn DEF Keeps
<1> HIDE DEF matched
<1>5. Keeps(w, scanned) /\ scanned.case.status = w.case.status
  BY <1>4, ScanDuplicatesKeeps, KeepsOn DEF Keeps
<1> HIDE DEF scanned
<1>6. Keeps(w, raised) /\ raised.case.status = w.case.status
  BY <1>5, RaiseExceptionsKeeps, KeepsOn DEF Keeps
<1> HIDE DEF raised
<1> QED
  BY <1>1, <1>2, <1>3, <1>4, <1>5, <1>6

(* A request that runs the pipeline starts it on what it read with its own *)
(* edit on it.                                                             *)
StartsFrom(r, s, start, force, fails) ==
  Keeps(s, start) /\ RunPipeline(r, s, start, force, fails)

LEMMA RunsStart ==
  ASSUME NEW r, NEW fails, NEW s \in Store, s = SeenByRun(r), Runs(r, fails)
  PROVE  \E start, force : StartsFrom(r, s, start, force, fails)
<1>1. CASE Process(r, fails)
  <2>1. Keeps(s, s)
    BY KeepsRest
  <2> QED
    BY <1>1, <2>1 DEF Process, StartsFrom
<1>2. CASE UpdateFieldsAndRun(r, fails)
  <2>1. PICK edit \in Corrections(s) : RunPipeline(r, s, Edited(s, edit), FALSE, fails)
    BY <1>2 DEF UpdateFieldsAndRun
  <2> QED
    BY <2>1, EditedKeeps DEF StartsFrom
<1>3. CASE SelectPolicy(r, fails)
  <2>1. PICK p \in Policies :
          /\ s.matches[p] # "absent"
          /\ \E details \in AfterSelection(s.case.details, p) :
               RunPipeline(r, s, Selected(s, p, details), FALSE, fails)
    BY <1>3 DEF SelectPolicy
  <2>2. PICK details \in Details : RunPipeline(r, s, Selected(s, p, details), FALSE, fails)
    BY <2>1 DEF AfterSelection
  <2> QED
    BY <2>1, <2>2, SelectedKeeps DEF StartsFrom
<1>4. CASE UploadAndRun(r, fails)
  <2>1. PICK d \in Docs : RunPipeline(r, s, Attached(s, d), FALSE, fails)
    BY <1>4 DEF UploadAndRun
  <2> DEFINE w == Attached(s, d)
  <2>2. w \in Store /\ w.case = s.case /\ w.matches = s.matches
        /\ w.fields = s.fields /\ w.dups = s.dups
    BY DEF Attached, Store
  <2> HIDE DEF w
  <2>3. Keeps(s, w)
    BY <2>2, KeepsRest
  <2> QED
    BY <2>1, <2>3 DEF StartsFrom, w
<1>5. CASE RemoveDocument(r, fails)
  <2>1. PICK d \in s.docs : RunPipeline(r, s, Detached(s, d), FALSE, fails)
    BY <1>5 DEF RemoveDocument
  <2> DEFINE w == Detached(s, d)
  <2>2. w \in Store /\ w.case = s.case /\ w.matches = s.matches
        /\ w.fields = s.fields /\ w.dups = s.dups
    BY DEF Detached, Store
  <2> HIDE DEF w
  <2>3. Keeps(s, w)
    BY <2>2, KeepsRest
  <2> QED
    BY <2>1, <2>3 DEF StartsFrom, w
<1> QED
  BY <1>1, <1>2, <1>3, <1>4, <1>5 DEF Runs

(* The image a run leaves: settled at its end, or marked failed.           *)
Ran(s, start, force, w) ==
  \E reading \in [date: ReadDates, details: Details], found \in SUBSET Candidates :
    \/ w \in PipelineRun(store, s, start, reading, found, force)
    \/ \E stage \in StageFailures : w \in PipelineFailure(stage, start, reading, found, force)

LEMMA RunPipelineRan ==
  ASSUME NEW r, NEW s, NEW start, NEW force, NEW fails,
         RunPipeline(r, s, start, force, fails)
  PROVE  \E w : Ran(s, start, force, w) /\ Write(r, s, w, w)
<1>1. PICK reading \in [date: Answers, details: Details], found \in SUBSET Candidates :
        \E w \in IF fails
                   THEN UNION {PipelineFailure(stage, start, reading, found, force) :
                                 stage \in StageFailures}
                   ELSE PipelineRun(store, s, start, reading, found, force) :
          Write(r, s, w, w)
  BY DEF RunPipeline
<1>2. reading \in [date: ReadDates, details: Details]
  BY RequestsAssumption
<1>3. CASE fails
  <2>1. PICK w \in UNION {PipelineFailure(stage, start, reading, found, force) :
                            stage \in StageFailures} : Write(r, s, w, w)
    BY <1>1, <1>3
  <2>2. Ran(s, start, force, w)
    BY <2>1, <1>2 DEF Ran
  <2> QED
    BY <2>1, <2>2
<1>4. CASE ~fails
  <2>1. PICK w \in PipelineRun(store, s, start, reading, found, force) : Write(r, s, w, w)
    BY <1>1, <1>4
  <2>2. Ran(s, start, force, w)
    BY <2>1, <1>2 DEF Ran
  <2> QED
    BY <2>1, <2>2
<1> QED
  BY <1>3, <1>4

-----------------------------------------------------------------------------
(***************************************************************************)
(* Requests that see each other's commits.  With several in flight, what   *)
(* follows is false: a request that commits what it read before another one*)
(* committed undoes the other.  The theorems are about the behaviours in   *)
(* which a request whose rows have changed since it loaded them writes     *)
(* nothing any more.  Those with one request under way at a time are among *)
(* them (OneAtATimeIsFresh), and so would be all those of a code that      *)
(* compared a version of the rows before it writes.                        *)
(***************************************************************************)
Fresh ==
  \A r \in Requests :
    (pc[r] # "idle" /\ base[r] # store /\ pc'[r] # pc[r])
    => pc'[r] # "written" /\ store' = store

StaleWritesNothing == [][Fresh]_vars

OneAtATime ==
  \A r, q \in Requests : pc[r] # "idle" /\ pc[q] # "idle" => r = q

LEMMA SeenSame ==
  ASSUME NEW s \in Store
  PROVE  Seen(s, s) = s
<1>1. /\ SeenRows(s.fields, s.fields) = s.fields
      /\ SeenRows(s.matches, s.matches) = s.matches
      /\ SeenRows(s.dups, s.dups) = s.dups
      /\ SeenRows(s.exc, s.exc) = s.exc
  BY DEF SeenRows, Store
<1> QED
  BY <1>1 DEF Seen, Store

LEMMA FlushRowsSame ==
  ASSUME NEW S, NEW T, NEW now \in [S -> T], NEW new \in [S -> T]
  PROVE  FlushRows(now, now, new) = new
BY DEF FlushRows, Changed

LEMMA FlushSame ==
  ASSUME NEW now \in Store, NEW new \in Store
  PROVE  Flush(now, now, new) = new
<1>1. /\ FlushRows(now.fields, now.fields, new.fields) = new.fields
      /\ FlushRows(now.matches, now.matches, new.matches) = new.matches
      /\ FlushRows(now.dups, now.dups, new.dups) = new.dups
      /\ FlushRows(now.exc, now.exc, new.exc) = new.exc
  <2>1. \A f \in {now.fields, new.fields} : f \in [FactNames -> {"absent", "machine", "human"}]
    BY DEF Store
  <2>2. \A f \in {now.matches, new.matches} : f \in [Policies -> {"absent", "listed", "selected"}]
    BY DEF Store
  <2>3. \A f \in {now.dups, new.dups} :
          f \in [Candidates -> {"absent", "unresolved"} \cup Resolutions]
    BY DEF Store
  <2>4. \A f \in {now.exc, new.exc} : f \in [BlockingExceptions -> {"absent", "open", "closed"}]
    BY DEF Store
  <2> QED
    BY <2>1, <2>2, <2>3, <2>4 DEF FlushRows, Changed
<1>2. FlushCase(now.case, now.case, new.case) = new.case
  BY DEF FlushCase, Changed, Store, CaseRow
<1>3. (now.docs \cup (new.docs \ now.docs)) \ (now.docs \ new.docs) = new.docs
  OBVIOUS
<1>4. Changed(now.analysis, now.analysis, new.analysis) = new.analysis
  BY DEF Changed
<1> QED
  BY <1>1, <1>2, <1>3, <1>4 DEF Flush, Store

(* Where a request leaves the notice follows the codes it leaves.          *)
Follows(s, w) ==
  \/ Agrees(w)
  \/ /\ OpenCodes(w.exc) = OpenCodes(s.exc)
     /\ CanTransition(s.case.status, w.case.status)

Outcome(s, w) == Keeps(s, w) /\ Follows(s, w)

LEMMA SettledOutcome ==
  ASSUME NEW s \in Store, NEW w, Keeps(s, w)
  PROVE  Outcome(s, Settle(s, s, w))
<1> DEFINE v == Settle(s, s, w)
<1>1. w \in Store
  BY DEF Keeps
<1>2. v \in Store
  BY <1>1, SettleType DEF LinkKept
<1>3. /\ v = [w EXCEPT !.case = v.case]
      /\ v.case = [w.case EXCEPT !.status = v.case.status]
      /\ v.case.status = DeriveStatus(w.case.status, OpenCodes(w.exc))
  <2>1. FlushRows(s.exc, s.exc, w.exc) = w.exc
    BY <1>1, FlushRowsSame DEF Store
  <2> QED
    BY <1>1, <2>1 DEF Settle, Store, CaseRow
<1> HIDE DEF v
<1>4. Keeps(w, v)
  BY <1>1, <1>2, <1>3, KeepsRest DEF Store, CaseRow
<1>5. Keeps(s, v)
  BY <1>4, KeepsOn
<1>6. Agrees(v)
  BY <1>1, <1>3 DEF Agrees, DeriveStatus, Store
<1> QED
  BY <1>5, <1>6 DEF Outcome, Follows, v

Writes(r) ==
  \E flushed, w : Outcome(store, w) /\ Write(r, store, flushed, w)

LEMMA EditsOutcome ==
  ASSUME TypeOK, NEW r \in Requests, Edits(r), base[r] = store
  PROVE  Writes(r)
<1>0. store \in Store /\ Seen(base[r], store) = store
  BY SeenSame DEF TypeOK
<1>1. CASE UpdateFieldsOnly(r)
  <2>1. PICK edit \in Corrections(store) :
          LET e == Edited(store, edit) IN Write(r, store, e, Settle(store, store, e))
    BY <1>0, <1>1 DEF UpdateFieldsOnly
  <2>2. Outcome(store, Settle(store, store, Edited(store, edit)))
    BY <1>0, EditedKeeps, SettledOutcome
  <2> QED
    BY <2>1, <2>2 DEF Writes
<1>2. CASE ResolveDuplicate(r)
  <2>1. PICK c \in Candidates, resolution \in Resolutions :
          LET d == Decided(store, c, resolution)
          IN  Write(r, store, d, Settle(store, store, d))
    BY <1>0, <1>2 DEF ResolveDuplicate
  <2>2. Outcome(store, Settle(store, store, Decided(store, c, resolution)))
    BY <1>0, DecidedKeeps, SettledOutcome
  <2> QED
    BY <2>1, <2>2 DEF Writes
<1>3. CASE ResolveException(r)
  <2>1. PICK code \in BlockingExceptions :
          LET e == [store EXCEPT !.exc[code] = "closed"]
          IN  Write(r, store, e, Settle(store, store, e))
    BY <1>0, <1>3 DEF ResolveException
  <2> DEFINE e == [store EXCEPT !.exc[code] = "closed"]
  <2>2. e \in Store /\ e.case = store.case /\ e.matches = store.matches
        /\ e.fields = store.fields /\ e.dups = store.dups
    BY <1>0 DEF Store
  <2> HIDE DEF e
  <2>3. Keeps(store, e)
    BY <1>0, <2>2, KeepsRest
  <2>4. Outcome(store, Settle(store, store, e))
    BY <1>0, <2>3, SettledOutcome
  <2> QED
    BY <2>1, <2>4 DEF Writes, e
<1>4. CASE ConfirmCatMatch(r)
  <2>1. Outcome(store, Settle(store, store, store))
    BY <1>0, KeepsRest, SettledOutcome
  <2> QED
    BY <1>0, <1>4, <2>1 DEF ConfirmCatMatch, Writes
<1>5. CASE Transition(r)
  <2>1. PICK target \in Targets :
          /\ CanTransition(store.case.status, target)
          /\ Write(r, store, store, [store EXCEPT !.case.status = target])
    BY <1>0, <1>5 DEF Transition
  <2> DEFINE w == [store EXCEPT !.case.status = target]
  <2>2. /\ w \in Store /\ w.case.status = target /\ w.exc = store.exc
        /\ w.case.confirmed = store.case.confirmed /\ w.case.policy = store.case.policy
        /\ w.case.date = store.case.date /\ w.matches = store.matches
        /\ w.fields = store.fields /\ w.dups = store.dups
    BY <1>0, RequestsAssumption DEF Store, CaseRow
  <2> HIDE DEF w
  <2>3. Keeps(store, w)
    BY <1>0, <2>2, KeepsRest
  <2>4. Follows(store, w)
    BY <2>1, <2>2 DEF Follows
  <2> QED
    BY <2>1, <2>3, <2>4 DEF Outcome, Writes, w
<1>6. CASE UploadOnly(r)
  <2>1. PICK d \in Docs : Write(r, store, Attached(store, d), Attached(store, d))
    BY <1>0, <1>6 DEF UploadOnly
  <2> DEFINE w == Attached(store, d)
  <2>2. w \in Store /\ w.case = store.case /\ w.matches = store.matches
        /\ w.fields = store.fields /\ w.dups = store.dups /\ w.exc = store.exc
    BY <1>0 DEF Attached, Store
  <2> HIDE DEF w
  <2>3. Keeps(store, w)
    BY <1>0, <2>2, KeepsRest
  <2> QED
    BY <2>1, <2>2, <2>3 DEF Outcome, Follows, CanTransition, Writes, w
<1> QED
  BY <1>1, <1>2, <1>3, <1>4, <1>5, <1>6 DEF Edits

LEMMA RanOutcome ==
  ASSUME NEW s \in Store, NEW start, NEW force, NEW w, store = s,
         Keeps(s, start), Ran(s, start, force, w)
  PROVE  Outcome(s, w)
<1> DEFINE begun == StartProcessing(start)
<1>1. start \in Store
  BY DEF Keeps
<1>2. Keeps(s, begun) /\ begun \in Store
  BY <1>1, StartProcessingKeeps, KeepsOn DEF Keeps
<1> HIDE DEF begun
<1>3. PICK reading \in [date: ReadDates, details: Details], found \in SUBSET Candidates :
        \/ w \in PipelineRun(s, s, start, reading, found, force)
        \/ \E stage \in StageFailures : w \in PipelineFailure(stage, start, reading, found, force)
  BY DEF Ran
<1>4. ASSUME NEW stage, NEW v \in UpTo(stage, begun, reading, found, force)
      PROVE  Keeps(s, v)
  BY <1>2, <1>4, UpToKeeps, KeepsOn
<1>5. CASE w \in PipelineRun(s, s, start, reading, found, force)
  <2>1. PICK v \in UpTo("raised", begun, reading, found, force) : w = Settle(s, s, v)
    BY <1>5 DEF PipelineRun, begun
  <2> QED
    BY <1>4, <2>1, SettledOutcome
<1>6. ASSUME NEW stage \in StageFailures,
             w \in PipelineFailure(stage, start, reading, found, force)
      PROVE  Outcome(s, w)
  <2>1. PICK v \in UpTo(stage, begun, reading, found, force) :
          w = [v EXCEPT !.case.status = "ai_processing_failed"]
    BY <1>6 DEF PipelineFailure, begun
  <2>2. Keeps(s, v) /\ v \in Store
    BY <1>4 DEF Keeps
  <2>3. /\ w \in Store /\ w.case.status = "ai_processing_failed"
        /\ w.case.confirmed = v.case.confirmed /\ w.case.policy = v.case.policy
        /\ w.case.date = v.case.date /\ w.matches = v.matches
        /\ w.fields = v.fields /\ w.dups = v.dups
    BY <2>1, <2>2 DEF Store, CaseRow, FNOLStatus
  <2>4. Keeps(v, w)
    BY <2>2, <2>3, KeepsRest
  <2>5. Keeps(s, w)
    BY <2>2, <2>4, KeepsOn
  <2> QED
    BY <1>6, <2>3, <2>5 DEF Outcome, Follows, Agrees
<1> QED
  BY <1>3, <1>5, <1>6

LEMMA RunSeesSame ==
  ASSUME TypeOK, NEW r \in Requests, base[r] = store
  PROVE  store \in Store /\ SeenByRun(r) = store
<1>1. store \in Store /\ Seen(base[r], store) = store
  BY SeenSame DEF TypeOK
<1> QED
  BY <1>1 DEF SeenByRun, Store

LEMMA RunsOutcome ==
  ASSUME TypeOK, NEW r \in Requests, NEW fails, Runs(r, fails), base[r] = store
  PROVE  Writes(r)
<1>1. store \in Store /\ store = SeenByRun(r)
  BY RunSeesSame
<1>2. PICK start, force : StartsFrom(r, store, start, force, fails)
  BY <1>1, RunsStart
<1>3. PICK w : Ran(store, start, force, w) /\ Write(r, store, w, w)
  BY <1>2, RunPipelineRan DEF StartsFrom
<1>4. Outcome(store, w)
  BY <1>1, <1>2, <1>3, RanOutcome DEF StartsFrom
<1> QED
  BY <1>3, <1>4 DEF Writes

-----------------------------------------------------------------------------
(***************************************************************************)
(* What the rows keep to, and what a request that wrote is about to do to  *)
(* those it loaded.                                                        *)
(***************************************************************************)
Kept ==
  /\ Lawful(store)
  /\ \A r \in Requests : pc[r] = "written" => Outcome(base[r], work[r])

LEMMA InitKept == Init => Kept
<1> SUFFICES ASSUME Init PROVE Kept
  OBVIOUS
<1>1. PICK date \in Answers \cap StoredDates, details \in Details, docs \in SUBSET Docs :
        store = NewNotice(date, details, docs)
  BY DEF Init
<1>2. ~store.case.confirmed /\ store.fields["date"] # "human"
  BY <1>1 DEF NewNotice, FactNames
<1> QED
  BY <1>2 DEF Init, Kept, Lawful, SelectedIsPolicy, HumanIsOfficers

(* How the committed rows move.                                            *)
Converts ==
  store' = [store EXCEPT !.case.status = "claim_created", !.case.claim = TRUE]

LEMMA StoreMoves ==
  ASSUME Inv, Kept, [Next]_vars, [Fresh]_vars
  PROVE  store' = store \/ Outcome(store, store') \/ Converts
<1>1. CASE UNCHANGED vars
  BY <1>1 DEF vars
<1>2. ASSUME NEW r \in Requests, Commit(r)
      PROVE  store' = store \/ Outcome(store, store')
  <2>1. /\ pc[r] = "written" /\ pc'[r] = "idle"
        /\ store' = Flush(store, base[r], work[r])
    BY <1>2 DEF Commit, Forget, Inv, TypeOK
  <2>2. Outcome(base[r], work[r]) /\ work[r] \in Store /\ store \in Store
    BY <2>1 DEF Kept, Inv, TypeOK
  <2>3. CASE base[r] = store
    BY <2>1, <2>2, <2>3, FlushSame
  <2>4. CASE base[r] # store
    BY <2>1, <2>4 DEF Fresh, vars
  <2> QED
    BY <2>3, <2>4
<1>3. ASSUME NEW r \in Requests, CreateInsert(r) PROVE Converts
  BY <1>3 DEF CreateInsert, Inv, LockDiscipline, Converts
<1>4. ASSUME NEW r \in Requests, Edits(r) \/ Running(r)
      PROVE  store' = store
  BY <1>4, EditsWrite, RunsWrite DEF Running, Inv, WritesNoOpen, WritesAll, Write
<1>5. ASSUME NEW r \in Requests,
             Load(r) \/ StartRun(r) \/ CreateLock(r) \/ CreateReturns(r)
               \/ CreateRefused(r) \/ CreateCheck(r) \/ Abort(r)
      PROVE  store' = store
  BY <1>5 DEF Load, StartRun, CreateLock, CreateReturns, CreateRefused, CreateCheck, Abort
<1>6. ASSUME NEW r \in Requests, Acts(r)
      PROVE  store' = store \/ Outcome(store, store') \/ Converts
  BY <1>2, <1>3, <1>4, <1>5, <1>6, ActsAre
<1> QED
  BY <1>1, <1>6 DEF Next, Acts

LEMMA ConvertsLawful ==
  ASSUME store \in Store, Lawful(store), Converts
  PROVE  /\ Lawful(store') /\ Agrees(store')
         /\ store'.fields = store.fields /\ store'.dups = store.dups
         /\ store'.case.date = store.case.date
<1>1. /\ store'.case.confirmed = store.case.confirmed
      /\ store'.case.policy = store.case.policy
      /\ store'.case.date = store.case.date
      /\ store'.case.status = "claim_created"
      /\ store'.matches = store.matches
      /\ store'.fields = store.fields /\ store'.dups = store.dups
  BY DEF Converts, Store, CaseRow
<1> QED
  BY <1>1 DEF Lawful, SelectedIsPolicy, HumanIsOfficers, Agrees, TerminalStatuses

(* The rows stay lawful, whatever the step.                                *)
LEMMA RowsLawful ==
  ASSUME Inv, Kept, [Next]_vars, [Fresh]_vars
  PROVE  Lawful(store')
<1>1. CASE store' = store
  BY <1>1 DEF Kept, Lawful, SelectedIsPolicy, HumanIsOfficers
<1>2. CASE Outcome(store, store')
  BY <1>2 DEF Kept, Outcome, Keeps
<1>3. CASE Converts
  BY <1>3, ConvertsLawful DEF Kept, Inv, TypeOK
<1> QED
  BY <1>1, <1>2, <1>3, StoreMoves

(* A step changes what its own request wrote, and nothing another one did. *)
LEMMA OwnStep ==
  ASSUME Inv, Kept, [Fresh]_vars, NEW r \in Requests, Acts(r),
         pc'[r] = "written"
  PROVE  Outcome(base'[r], work'[r])
<1>1. ~(Load(r) \/ StartRun(r) \/ CreateLock(r) \/ CreateCheck(r))
  BY DEF Load, StartRun, CreateLock, CreateCheck, Inv, TypeOK
<1>2. ~(CreateReturns(r) \/ CreateRefused(r) \/ CreateInsert(r) \/ Commit(r) \/ Abort(r))
  BY DEF CreateReturns, CreateRefused, CreateInsert, Commit, Abort, Forget, Inv, TypeOK
<1>3. Edits(r) \/ Running(r)
  BY <1>1, <1>2, ActsAre
<1>4. pc[r] \in {"ready", "running"}
  BY <1>3, EditsWrite, RunsWrite DEF Running, Inv
<1>5. base[r] = store
  BY <1>4 DEF Fresh, vars
<1>6. PICK flushed, w : Outcome(store, w) /\ Write(r, store, flushed, w)
  BY <1>3, <1>5, EditsOutcome, RunsOutcome DEF Running, Inv, Writes
<1> QED
  BY <1>6 DEF Write, Inv, TypeOK

LEMMA OthersStay ==
  ASSUME Inv, NEW r \in Requests, NEW q \in Requests, q # r, Acts(r)
  PROVE  pc'[q] = pc[q] /\ base'[q] = base[q] /\ work'[q] = work[q]
<1>1. CASE Load(r)
  BY <1>1 DEF Load, Inv, TypeOK
<1>2. CASE Edits(r) \/ Running(r)
  <2>1. PICK s, flushed, w : Write(r, s, flushed, w)
    BY <1>2, EditsWrite, RunsWrite DEF Running, Inv, WritesNoOpen, WritesAll
  <2> QED
    BY <2>1 DEF Write, Inv, TypeOK
<1>3. CASE StartRun(r) \/ CreateLock(r) \/ CreateCheck(r)
  BY <1>3 DEF StartRun, CreateLock, CreateCheck, Inv, TypeOK
<1>4. CASE CreateReturns(r) \/ CreateRefused(r) \/ CreateInsert(r) \/ Commit(r) \/ Abort(r)
  BY <1>4 DEF CreateReturns, CreateRefused, CreateInsert, Commit, Abort, Forget, Inv, TypeOK
<1> QED
  BY <1>1, <1>2, <1>3, <1>4, ActsAre

LEMMA NextKept ==
  Inv /\ Kept /\ [Next]_vars /\ [Fresh]_vars => Kept'
<1> SUFFICES ASSUME Inv, Kept, [Next]_vars, [Fresh]_vars PROVE Kept'
  OBVIOUS
<1>1. Lawful(store')
  BY RowsLawful
<1>2. ASSUME NEW q \in Requests, pc'[q] = "written"
      PROVE  Outcome(base'[q], work'[q])
  <2>1. CASE UNCHANGED vars
    BY <1>2, <2>1 DEF vars, Kept
  <2>2. CASE \E r \in Requests : Acts(r)
    BY <1>2, <2>2, OwnStep, OthersStay DEF Kept
  <2> QED
    BY <2>1, <2>2 DEF Next, Acts
<1> QED
  BY <1>1, <1>2
     DEF Kept, Outcome, Keeps, Lawful, SelectedIsPolicy, HumanIsOfficers,
         Follows, Agrees

LEMMA AlwaysKept == Spec /\ StaleWritesNothing => [](Inv /\ Kept)
BY InitInv, NextInv, InitKept, NextKept, PTL DEF Spec, StaleWritesNothing

(* One request under way at a time: nobody changes the rows it loaded.     *)
Own == \A r \in Requests : pc[r] # "idle" => base[r] = store

LEMMA NextOwn ==
  Inv /\ Own /\ OneAtATime /\ OneAtATime' /\ [Next]_vars => Own'
<1> SUFFICES ASSUME Inv, Own, OneAtATime, OneAtATime', [Next]_vars,
                    NEW q \in Requests, pc'[q] # "idle"
             PROVE  base'[q] = store'
  BY DEF Own
<1>1. CASE UNCHANGED vars
  BY <1>1 DEF vars, Own
<1>2. ASSUME NEW r \in Requests, Acts(r)
      PROVE  base'[q] = store'
  <2>1. CASE Load(r)
    <3>1. r = q
      BY <2>1 DEF Load, OneAtATime, Inv, TypeOK
    <3> QED
      BY <2>1, <3>1 DEF Load, Inv, TypeOK
  <2>2. CASE Edits(r) \/ Running(r)
    <3>1. PICK s, flushed, w : Write(r, s, flushed, w)
      BY <2>2, EditsWrite, RunsWrite DEF Running, Inv, WritesNoOpen, WritesAll
    <3>2. base[r] = store
      BY <2>2, EditsWrite, RunsWrite DEF Running, Inv, Own
    <3>3. \E f, v : Write(r, store, f, v)
      BY <2>2, <3>2, EditsOutcome, RunsOutcome DEF Running, Inv, Writes
    <3>4. r = q
      BY <3>1 DEF Write, OneAtATime, Inv, TypeOK
    <3> QED
      BY <3>3, <3>4 DEF Write, Inv, TypeOK
  <2>3. CASE StartRun(r) \/ CreateLock(r) \/ CreateCheck(r)
    <3>1. pc[r] # "idle" /\ pc'[r] # "idle" /\ store' = store
      BY <2>3 DEF StartRun, CreateLock, CreateCheck, Inv, TypeOK
    <3>2. r = q /\ base[r] = store
      BY <3>1 DEF OneAtATime, Own
    <3>3. base'[r] = base[r]
      BY <2>3, <3>2 DEF StartRun, CreateLock, CreateCheck, Inv, TypeOK, Store
    <3> QED
      BY <3>1, <3>2, <3>3
  <2>4. CASE CreateReturns(r) \/ CreateRefused(r) \/ CreateInsert(r) \/ Commit(r) \/ Abort(r)
    BY <2>4 DEF CreateReturns, CreateRefused, CreateInsert, Commit, Abort, Forget,
                OneAtATime, Inv, TypeOK
  <2> QED
    BY <1>2, <2>1, <2>2, <2>3, <2>4, ActsAre
<1> QED
  BY <1>1, <1>2 DEF Next, Acts

(* Requests that come one at a time never find their rows changed, so what *)
(* follows holds of them.                                                  *)
THEOREM OneAtATimeIsFresh == Spec /\ []OneAtATime => StaleWritesNothing
<1>1. Init => Own
  BY DEF Init, Own
<1>2. Own => [Fresh]_vars
  BY DEF Own, Fresh
<1> QED
  BY <1>1, <1>2, InitInv, NextInv, NextOwn, PTL DEF Spec, StaleWritesNothing

(* The policy of a confirmed notice is its one selected candidate, whatever*)
(* runs, failures and corrections follow the selection.                    *)
THEOREM SelectionCorrect == Spec /\ StaleWritesNothing => []ConfirmedIsSelected
<1>1. Kept => ConfirmedIsSelected
  BY DEF Kept, Lawful, SelectedIsPolicy, ConfirmedIsSelected
<1> QED
  BY <1>1, AlwaysKept, PTL

(* A step that opens or clears a code leaves the notice in the queue its   *)
(* codes imply, and any other moves it there or where an officer may.      *)
THEOREM QueueCorrect == Spec /\ StaleWritesNothing => QueueFollows
<1>1. Inv /\ Kept /\ [Next]_vars /\ [Fresh]_vars =>
        [store' # store =>
           \/ Agrees(store')
           \/ /\ OpenCodes(store'.exc) = OpenCodes(store.exc)
              /\ CanTransition(store.case.status, store'.case.status)]_vars
  BY StoreMoves, ConvertsLawful DEF Outcome, Follows, Kept, Inv, TypeOK
<1> QED
  BY <1>1, AlwaysKept, PTL DEF Spec, QueueFollows, StaleWritesNothing

(* Once an officer has set the loss date it is one an officer set, however *)
(* often the notice is read again.                                         *)
THEOREM HumanDateCorrect == Spec /\ StaleWritesNothing => HumanDateStands
<1>1. Inv /\ Kept /\ [Next]_vars /\ [Fresh]_vars =>
        [store.fields["date"] = "human" =>
           /\ store'.fields["date"] = "human"
           /\ store'.case.date \in OfficerDates]_vars
  <2> SUFFICES ASSUME Inv, Kept, [Next]_vars, [Fresh]_vars, store.fields["date"] = "human"
               PROVE  store'.fields["date"] = "human" /\ store'.case.date \in OfficerDates
    OBVIOUS
  <2>1. store'.fields["date"] = "human"
    BY StoreMoves, ConvertsLawful DEF Outcome, Keeps, Kept, Inv, TypeOK
  <2> QED
    BY <2>1, RowsLawful DEF Lawful, HumanIsOfficers
<1> QED
  BY <1>1, AlwaysKept, PTL DEF Spec, HumanDateStands, StaleWritesNothing

(* A decided candidate never returns to the list of those to decide.       *)
THEOREM DecisionsCorrect == Spec /\ StaleWritesNothing => DecisionsKept
<1>1. Inv /\ Kept /\ [Next]_vars /\ [Fresh]_vars =>
        [\A c \in Candidates :
           store.dups[c] \in Resolutions => store'.dups[c] \in Resolutions]_vars
  BY StoreMoves, ConvertsLawful DEF Outcome, Keeps, Kept, Inv, TypeOK
<1> QED
  BY <1>1, AlwaysKept, PTL DEF Spec, DecisionsKept, StaleWritesNothing
=============================================================================
