--------------------------- MODULE NoticeRequests ---------------------------
(***************************************************************************)
(* The requests officers make about one notice, as they reach the database.*)
(*                                                                         *)
(* A request loads the notice, works on the objects it loaded, and commits *)
(* once.  PostgreSQL runs it at READ COMMITTED with no version column:     *)
(* what it loaded may be out of date when it writes.  The only protection  *)
(* is row locks: an UPDATE holds its row to the end of the transaction, and*)
(* claim creation takes the case row with SELECT ... FOR UPDATE.           *)
(*                                                                         *)
(* The step of a request that queries and flushes is one action (it holds  *)
(* the locks of the rows it flushed from then on), the commit is another.  *)
(* A run of the pipeline locks the case row and lists the documents in one *)
(* action; its other queries are a second one, with its last flush.  Only  *)
(* what leaves the case row alone can be committed by others meanwhile:    *)
(* documents, and decisions after which the status is as it was; that one  *)
(* of these falls between two of the other queries is left out.  Share     *)
(* locks of foreign keys are too: they only take interleavings away.       *)
(***************************************************************************)
EXTENDS NoticeStore, FiniteSets

CONSTANTS
  Requests,       \* requests in flight at the same time
  Free,           \* the case row is locked by none of them
  Handlers,       \* the routes clients call
  Reprocess,      \* what clients answer to "run the pipeline after this edit?"
  Answers,        \* the loss dates the notification may be read to give
  OfficerDates,   \* the loss dates officers type
  OfficerDetails, \* what their other corrections amount to
  Targets,        \* the statuses officers ask for
  StageFailures   \* the stages after which the pipeline may raise

Routes ==
  {"process", "update_fields", "select_policy", "resolve_duplicate",
   "resolve_exception", "confirm_cat_match", "transition", "upload_document",
   "delete_document", "create_claim"}

ASSUME RequestsAssumption ==
  /\ Free \notin Requests
  /\ Handlers \subseteq Routes
  /\ Reprocess \subseteq BOOLEAN
  /\ Answers \subseteq ReadDates
  /\ Answers \cap StoredDates # {}
  /\ OfficerDates \subseteq StoredDates
  /\ OfficerDetails \subseteq Details
  /\ Targets \subseteq FNOLStatus \ {"claim_created"}
  /\ StageFailures \subseteq Stages

VARIABLES
  store,    \* the committed rows of the notice
  claims,   \* the committed claims made from it
  locker,   \* the request that holds the lock of the case row
  pc,       \* how far each request is
  base,     \* what each request has loaded
  work      \* what each request will commit in its place

vars == <<store, claims, locker, pc, base, work>>

ClaimRow == [policy: Policies, date: StoredDates, details: Details]

Places == {"idle", "ready", "running", "written", "locked", "checked"}

TypeOK ==
  /\ store \in Store
  /\ claims \subseteq ClaimRow
  /\ locker \in Requests \cup {Free}
  /\ pc \in [Requests -> Places]
  /\ base \in [Requests -> Store]
  /\ work \in [Requests -> Store]

Init ==
  /\ \E date \in Answers \cap StoredDates, details \in Details, docs \in SUBSET Docs :
       store = NewNotice(date, details, docs)
  /\ claims = {}
  /\ locker = Free
  /\ pc = [r \in Requests |-> "idle"]
  /\ base = [r \in Requests |-> Blank]
  /\ work = [r \in Requests |-> Blank]

-----------------------------------------------------------------------------
(***************************************************************************)
(* The life of a request: load, flush, commit; or roll back.               *)
(***************************************************************************)
Load(r) ==
  /\ pc[r] = "idle"
  /\ pc' = [pc EXCEPT ![r] = "ready"]
  /\ base' = [base EXCEPT ![r] = store]
  /\ UNCHANGED <<store, claims, locker, work>>

LockFree(r) == locker \in {Free, r}

ForgetLocked(r) ==                                             \* mutant
  /\ pc' = [pc EXCEPT ![r] = "idle"]
  /\ locker' = locker
  /\ base' = [base EXCEPT ![r] = Blank]
  /\ work' = [work EXCEPT ![r] = Blank]

Forget(r) ==
  /\ pc' = [pc EXCEPT ![r] = "idle"]
  /\ locker' = IF locker = r THEN Free ELSE locker
  /\ base' = [base EXCEPT ![r] = Blank]
  /\ work' = [work EXCEPT ![r] = Blank]

(* The session queries the rows as s and flushes the image `flushed`, which*)
(* waits for the case row if that changed and for the child rows another   *)
(* request has flushed; it will commit w.                                  *)
Write(r, s, flushed, w) ==
  /\ flushed.case # s.case => LockFree(r)
  /\ \A q \in Requests \ {r} :
       pc[q] = "written" => Written(base[q], work[q]) \cap Written(s, w) = {}
  /\ locker' = IF flushed.case # s.case THEN r ELSE locker
  /\ pc' = [pc EXCEPT ![r] = "written"]
  /\ base' = [base EXCEPT ![r] = s]
  /\ work' = [work EXCEPT ![r] = w]
  /\ UNCHANGED <<store, claims>>

(* A status set after the last flush waits for the case row here.          *)
Commit(r) ==
  /\ pc[r] = "written"
  /\ work[r].case # base[r].case => LockFree(r)
  /\ store' = Flush(store, base[r], work[r])
  /\ Forget(r)
  /\ UNCHANGED claims

(* A refusal, an error, a lost connection or a killed process, and the     *)
(* database ending one of two requests that wait for each other.           *)
Abort(r) ==
  /\ pc[r] # "idle"
  /\ Forget(r)
  /\ UNCHANGED <<store, claims>>

(* What most routes refuse.                                                *)
Converted(s) == s.case.status = "claim_created"

-----------------------------------------------------------------------------
(***************************************************************************)
(* Requests that do not run the pipeline.                                  *)
(***************************************************************************)
Edited(s, edit) ==
  [s EXCEPT
     !.case.date = edit.date,
     !.case.details = edit.details,
     !.fields["date"] = IF edit.date # s.case.date THEN "human" ELSE @,
     !.fields["details"] = IF edit.details # s.case.details THEN "human" ELSE @]

(* A correction leaves what it does not mention as the session sees it.    *)
Corrections(s) ==
  [date: OfficerDates \cup {s.case.date},
   details: OfficerDetails \cup {s.case.details}]

UpdateFieldsOnly(r) ==
  LET s == Seen(base[r], store) IN
  /\ "update_fields" \in Handlers
  /\ FALSE \in Reprocess
  /\ pc[r] = "ready"
  /\ ~Converted(s)
  /\ \E edit \in Corrections(s) :
       LET e == Edited(s, edit) IN
       /\ e.case # s.case
       /\ Write(r, s, e, Settle(store, s, e))

OthersUndecided(s, c) == \E x \in Candidates \ {c} : s.dups[x] = "unresolved"

(* A duplicate ends the notice; any other decision lifts the hold once no  *)
(* other candidate is left to decide.                                      *)
Decided(s, c, resolution) ==
  LET lifts == resolution # "duplicate" /\ ~OthersUndecided(s, c) IN
  [s EXCEPT
     !.dups[c] = resolution,
     !.case.status = IF resolution = "duplicate" THEN "rejected" ELSE @,
     !.exc["possible_duplicate"] = IF lifts /\ @ = "open" THEN "absent" ELSE @]

ResolveDuplicate(r) ==
  LET s == Seen(base[r], store) IN
  /\ "resolve_duplicate" \in Handlers
  /\ pc[r] = "ready"
  /\ ~Converted(s)
  /\ \E c \in Candidates, resolution \in Resolutions :
       LET d == Decided(s, c, resolution) IN
       /\ s.dups[c] # "absent"
       /\ Write(r, s, d, Settle(store, s, d))

(* This one is not refused on a converted notice.                          *)
ResolveException(r) ==
  LET s == Seen(base[r], store) IN
  /\ "resolve_exception" \in Handlers
  /\ pc[r] = "ready"
  /\ \E code \in BlockingExceptions :
       LET e == [s EXCEPT !.exc[code] = "closed"] IN
       /\ s.exc[code] = "open"
       /\ Write(r, s, e, Settle(store, s, e))

(* The attribution itself is outside the model; the status is recomputed.  *)
ConfirmCatMatch(r) ==
  LET s == Seen(base[r], store) IN
  /\ "confirm_cat_match" \in Handlers
  /\ pc[r] = "ready"
  /\ ~Converted(s)
  /\ Write(r, s, s, Settle(store, s, s))

Transition(r) ==
  LET s == Seen(base[r], store) IN
  /\ "transition" \in Handlers
  /\ pc[r] = "ready"
  /\ \E target \in Targets :
       /\ CanTransition(s.case.status, target)
       /\ Write(r, s, s, [s EXCEPT !.case.status = target])

Attached(s, d) == [s EXCEPT !.docs = s.docs \cup {d}]

Detached(s, d) == [s EXCEPT !.docs = s.docs \ {d}]

UploadOnly(r) ==
  LET s == Seen(base[r], store) IN
  /\ "upload_document" \in Handlers
  /\ FALSE \in Reprocess
  /\ pc[r] = "ready"
  /\ ~Converted(s)
  /\ \E d \in Docs : Write(r, s, Attached(s, d), Attached(s, d))

-----------------------------------------------------------------------------
(***************************************************************************)
(* Requests that run the pipeline.  Its first flush updates the case row,  *)
(* whatever the notice looks like, and then it lists the documents.  A run *)
(* either comes to its end or has a stage that raises.                     *)
(***************************************************************************)
StartRunUnlocked(r) ==                                         \* mutant
  /\ pc[r] = "ready"
  /\ pc' = [pc EXCEPT ![r] = "running"]
  /\ base' = [base EXCEPT ![r].docs = store.docs]
  /\ UNCHANGED <<store, claims, locker, work>>

StartRun(r) ==
  /\ pc[r] = "ready"
  /\ locker = Free
  /\ locker' = r
  /\ pc' = [pc EXCEPT ![r] = "running"]
  /\ base' = [base EXCEPT ![r].docs = store.docs]
  /\ UNCHANGED <<store, claims, work>>

(* What a run has before it: the documents as it listed them.              *)
SeenByRun(r) == [Seen(base[r], store) EXCEPT !.docs = base[r].docs]

RunPipeline(r, s, start, force, fails) ==
  \E reading \in [date: Answers, details: Details], found \in SUBSET Candidates :
    \E w \in IF fails
               THEN UNION {PipelineFailure(stage, start, reading, found, force) :
                             stage \in StageFailures}
               ELSE PipelineRun(store, s, start, reading, found, force) :
      Write(r, s, w, w)

(* Neither is this one.                                                    *)
Process(r, fails) ==
  LET s == SeenByRun(r) IN
  /\ "process" \in Handlers
  /\ pc[r] = "running"
  /\ \E force \in BOOLEAN : RunPipeline(r, s, s, force, fails)

UpdateFieldsAndRun(r, fails) ==
  LET s == SeenByRun(r) IN
  /\ "update_fields" \in Handlers
  /\ TRUE \in Reprocess
  /\ pc[r] = "running"
  /\ ~Converted(s)
  /\ \E edit \in Corrections(s) :
       LET e == Edited(s, edit) IN
       /\ e.case # s.case
       /\ RunPipeline(r, s, e, FALSE, fails)

(* The policy's own number, and its holder's name where none was given,    *)
(* replace what the notice said.                                           *)
Selected(s, p, details) ==
  [s EXCEPT
     !.matches = [q \in Policies |->
                    IF s.matches[q] = "absent" THEN "absent"
                    ELSE IF q = p THEN "selected" ELSE "listed"],
     !.case.policy = p,
     !.case.confirmed = TRUE,
     !.case.details = details]

AfterSelection(before, p) ==
  {d \in Details : /\ p \in Listed(d)
                   /\ before.claimable => d.claimable
                   /\ d.missing => before.missing}

SelectPolicy(r, fails) ==
  LET s == SeenByRun(r) IN
  /\ "select_policy" \in Handlers
  /\ pc[r] = "running"
  /\ ~Converted(s)
  /\ \E p \in Policies :
       /\ s.matches[p] # "absent"
       /\ \E details \in AfterSelection(s.case.details, p) :
            RunPipeline(r, s, Selected(s, p, details), FALSE, fails)

UploadAndRun(r, fails) ==
  LET s == SeenByRun(r) IN
  /\ "upload_document" \in Handlers
  /\ TRUE \in Reprocess
  /\ pc[r] = "running"
  /\ ~Converted(s)
  /\ \E d \in Docs : RunPipeline(r, s, Attached(s, d), FALSE, fails)

RemoveDocument(r, fails) ==
  LET s == SeenByRun(r) IN
  /\ "delete_document" \in Handlers
  /\ pc[r] = "running"
  /\ ~Converted(s)
  /\ \E d \in s.docs : RunPipeline(r, s, Detached(s, d), FALSE, fails)

-----------------------------------------------------------------------------
(***************************************************************************)
(* Claim creation.  The lock makes it wait; the objects it reads are those *)
(* it loaded before, except for rows selected by a query's condition.      *)
(***************************************************************************)
CreateLock(r) ==
  /\ "create_claim" \in Handlers
  /\ pc[r] = "ready"
  /\ locker = Free
  /\ locker' = r
  /\ pc' = [pc EXCEPT ![r] = "locked"]
  /\ UNCHANGED <<store, claims, base, work>>

Incomplete(case) ==
  \/ case.policy = NoPolicy
  \/ case.date = "none"
  \/ ~case.details.claimable

BlockedByLoaded(r) ==                                          \* mutant
  OpenCodes(base[r].exc) # {} \/ Incomplete(base[r].case)

(* The checklist: open blocking exceptions, policy, date, and the words a  *)
(* claim needs.                                                            *)
Blocked(r) == OpenCodes(store.exc) # {} \/ Incomplete(base[r].case)

(* A claim found is returned, and there is nothing to commit.              *)
CreateReturns(r) ==
  /\ pc[r] = "locked"
  /\ claims # {}
  /\ Forget(r)
  /\ UNCHANGED <<store, claims>>

CreateRefused(r) ==
  /\ pc[r] = "locked"
  /\ claims = {}
  /\ Converted(base[r]) \/ Blocked(r)
  /\ Forget(r)
  /\ UNCHANGED <<store, claims>>

CreateCheck(r) ==
  /\ pc[r] = "locked"
  /\ claims = {}
  /\ ~Converted(base[r])
  /\ ~Blocked(r)
  /\ pc' = [pc EXCEPT ![r] = "checked"]
  /\ UNCHANGED <<store, claims, locker, base, work>>

RowOf(case) ==
  [policy |-> case.policy, date |-> case.date, details |-> case.details]

(* Claim, link and status are one transaction, and the unique constraint on*)
(* the notice of a claim rolls a second one back.  The status of the notice*)
(* is not consulted: one the table does not let convert is moved to        *)
(* ready_for_claim first.                                                  *)
CreateInsert(r) ==
  /\ pc[r] = "checked"
  /\ claims' = IF claims = {} THEN {RowOf(base[r].case)} ELSE claims
  /\ store' = IF claims = {}
                THEN [store EXCEPT !.case.status = "claim_created", !.case.claim = TRUE]
                ELSE store
  /\ Forget(r)

-----------------------------------------------------------------------------
Edits(r) ==
  \/ UpdateFieldsOnly(r)
  \/ ResolveDuplicate(r)
  \/ ResolveException(r)
  \/ ConfirmCatMatch(r)
  \/ Transition(r)
  \/ UploadOnly(r)

Runs(r, fails) ==
  \/ Process(r, fails)
  \/ UpdateFieldsAndRun(r, fails)
  \/ SelectPolicy(r, fails)
  \/ UploadAndRun(r, fails)
  \/ RemoveDocument(r, fails)

Creates(r) ==
  \/ CreateLock(r)
  \/ CreateReturns(r)
  \/ CreateRefused(r)
  \/ CreateCheck(r)
  \/ CreateInsert(r)

Serve(r) ==
  \/ Edits(r)
  \/ StartRun(r)
  \/ Runs(r, FALSE)
  \/ Creates(r)
  \/ Commit(r)

Next ==
  \E r \in Requests :
    \/ Load(r)
    \/ Serve(r)
    \/ Runs(r, TRUE)
    \/ Abort(r)

Spec == Init /\ [][Next]_vars

(* A request waits for the case row with child rows flushed, and the one   *)
(* that has the case row runs the pipeline and cannot come to its end for  *)
(* those child rows.  The database looks for such a ring and ends one of   *)
(* the two.                                                                *)
Ring(r, q) ==
  /\ pc[r] = "running"
  /\ ~ ENABLED Runs(r, FALSE)
  /\ pc[q] = "written"
  /\ ~ ENABLED Commit(q)

DeadlockVictim(r) ==
  \E q \in Requests :
    /\ Ring(r, q)
    /\ Abort(r) \/ Abort(q)

(* The event loop resumes every request, the database hands a released row *)
(* lock to those that wait for it in turn, and ends deadlocks.  Nothing    *)
(* makes a stage raise.                                                    *)
Fairness ==
  \A r \in Requests : SF_vars(Serve(r)) /\ WF_vars(DeadlockVictim(r))

FairSpec == Spec /\ Fairness
=============================================================================
