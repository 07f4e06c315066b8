-------------------------- MODULE NoticeProperties --------------------------
(***************************************************************************)
(* What the requests of NoticeRequests keep true of a notice.  Some hold   *)
(* for any number of requests in flight; the others hold when requests     *)
(* come one at a time, and the runs with two requests show what breaks.    *)
(***************************************************************************)
EXTENDS NoticeRequests

Promise ==
  INSTANCE ClaimPromise WITH
    Rows   <- {row \in ClaimRow : row.date # "none" /\ row.details.claimable},
    Codes  <- BlockingExceptions,
    linked <- store.case.claim,
    open   <- OpenCodes(store.exc)

(* The requests implement the promise of claim creation: refused while a   *)
(* blocking code is open, made at most once, claim and link in one step.   *)
ClaimPromised == Promise!Spec

(* Between finding no claim and inserting one, no claim can appear: the    *)
(* lock makes a retried request return the first claim, and it never meets *)
(* the unique constraint.                                                  *)
NoSecondClaim == \A r \in Requests : pc[r] = "checked" => claims = {}

(* The case row has one holder, and whoever runs the pipeline or is making *)
(* a claim is that holder; a request with no lock flushes no opened code,  *)
(* and none flushes the link to a claim.  This is what the promise of claim*)
(* creation rests on.                                                      *)
LockDiscipline ==
  /\ store.case.claim <=> claims # {}
  /\ \A r \in Requests :
       /\ pc[r] \in {"running", "locked", "checked"} => locker = r
       /\ pc[r] = "written" =>
            /\ work[r].case.claim = base[r].case.claim
            /\ locker = r \/ OpenCodes(work[r].exc) \subseteq OpenCodes(base[r].exc)
       /\ pc[r] = "checked" =>
            /\ claims = {}
            /\ ~Blocked(r)

(* A claim is made from the notice as it is committed, not as it was.      *)
ClaimIsCopy ==
  [][claims' # claims =>
       claims' = {[policy  |-> store.case.policy, date |-> store.case.date,
                   details |-> store.case.details]}]_vars

(* A notice that became a claim leaves conversion in two ways only: a run  *)
(* on it has a stage that raises, or a request that loaded it before it was*)
(* converted commits after.  An edit or a run that started afterwards and  *)
(* came to its end never undoes it.                                        *)
ConversionStands ==
  [][(/\ store.case.status = "claim_created"
      /\ store'.case.status # "claim_created")
     => \E r \in Requests :
          /\ pc[r] = "written"
          /\ pc'[r] = "idle"
          /\ \/ work[r].case.status = "ai_processing_failed"
             \/ ~Converted(base[r])]_vars

(* Once an officer has set the loss date, the date on the notice is one an *)
(* officer set, however often the notice is read again.                    *)
HumanDateStands ==
  [][store.fields["date"] = "human" =>
       /\ store'.fields["date"] = "human"
       /\ store'.case.date \in OfficerDates]_vars

(* A decided candidate never returns to the list of those to decide.       *)
DecisionsKept ==
  [][\A c \in Candidates :
       store.dups[c] \in Resolutions => store'.dups[c] \in Resolutions]_vars

(* A confirmed policy is the one selected candidate, and it is still listed*)
ConfirmedIsSelected ==
  store.case.confirmed =>
    {p \in Policies : store.matches[p] = "selected"} = {store.case.policy}

(* The statuses the open codes do not decide, and the one they imply.      *)
Agrees(s) ==
  \/ s.case.status \in TerminalStatuses \cup {"referred", "ai_processing_failed"}
  \/ s.case.status = ImpliedStatus(OpenCodes(s.exc))

(* lifecycle.py:186: "the queue reflects the current findings rather than  *)
(* the findings that happened to be true when a service last ran".  A step *)
(* that opens or clears a code leaves the notice in the queue its codes    *)
(* imply, unless it is parked, over or failed; one that does not may only  *)
(* go there or where the table of moves lets an officer send it.           *)
QueueFollows ==
  [][store' # store =>
       \/ Agrees(store')
       \/ /\ OpenCodes(store'.exc) = OpenCodes(store.exc)
          /\ CanTransition(store.case.status, store'.case.status)]_vars

(* Every request that loaded the notice comes to an end: none waits for a  *)
(* row lock for ever.                                                      *)
EveryRequestEnds ==
  \A r \in Requests : pc[r] # "idle" ~> pc[r] = "idle"
=============================================================================
