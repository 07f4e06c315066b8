----------------------------- MODULE Assignment -----------------------------
(***************************************************************************)
(* Claims and who handles them: the recommendation a new claim is given,   *)
(* the assignments and overrides of managers, and the stored counters of   *)
(* open claims.                                                            *)
(*                                                                         *)
(* Requests interleave.  Each loads a claim and its rows in two queries,   *)
(* writes the columns it changed, and commits once.                        *)
(***************************************************************************)
EXTENDS Triage

CONSTANTS
  Claims,       \* the claims there may be
  ClaimRow,     \* for each: severity, reserve, the engine's route and priority
  Handlers,     \* the active handlers
  HandlerRow,   \* for each: skills, max_severity, capacity, authority_limit
  Starting,     \* the open claims each has to begin with
  Requests,     \* requests in flight at a time
  Overrides,    \* the routes a manager may choose: [route, priority]
  NoRow,        \* a claim that is not committed
  NoOne,        \* no handler, no lock holder
  MaxOpen       \* bound: no more assignments are asked of a handler from here

ASSUME AssignmentAssumption ==
  /\ IsFiniteSet(Claims)
  /\ NoOne \notin Claims \cup Handlers \cup Requests
  /\ \A c \in Claims : ClaimRow[c].reserve \in Nat
  /\ \A h \in Handlers : HandlerRow[h].authority_limit \in Nat
  /\ Starting \in [Handlers -> Nat]
  /\ MaxOpen \in Nat

VARIABLES
  desk,         \* the committed rows of each claim, NoRow before
  open_claims,  \* the committed counter of each handler
  holder,       \* the request that holds the row of each handler
  req           \* each request

vars == <<desk, open_claims, holder, req>>

Statuses == {"recommended", "assigned", "unassigned"}

(* The routes and priorities an engine or a manager may give.              *)
Given == {ClaimRow[c] : c \in Claims} \cup Overrides
GivenRoutes == {g.route : g \in Given}
GivenPriorities == {g.priority : g \in Given}

(* The columns of the claim, of its triage and of its assignment row that  *)
(* these requests write.                                                   *)
Columns == [stage: {"fnol", "in_review"}, over_authority: BOOLEAN,
            priority: GivenPriorities, handler_name: Handlers \cup {NoOne},
            route: GivenRoutes, original_route: GivenRoutes \cup {"none"},
            overridden: BOOLEAN,
            handler_id: Handlers \cup {NoOne}, status: Statuses]

OfClaim == {"stage", "over_authority", "priority", "handler_name"}

ASSUME NoRowAssumption == NoRow \notin Columns

(* A request: the claim it is about, what it loaded of it, what it makes of*)
(* that, and the counter it raises with the sum it writes.                 *)
Idle == [at |-> "idle", claim |-> NoOne, base |-> NoRow, work |-> NoRow,
         counts |-> NoOne, sum |-> 0]

States == [at: {"idle", "loading", "loaded", "counting", "written"},
           claim: Claims \cup {NoOne},
           base: Columns \cup {NoRow}, work: Columns \cup {NoRow},
           counts: Handlers \cup {NoOne}, sum: Nat]

TypeOK ==
  /\ desk \in [Claims -> Columns \cup {NoRow}]
  /\ open_claims \in [Handlers -> Nat]
  /\ holder \in [Handlers -> Requests \cup {NoOne}]
  /\ req \in [Requests -> States]
  /\ \A r \in Requests, h \in Handlers :
       holder[h] = r <=> req[r].at = "written" /\ req[r].counts = h

Init ==
  /\ desk = [c \in Claims |-> NoRow]
  /\ open_claims = Starting
  /\ holder = [h \in Handlers |-> NoOne]
  /\ req = [r \in Requests |-> Idle]

-----------------------------------------------------------------------------
Goto(r, state) == req' = [req EXCEPT ![r] = state]

(* Claim creation: triage, and a handler without a blocker by the counters *)
(* as they are now, or the queue when there is none.  Which of the eligible*)
(* ones scores best is not modelled.                                       *)
Recommendable(c) ==
  {h \in Handlers :
     Eligible(HandlerRow[h], open_claims[h], ClaimRow[c].route, ClaimRow[c].severity)}

NewDesk(c, h) ==
  [stage |-> "fnol", over_authority |-> FALSE,
   priority |-> ClaimRow[c].priority, handler_name |-> NoOne,
   route |-> ClaimRow[c].route, original_route |-> "none", overridden |-> FALSE,
   handler_id |-> h, status |-> IF h = NoOne THEN "unassigned" ELSE "recommended"]

Create(r) ==
  /\ req[r].at = "idle"
  /\ \E c \in Claims :
       /\ desk[c] = NoRow
       /\ \A q \in Requests : req[q].at = "written" => req[q].claim # c
       /\ \E h \in IF Recommendable(c) = {} THEN {NoOne} ELSE Recommendable(c) :
            Goto(r, [req[r] EXCEPT !.at = "written", !.claim = c, !.work = NewDesk(c, h)])
  /\ UNCHANGED <<desk, open_claims, holder>>

(* The claim is one query, its triage and assignment rows another.         *)
LoadClaim(r) ==
  /\ req[r].at = "idle"
  /\ \E c \in Claims :
       /\ desk[c] # NoRow
       /\ Goto(r, [req[r] EXCEPT !.at = "loading", !.claim = c, !.base = desk[c]])
  /\ UNCHANGED <<desk, open_claims, holder>>

Reread(base, now) == [k \in DOMAIN base |-> IF k \in OfClaim THEN base[k] ELSE now[k]]

LoadRows(r) ==
  /\ req[r].at = "loading"
  /\ Goto(r, [req[r] EXCEPT !.at = "loaded", !.base = Reread(@, desk[req[r].claim])])
  /\ UNCHANGED <<desk, open_claims, holder>>

(* The reserve is compared with the limit when both are there; without,    *)
(* what the former handler's limit said remains.                           *)
Assigned(c, base, h) ==
  LET reserve == ClaimRow[c].reserve
      limit == HandlerRow[h].authority_limit
  IN  [base EXCEPT !.handler_id = h,
                   !.status = "assigned",
                   !.handler_name = h,
                   !.stage = "in_review",
                   !.over_authority = IF reserve > 0 /\ limit > 0
                                      THEN reserve > limit ELSE @]

(* A named handler, or the recommended one; with neither it is refused.    *)
Assign(r) ==
  /\ req[r].at = "loaded"
  /\ \E named \in Handlers \cup {NoOne} :
       LET target == IF named = NoOne THEN req[r].base.handler_id ELSE named
       IN  /\ target # NoOne
           /\ open_claims[target] < MaxOpen
           /\ Goto(r, [req[r] EXCEPT
                         !.at = "counting",
                         !.work = Assigned(req[r].claim, req[r].base, target),
                         !.counts = target])
  /\ UNCHANGED <<desk, open_claims, holder>>

(* Reads the counter and writes the sum.                                   *)
IncrementRead(r) ==                                            \* mutant
  /\ req[r].at = "counting"
  /\ Goto(r, [req[r] EXCEPT !.at = "written",
                            !.sum = open_claims[req[r].counts] + 1])
  /\ UNCHANGED <<desk, open_claims, holder>>

(* increment_workload: an UPDATE waits for the row and holds it.           *)
Increment(r) ==
  /\ req[r].at = "counting"
  /\ holder[req[r].counts] = NoOne
  /\ holder' = [holder EXCEPT ![req[r].counts] = r]
  /\ Goto(r, [req[r] EXCEPT !.at = "written",
                            !.sum = open_claims[req[r].counts] + 1])
  /\ UNCHANGED <<desk, open_claims>>

OverriddenAgain(base, o) ==                                    \* mutant
  [base EXCEPT !.original_route = base.route, !.route = o.route,
               !.overridden = TRUE, !.priority = o.priority]

Overridden(base, o) ==
  [base EXCEPT !.original_route = IF base.overridden THEN @ ELSE base.route,
               !.route = o.route,
               !.overridden = TRUE,
               !.priority = o.priority]

Override(r) ==
  /\ req[r].at = "loaded"
  /\ \E o \in Overrides :
       Goto(r, [req[r] EXCEPT !.at = "written",
                              !.work = Overridden(req[r].base, o)])
  /\ UNCHANGED <<desk, open_claims, holder>>

(* Writes whole rows.                                                      *)
MergedWhole(now, base, work) == work                           \* mutant

(* Only columns that differ from the loaded ones are written.              *)
Merged(now, base, work) ==
  IF base = NoRow THEN work
  ELSE [k \in DOMAIN now |-> IF work[k] # base[k] THEN work[k] ELSE now[k]]

Released(r) == [h \in Handlers |-> IF holder[h] = r THEN NoOne ELSE holder[h]]

Commit(r) ==
  /\ req[r].at = "written"
  /\ desk' = [desk EXCEPT ![req[r].claim] = Merged(@, req[r].base, req[r].work)]
  /\ open_claims' = [h \in Handlers |-> IF h = req[r].counts THEN req[r].sum
                                        ELSE open_claims[h]]
  /\ holder' = Released(r)
  /\ Goto(r, Idle)

(* A refusal, an error, a killed process.                                  *)
Abort(r) ==
  /\ req[r].at # "idle"
  /\ holder' = Released(r)
  /\ Goto(r, Idle)
  /\ UNCHANGED <<desk, open_claims>>

Next ==
  \E r \in Requests :
    \/ Create(r)
    \/ LoadClaim(r)
    \/ LoadRows(r)
    \/ Assign(r)
    \/ Increment(r)
    \/ Override(r)
    \/ Commit(r)
    \/ Abort(r)

Spec == Init /\ [][Next]_vars

-----------------------------------------------------------------------------
(***************************************************************************)
(* Properties.                                                             *)
(***************************************************************************)
AssignedTo(h) == {c \in Claims : /\ desk[c] # NoRow
                                 /\ desk[c].status = "assigned"
                                 /\ desk[c].handler_id = h}

(* No assignment is lost from the counter that recommendations go by,      *)
(* however many claims are assigned to a handler at once.                  *)
WorkloadCovers ==
  \A h \in Handlers : open_claims[h] >= Starting[h] + Cardinality(AssignedTo(h))

(* Through any overrides, of one another or at the same time, the original *)
(* route on file is the one the engine recommended.                        *)
OriginalIsEngines ==
  \A c \in Claims : desk[c] # NoRow /\ desk[c].overridden =>
    desk[c].original_route = ClaimRow[c].route

(* The claim names a handler, and is in review, exactly when its assignment*)
(* row is assigned, and that row has one: the two rows are loaded apart and*)
(* written by requests that do not wait for each other.                    *)
OwnedIsNamed ==
  \A c \in Claims : desk[c] # NoRow =>
    /\ desk[c].status = "assigned" <=> desk[c].handler_name # NoOne
    /\ desk[c].stage = "in_review" <=> desk[c].handler_name # NoOne
    /\ desk[c].status \in {"assigned", "recommended"} <=> desk[c].handler_id # NoOne
=============================================================================
