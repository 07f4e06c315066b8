-------------------------- MODULE AssignmentProofs --------------------------
(* Theorems about assignments and overrides, for any claims, handlers and  *)
(* requests in flight.                                                     *)
EXTENDS Assignment, FiniteSetTheorems, TLAPS

-----------------------------------------------------------------------------
(* What holds of one row of a claim. *)
Named(row) ==
  /\ row.status = "assigned" <=> row.handler_name # NoOne
  /\ row.stage = "in_review" <=> row.handler_name # NoOne
  /\ row.status \in {"assigned", "recommended"} <=> row.handler_id # NoOne

OfEngine(c, row) ==
  IF row.overridden
  THEN row.original_route = ClaimRow[c].route
  ELSE row.route = ClaimRow[c].route /\ row.original_route = "none"

(* now may be what a row b became: nothing is taken back, and until it is  *)
(* assigned its handler is the recommended one.                            *)
Later(b, now) ==
  /\ b.status = "assigned" => now.status = "assigned"
  /\ b.handler_id # NoOne => now.handler_id # NoOne
  /\ b.handler_name # NoOne => now.handler_name # NoOne
  /\ b.stage = "in_review" => now.stage = "in_review"
  /\ b.overridden => now.overridden
  /\ now.status # "assigned" => now.status = b.status /\ now.handler_id = b.handler_id

Holds(row, h) == row.status = "assigned" /\ row.handler_id = h

-----------------------------------------------------------------------------
LEMMA AssignedTyped ==
  ASSUME NEW c \in Claims, NEW base \in Columns, NEW h \in Handlers
  PROVE  LET work == Assigned(c, base, h)
         IN  /\ work \in Columns
             /\ work.handler_id = h /\ work.status = "assigned" /\ work.handler_name = h
             /\ work.stage = "in_review"
             /\ work.overridden = base.overridden /\ work.route = base.route
             /\ work.original_route = base.original_route
<1> DEFINE work == Assigned(c, base, h)
<1>o. PICK over \in BOOLEAN :
        work = [base EXCEPT !.handler_id = h, !.status = "assigned", !.handler_name = h,
                            !.stage = "in_review", !.over_authority = over]
  <2>1. (ClaimRow[c].reserve > HandlerRow[h].authority_limit) \in BOOLEAN
    OBVIOUS
  <2>2. base.over_authority \in BOOLEAN
    BY DEF Columns
  <2>3. QED
    BY <2>1, <2>2 DEF Assigned
<1> HIDE DEF work
<1>1. work \in Columns
  BY <1>o DEF Columns, Statuses
<1>2. /\ work.handler_id = h /\ work.status = "assigned" /\ work.handler_name = h
      /\ work.stage = "in_review"
      /\ work.overridden = base.overridden /\ work.route = base.route
      /\ work.original_route = base.original_route
  BY <1>o DEF Columns
<1>3. QED
  BY <1>1, <1>2 DEF work

(* A row a request made of what it loaded, written column by column over   *)
(* what it has become since.                                               *)
LEMMA AssignMerges ==
  ASSUME NEW c \in Claims, NEW base \in Columns, NEW now \in Columns, NEW h \in Handlers,
         Later(base, now), OfEngine(c, now), Named(now)
  PROVE  LET m == Merged(now, base, Assigned(c, base, h))
         IN  /\ m \in Columns /\ Later(now, m) /\ Named(m) /\ OfEngine(c, m)
             /\ \A g \in Handlers : Holds(m, g) => g = h \/ Holds(now, g)
<1> DEFINE work == Assigned(c, base, h)
<1> DEFINE m == Merged(now, base, work)
<1>n. NoOne \notin Handlers /\ NoRow \notin Columns
  BY AssignmentAssumption, NoRowAssumption
<1>w. /\ work \in Columns
      /\ work.handler_id = h /\ work.status = "assigned" /\ work.handler_name = h
      /\ work.stage = "in_review"
      /\ work.overridden = base.overridden /\ work.route = base.route
      /\ work.original_route = base.original_route
  BY AssignedTyped
<1> HIDE DEF work
<1>d. /\ base # NoRow
      /\ DOMAIN now = {"stage", "over_authority", "priority", "handler_name", "route",
                       "original_route", "overridden", "handler_id", "status"}
  BY <1>n DEF Columns
<1>m. m = [k \in DOMAIN now |-> IF work[k] # base[k] THEN work[k] ELSE now[k]]
  BY <1>d DEF Merged
<1>1. m \in Columns
  BY <1>m, <1>d, <1>w DEF Columns
<1>2. /\ m.status = IF base.status # "assigned" THEN "assigned" ELSE now.status
      /\ m.handler_id = IF h # base.handler_id THEN h ELSE now.handler_id
      /\ m.handler_name = IF h # base.handler_name THEN h ELSE now.handler_name
      /\ m.stage = IF base.stage # "in_review" THEN "in_review" ELSE now.stage
      /\ m.overridden = now.overridden
      /\ m.route = now.route
      /\ m.original_route = now.original_route
  BY <1>m, <1>d, <1>w
<1> HIDE DEF m
<1>3. Later(now, m) /\ Named(m) /\ OfEngine(c, m)
  BY <1>1, <1>2, <1>n DEF Later, Named, OfEngine, Columns, Statuses
<1>4. \A g \in Handlers : Holds(m, g) => g = h \/ Holds(now, g)
  BY <1>1, <1>2, <1>n DEF Later, Named, Holds, Columns, Statuses
<1>5. QED
  BY <1>1, <1>3, <1>4 DEF work, m

LEMMA OverrideMerges ==
  ASSUME NEW c \in Claims, NEW base \in Columns, NEW now \in Columns, NEW o \in Overrides,
         Later(base, now), OfEngine(c, base), OfEngine(c, now), Named(now)
  PROVE  LET m == Merged(now, base, Overridden(base, o))
         IN  /\ m \in Columns /\ Later(now, m) /\ Named(m) /\ OfEngine(c, m)
             /\ \A g \in Handlers : Holds(m, g) => Holds(now, g)
<1> DEFINE work == Overridden(base, o)
<1> DEFINE m == Merged(now, base, work)
<1>n. NoOne \notin Handlers /\ NoRow \notin Columns
      /\ o.route \in GivenRoutes /\ o.priority \in GivenPriorities
  BY AssignmentAssumption, NoRowAssumption DEF Given, GivenRoutes, GivenPriorities
<1>w. /\ work \in Columns
      /\ work.handler_id = base.handler_id /\ work.status = base.status
      /\ work.handler_name = base.handler_name /\ work.stage = base.stage
      /\ work.overridden /\ work.route = o.route
      /\ work.original_route = IF base.overridden THEN base.original_route ELSE base.route
  BY <1>n DEF Overridden, Columns, Statuses
<1>d. /\ base # NoRow
      /\ DOMAIN now = {"stage", "over_authority", "priority", "handler_name", "route",
                       "original_route", "overridden", "handler_id", "status"}
  BY <1>n DEF Columns
<1> HIDE DEF work
<1>m. m = [k \in DOMAIN now |-> IF work[k] # base[k] THEN work[k] ELSE now[k]]
  BY <1>d DEF Merged
<1>1. m \in Columns
  BY <1>m, <1>d, <1>w DEF Columns
<1>2. /\ m.status = now.status /\ m.handler_id = now.handler_id
      /\ m.handler_name = now.handler_name /\ m.stage = now.stage
  BY <1>m, <1>d, <1>w
<1>3. m.overridden
  BY <1>m, <1>d, <1>w DEF Later, Columns
<1>4. m.original_route = IF base.overridden \/ base.route = base.original_route
                         THEN now.original_route ELSE base.route
  BY <1>m, <1>d, <1>w
<1> HIDE DEF m
<1>5. OfEngine(c, m)
  BY <1>3, <1>4 DEF Later, OfEngine
<1>6. Later(now, m) /\ Named(m)
  BY <1>2, <1>3 DEF Later, Named
<1>7. \A g \in Handlers : Holds(m, g) => Holds(now, g)
  BY <1>2 DEF Holds
<1>8. QED
  BY <1>1, <1>5, <1>6, <1>7 DEF work, m

(* What is loaded in two queries is still no later than what is there. *)
LEMMA RereadKeeps ==
  ASSUME NEW c \in Claims, NEW base \in Columns, NEW now \in Columns,
         Later(base, now), OfEngine(c, now), Named(now)
  PROVE  /\ Reread(base, now) \in Columns
         /\ Later(Reread(base, now), now) /\ OfEngine(c, Reread(base, now))
<1> DEFINE b == Reread(base, now)
<1>d. DOMAIN base = {"stage", "over_authority", "priority", "handler_name", "route",
                     "original_route", "overridden", "handler_id", "status"}
  BY DEF Columns
<1>1. b \in Columns
  BY <1>d DEF Reread, OfClaim, Columns
<1>2. /\ b.status = now.status /\ b.handler_id = now.handler_id
      /\ b.overridden = now.overridden /\ b.route = now.route
      /\ b.original_route = now.original_route
      /\ b.handler_name = base.handler_name /\ b.stage = base.stage
  BY <1>d DEF Reread, OfClaim
<1> HIDE DEF b
<1>3. QED
  BY <1>1, <1>2 DEF Later, OfEngine, b

LEMMA NewDeskRight ==
  ASSUME NEW c \in Claims, NEW h \in Handlers \cup {NoOne}
  PROVE  /\ NewDesk(c, h) \in Columns
         /\ OfEngine(c, NewDesk(c, h)) /\ Named(NewDesk(c, h))
         /\ \A g \in Handlers : ~Holds(NewDesk(c, h), g)
<1> DEFINE w == NewDesk(c, h)
<1>n. /\ NoOne \notin Handlers
      /\ ClaimRow[c].priority \in GivenPriorities /\ ClaimRow[c].route \in GivenRoutes
  BY AssignmentAssumption DEF Given, GivenRoutes, GivenPriorities
<1>s. PICK s \in {"unassigned", "recommended"} :
        /\ h = NoOne <=> s = "unassigned"
        /\ w = [stage |-> "fnol", over_authority |-> FALSE,
                priority |-> ClaimRow[c].priority, handler_name |-> NoOne,
                route |-> ClaimRow[c].route, original_route |-> "none",
                overridden |-> FALSE, handler_id |-> h, status |-> s]
  BY DEF NewDesk
<1> HIDE DEF w
<1>1. w \in Columns
  BY <1>n, <1>s DEF Columns, Statuses
<1>2. OfEngine(c, w) /\ Named(w) /\ \A g \in Handlers : ~Holds(w, g)
  BY <1>n, <1>s DEF OfEngine, Named, Holds
<1>3. QED
  BY <1>1, <1>2 DEF w

-----------------------------------------------------------------------------
(* The committed rows, the requests, and that the counters cover them. *)
DeskRight ==
  \A c \in Claims : desk[c] # NoRow => OfEngine(c, desk[c]) /\ Named(desk[c])

(* A claim being created is not there, and nobody else creates it. *)
Creating(r) ==
  /\ req[r].at = "written" /\ req[r].base = NoRow /\ req[r].counts = NoOne
  /\ desk[req[r].claim] = NoRow
  /\ \E h \in Handlers \cup {NoOne} : req[r].work = NewDesk(req[r].claim, h)
  /\ \A q \in Requests : q # r /\ req[q].at = "written" => req[q].claim # req[r].claim

Assigning(r) ==
  /\ req[r].at \in {"counting", "written"}
  /\ req[r].counts # NoOne
  /\ req[r].work = Assigned(req[r].claim, req[r].base, req[r].counts)
  /\ req[r].at = "written" => req[r].sum = open_claims[req[r].counts] + 1

Overriding(r) ==
  /\ req[r].at = "written" /\ req[r].counts = NoOne
  /\ \E o \in Overrides : req[r].work = Overridden(req[r].base, o)

Loading(r) == req[r].at \in {"loading", "loaded"} /\ req[r].counts = NoOne

Editing(r) ==
  /\ req[r].base # NoRow
  /\ desk[req[r].claim] # NoRow
  /\ Later(req[r].base, desk[req[r].claim])
  /\ req[r].at # "loading" => OfEngine(req[r].claim, req[r].base)
  /\ Loading(r) \/ Assigning(r) \/ Overriding(r)

RequestsRight ==
  \A r \in Requests :
    IF req[r].at = "idle" THEN req[r] = Idle
    ELSE req[r].claim \in Claims /\ (Creating(r) \/ Editing(r))

Inv == TypeOK /\ DeskRight /\ RequestsRight /\ WorkloadCovers

LEMMA LaterOften ==
  ASSUME NEW a, NEW b, NEW c, Later(a, b), Later(b, c)
  PROVE  Later(a, c)
BY DEF Later

LEMMA InvInit == Init => Inv
<1> SUFFICES ASSUME Init PROVE Inv
  OBVIOUS
<1>n. /\ IsFiniteSet(Claims) /\ NoOne \notin Claims \cup Handlers \cup Requests
      /\ Starting \in [Handlers -> Nat]
  BY AssignmentAssumption
<1>1. TypeOK
  BY <1>n DEF Init, TypeOK, Idle, States
<1>2. DeskRight /\ RequestsRight
  BY DEF Init, DeskRight, RequestsRight, Idle
<1>3. WorkloadCovers
  <2>1. \A h \in Handlers : AssignedTo(h) = {}
    BY DEF Init, AssignedTo
  <2>2. \A h \in Handlers : open_claims[h] = Starting[h] + Cardinality(AssignedTo(h))
    BY <1>n, <2>1, FS_EmptySet DEF Init
  <2>3. QED
    BY <1>n, <1>1, <2>1, <2>2, FS_EmptySet DEF WorkloadCovers, TypeOK
<1>4. QED
  BY <1>1, <1>2, <1>3 DEF Inv

(* A step of a request that commits nothing. *)
LEMMA NothingCommitted ==
  ASSUME Inv, NEW r \in Requests, NEW s \in States, Goto(r, s),
         UNCHANGED <<desk, open_claims>>,
         IF s.at = "idle" THEN s = Idle
         ELSE s.claim \in Claims /\ (Creating(r)' \/ Editing(r)'),
         s.at = "written" =>
           \A q \in Requests \ {r} : Creating(q) => req[q].claim # s.claim
  PROVE  DeskRight' /\ RequestsRight' /\ WorkloadCovers'
<1>1. /\ req' \in [Requests -> States] /\ req'[r] = s
      /\ \A q \in Requests \ {r} : req'[q] = req[q]
  BY DEF Inv, TypeOK, Goto
<1>2. DeskRight' /\ WorkloadCovers'
  BY DEF Inv, DeskRight, WorkloadCovers, AssignedTo
<1>3. ASSUME NEW q \in Requests, req'[q].at # "idle"
      PROVE  req'[q].claim \in Claims /\ (Creating(q)' \/ Editing(q)')
  <2>1. CASE q = r
    BY <1>1, <1>3, <2>1
  <2>2. CASE q # r
    <3>1. req'[q] = req[q] /\ req[q].claim \in Claims /\ (Creating(q) \/ Editing(q))
      BY <1>1, <1>3, <2>2 DEF Inv, RequestsRight
    <3>2. CASE Creating(q)
      BY <1>1, <2>2, <3>1, <3>2 DEF Creating
    <3>3. CASE Editing(q)
      BY <3>1, <3>3 DEF Editing, Loading, Assigning, Overriding
    <3>4. QED
      BY <3>1, <3>2, <3>3
  <2>3. QED
    BY <2>1, <2>2
<1>4. ASSUME NEW q \in Requests, req'[q].at = "idle"
      PROVE  req'[q] = Idle
  BY <1>1, <1>4 DEF Inv, RequestsRight
<1>5. QED
  BY <1>2, <1>3, <1>4 DEF RequestsRight

(* A claim one request creates is not a claim another edits. *)
LEMMA EditedExists ==
  ASSUME NEW r \in Requests, NEW q \in Requests, Editing(r), Creating(q)
  PROVE  req[q].claim # req[r].claim
BY DEF Editing, Creating

(* What is loaded or written of an existing claim has the columns of one. *)
LEMMA Typed ==
  ASSUME TypeOK, NEW r \in Requests, req[r].at # "idle", RequestsRight
  PROVE  /\ req[r] \in States /\ req[r].claim \in Claims
         /\ Editing(r) => /\ req[r].base \in Columns
                          /\ desk[req[r].claim] \in Columns
BY DEF TypeOK, RequestsRight, States, Editing

(* Each action keeps the invariant. *)
LEMMA CreatePreserves ==
  ASSUME Inv, NEW r \in Requests, Create(r)
  PROVE  Inv'
<1>1. PICK c \in Claims, h \in Handlers \cup {NoOne} :
        /\ desk[c] = NoRow
        /\ \A q \in Requests : req[q].at = "written" => req[q].claim # c
        /\ Goto(r, [req[r] EXCEPT !.at = "written", !.claim = c, !.work = NewDesk(c, h)])
  BY DEF Create, Recommendable
<1>2. req[r] = Idle /\ UNCHANGED <<desk, open_claims, holder>>
  BY DEF Create, Inv, RequestsRight
<1> DEFINE s == [req[r] EXCEPT !.at = "written", !.claim = c, !.work = NewDesk(c, h)]
<1>3. /\ s \in States /\ s.at = "written" /\ s.claim = c /\ s.work = NewDesk(c, h)
      /\ s.base = NoRow /\ s.counts = NoOne
  <2>1. req[r] \in States /\ NewDesk(c, h) \in Columns
    BY NewDeskRight DEF Inv, TypeOK
  <2>2. req[r].base = NoRow /\ req[r].counts = NoOne
    BY <1>2 DEF Idle
  <2>3. QED
    BY <2>1, <2>2 DEF States
<1> HIDE DEF s
<1>4. Goto(r, s)
  BY <1>1 DEF s
<1>5. /\ req' \in [Requests -> States] /\ req'[r] = s
      /\ \A q \in Requests \ {r} : req'[q] = req[q]
  BY <1>3, <1>4 DEF Inv, TypeOK, Goto
<1>6. Creating(r)'
  BY <1>1, <1>2, <1>3, <1>5 DEF Creating
<1>7. DeskRight' /\ RequestsRight' /\ WorkloadCovers'
  BY <1>1, <1>2, <1>3, <1>4, <1>5, <1>6, NothingCommitted DEF Creating
<1>8. TypeOK'
  BY <1>2, <1>3, <1>5, AssignmentAssumption DEF Inv, TypeOK, Idle
<1>9. QED
  BY <1>7, <1>8 DEF Inv

LEMMA LoadClaimPreserves ==
  ASSUME Inv, NEW r \in Requests, LoadClaim(r)
  PROVE  Inv'
<1>1. PICK c \in Claims :
        /\ desk[c] # NoRow
        /\ Goto(r, [req[r] EXCEPT !.at = "loading", !.claim = c, !.base = desk[c]])
  BY DEF LoadClaim
<1>2. req[r] = Idle /\ UNCHANGED <<desk, open_claims, holder>>
  BY DEF LoadClaim, Inv, RequestsRight
<1> DEFINE s == [req[r] EXCEPT !.at = "loading", !.claim = c, !.base = desk[c]]
<1>3. /\ s \in States /\ s.at = "loading" /\ s.claim = c /\ s.base = desk[c]
      /\ s.counts = NoOne
  <2>1. req[r] \in States /\ desk[c] \in Columns
    BY <1>1 DEF Inv, TypeOK
  <2>2. req[r].counts = NoOne
    BY <1>2 DEF Idle
  <2>3. QED
    BY <2>1, <2>2 DEF States
<1> HIDE DEF s
<1>4. Goto(r, s)
  BY <1>1 DEF s
<1>5. /\ req' \in [Requests -> States] /\ req'[r] = s
      /\ \A q \in Requests \ {r} : req'[q] = req[q]
  BY <1>3, <1>4 DEF Inv, TypeOK, Goto
<1>6. Editing(r)'
  BY <1>1, <1>2, <1>3, <1>5 DEF Editing, Loading, Later
<1>7. DeskRight' /\ RequestsRight' /\ WorkloadCovers'
  BY <1>2, <1>3, <1>4, <1>5, <1>6, NothingCommitted
<1>8. TypeOK'
  BY <1>2, <1>3, <1>5, AssignmentAssumption DEF Inv, TypeOK, Idle
<1>9. QED
  BY <1>7, <1>8 DEF Inv

LEMMA LoadRowsPreserves ==
  ASSUME Inv, NEW r \in Requests, LoadRows(r)
  PROVE  Inv'
<1> DEFINE c == req[r].claim
<1> DEFINE b == Reread(req[r].base, desk[c])
<1> DEFINE s == [req[r] EXCEPT !.at = "loaded", !.base = b]
<1>1. /\ req[r].at = "loading" /\ Goto(r, s) /\ UNCHANGED <<desk, open_claims, holder>>
  BY DEF LoadRows
<1>2. /\ c \in Claims /\ req[r].counts = NoOne /\ desk[c] # NoRow
      /\ req[r].base \in Columns /\ desk[c] \in Columns /\ req[r] \in States
      /\ Later(req[r].base, desk[c]) /\ OfEngine(c, desk[c]) /\ Named(desk[c])
  <2>1. Editing(r) /\ c \in Claims /\ Loading(r)
    BY <1>1 DEF Inv, RequestsRight, Creating, Editing, Assigning, Overriding, Loading
  <2>2. QED
    BY <1>1, <2>1, Typed DEF Inv, Editing, Loading, DeskRight
<1>3. b \in Columns /\ Later(b, desk[c]) /\ OfEngine(c, b)
  BY <1>2, RereadKeeps
<1>4. /\ s \in States /\ s.at = "loaded" /\ s.claim = c /\ s.base = b
      /\ s.counts = NoOne
  BY <1>2, <1>3 DEF States
<1> HIDE DEF s, b
<1>5. /\ req' \in [Requests -> States] /\ req'[r] = s
      /\ \A q \in Requests \ {r} : req'[q] = req[q]
  BY <1>1, <1>4 DEF Inv, TypeOK, Goto
<1>6. Editing(r)'
  BY <1>1, <1>2, <1>3, <1>4, <1>5, NoRowAssumption DEF Editing, Loading
<1>7. DeskRight' /\ RequestsRight' /\ WorkloadCovers'
  BY <1>1, <1>2, <1>4, <1>5, <1>6, NothingCommitted
<1>8. TypeOK'
  BY <1>1, <1>2, <1>4, <1>5, AssignmentAssumption DEF Inv, TypeOK
<1>9. QED
  BY <1>7, <1>8 DEF Inv

LEMMA AssignPreserves ==
  ASSUME Inv, NEW r \in Requests, Assign(r)
  PROVE  Inv'
<1> DEFINE c == req[r].claim
<1>1. /\ req[r].at = "loaded" /\ UNCHANGED <<desk, open_claims, holder>>
  BY DEF Assign
<1>2. /\ c \in Claims /\ Editing(r) /\ req[r] \in States /\ req[r].base \in Columns
      /\ desk[c] \in Columns
  BY <1>1, Typed DEF Inv, RequestsRight, Creating
<1>3. PICK h \in Handlers :
        Goto(r, [req[r] EXCEPT !.at = "counting",
                               !.work = Assigned(c, req[r].base, h), !.counts = h])
  BY <1>2 DEF Assign, Columns
<1> DEFINE s == [req[r] EXCEPT !.at = "counting",
                               !.work = Assigned(c, req[r].base, h), !.counts = h]
<1>a. Assigned(c, req[r].base, h) \in Columns
  BY <1>2, AssignedTyped
<1>4. /\ s \in States /\ s.at = "counting" /\ s.claim = c /\ s.base = req[r].base
      /\ s.counts = h /\ s.work = Assigned(c, req[r].base, h)
  BY <1>2, <1>a DEF States
<1> HIDE DEF s
<1>5. Goto(r, s)
  BY <1>3 DEF s
<1>6. /\ req' \in [Requests -> States] /\ req'[r] = s
      /\ \A q \in Requests \ {r} : req'[q] = req[q]
  BY <1>4, <1>5 DEF Inv, TypeOK, Goto
<1>7. Editing(r)'
  BY <1>1, <1>2, <1>4, <1>6, AssignmentAssumption DEF Editing, Assigning
<1>8. DeskRight' /\ RequestsRight' /\ WorkloadCovers'
  BY <1>1, <1>2, <1>4, <1>5, <1>6, <1>7, NothingCommitted
<1>9. TypeOK'
  BY <1>1, <1>4, <1>6, AssignmentAssumption DEF Inv, TypeOK
<1>10. QED
  BY <1>8, <1>9 DEF Inv

LEMMA IncrementPreserves ==
  ASSUME Inv, NEW r \in Requests, Increment(r)
  PROVE  Inv'
<1> DEFINE c == req[r].claim
<1> DEFINE h == req[r].counts
<1> DEFINE s == [req[r] EXCEPT !.at = "written", !.sum = open_claims[h] + 1]
<1>1. /\ req[r].at = "counting" /\ UNCHANGED <<desk, open_claims>>
      /\ holder[h] = NoOne /\ holder' = [holder EXCEPT ![h] = r] /\ Goto(r, s)
  BY DEF Increment
<1>2. /\ c \in Claims /\ Editing(r) /\ Assigning(r) /\ req[r] \in States
      /\ h \in Handlers /\ desk[c] # NoRow /\ open_claims[h] \in Nat
  BY <1>1, Typed
  DEF Inv, TypeOK, RequestsRight, Creating, Editing, Loading, Assigning, Overriding, States
<1>4. /\ s \in States /\ s.at = "written" /\ s.claim = c /\ s.base = req[r].base
      /\ s.counts = h /\ s.work = req[r].work /\ s.sum = open_claims[h] + 1
  <2>1. open_claims[h] + 1 \in Nat
    BY <1>2
  <2>2. QED
    BY <1>2, <2>1 DEF States
<1> HIDE DEF s
<1>6. /\ req' \in [Requests -> States] /\ req'[r] = s
      /\ \A q \in Requests \ {r} : req'[q] = req[q]
  BY <1>1, <1>4 DEF Inv, TypeOK, Goto
<1>7. Editing(r)'
  BY <1>1, <1>2, <1>4, <1>6 DEF Editing, Assigning
<1>8. DeskRight' /\ RequestsRight' /\ WorkloadCovers'
  BY <1>1, <1>2, <1>4, <1>6, <1>7, NothingCommitted, EditedExists
<1>9. TypeOK'
  <2>1. holder' \in [Handlers -> Requests \cup {NoOne}]
    BY <1>1, <1>2 DEF Inv, TypeOK
  <2>2. ASSUME NEW q \in Requests, NEW g \in Handlers
        PROVE  holder'[g] = q <=> req'[q].at = "written" /\ req'[q].counts = g
    BY <1>1, <1>2, <1>4, <1>6, AssignmentAssumption DEF Inv, TypeOK
  <2>3. QED
    BY <1>1, <1>6, <2>1, <2>2 DEF Inv, TypeOK
<1>10. QED
  BY <1>8, <1>9 DEF Inv

LEMMA OverridePreserves ==
  ASSUME Inv, NEW r \in Requests, Override(r)
  PROVE  Inv'
<1> DEFINE c == req[r].claim
<1>1. /\ req[r].at = "loaded" /\ UNCHANGED <<desk, open_claims, holder>>
  BY DEF Override
<1>2. /\ c \in Claims /\ Editing(r) /\ Loading(r) /\ req[r] \in States
      /\ req[r].base \in Columns
  BY <1>1, Typed DEF Inv, RequestsRight, Creating, Editing, Loading, Assigning, Overriding
<1>3. PICK o \in Overrides :
        Goto(r, [req[r] EXCEPT !.at = "written", !.work = Overridden(req[r].base, o)])
  BY DEF Override
<1> DEFINE s == [req[r] EXCEPT !.at = "written", !.work = Overridden(req[r].base, o)]
<1>a. Overridden(req[r].base, o) \in Columns
  BY <1>2 DEF Overridden, Columns, Given, GivenRoutes, GivenPriorities
<1>4. /\ s \in States /\ s.at = "written" /\ s.claim = c /\ s.base = req[r].base
      /\ s.counts = NoOne /\ s.work = Overridden(req[r].base, o)
  BY <1>2, <1>a DEF States, Loading
<1> HIDE DEF s
<1>5. Goto(r, s)
  BY <1>3 DEF s
<1>6. /\ req' \in [Requests -> States] /\ req'[r] = s
      /\ \A q \in Requests \ {r} : req'[q] = req[q]
  BY <1>4, <1>5 DEF Inv, TypeOK, Goto
<1>7. Editing(r)'
  BY <1>1, <1>2, <1>4, <1>6 DEF Editing, Overriding
<1>8. DeskRight' /\ RequestsRight' /\ WorkloadCovers'
  BY <1>1, <1>2, <1>4, <1>5, <1>6, <1>7, NothingCommitted, EditedExists
<1>9. TypeOK'
  BY <1>1, <1>2, <1>4, <1>6, AssignmentAssumption DEF Inv, TypeOK
<1>10. QED
  BY <1>8, <1>9 DEF Inv

LEMMA AbortPreserves ==
  ASSUME Inv, NEW r \in Requests, Abort(r)
  PROVE  Inv'
<1>1. /\ UNCHANGED <<desk, open_claims>> /\ holder' = Released(r) /\ Goto(r, Idle)
  BY DEF Abort
<1>2. Idle \in States /\ Idle.at = "idle" /\ Idle.counts = NoOne
  BY DEF Idle, States
<1>3. /\ req' \in [Requests -> States] /\ req'[r] = Idle
      /\ \A q \in Requests \ {r} : req'[q] = req[q]
  BY <1>1, <1>2 DEF Inv, TypeOK, Goto
<1>4. DeskRight' /\ RequestsRight' /\ WorkloadCovers'
  BY <1>1, <1>2, NothingCommitted
<1>5. TypeOK'
  BY <1>1, <1>2, <1>3, AssignmentAssumption DEF Inv, TypeOK, Released
<1>6. QED
  BY <1>4, <1>5 DEF Inv

(* The row a commit leaves, whatever the request made of it. *)
RowLeft(r) == Merged(desk[req[r].claim], req[r].base, req[r].work)

LEMMA RowLeftRight ==
  ASSUME Inv, NEW r \in Requests, req[r].at = "written"
  PROVE  LET c == req[r].claim
             m == RowLeft(r)
         IN  /\ c \in Claims /\ m \in Columns /\ OfEngine(c, m) /\ Named(m)
             /\ Creating(r) \/ (desk[c] # NoRow /\ Later(desk[c], m))
             /\ \A g \in Handlers :
                  Holds(m, g) => g = req[r].counts \/ (desk[c] # NoRow /\ Holds(desk[c], g))
             /\ req[r].counts \in Handlers \cup {NoOne}
             /\ req[r].counts # NoOne => req[r].sum = open_claims[req[r].counts] + 1
<1> DEFINE c == req[r].claim
<1> DEFINE m == RowLeft(r)
<1>1. c \in Claims /\ req[r] \in States /\ req[r].counts \in Handlers \cup {NoOne}
      /\ (Creating(r) \/ Editing(r))
  BY Typed DEF Inv, TypeOK, RequestsRight, States
<1>2. CASE Creating(r)
  <2>1. PICK h \in Handlers \cup {NoOne} : m = NewDesk(c, h)
    BY <1>2 DEF Creating, RowLeft, Merged
  <2>2. QED
    BY <1>1, <1>2, <2>1, NewDeskRight DEF Creating
<1>3. CASE Editing(r)
  <2>1. /\ req[r].base \in Columns /\ desk[c] \in Columns /\ desk[c] # NoRow
        /\ Later(req[r].base, desk[c]) /\ OfEngine(c, req[r].base)
        /\ OfEngine(c, desk[c]) /\ Named(desk[c])
    BY <1>1, <1>3, Typed DEF Inv, DeskRight, Editing
  <2>2. CASE Assigning(r)
    <3>1. /\ req[r].counts \in Handlers
          /\ m = Merged(desk[c], req[r].base, Assigned(c, req[r].base, req[r].counts))
      BY <1>1, <2>2 DEF Assigning, RowLeft
    <3>2. QED
      BY <1>1, <2>1, <2>2, <3>1, AssignMerges DEF Assigning
  <2>3. CASE Overriding(r)
    <3>1. PICK o \in Overrides : m = Merged(desk[c], req[r].base, Overridden(req[r].base, o))
      BY <2>3 DEF Overriding, RowLeft
    <3>2. QED
      BY <1>1, <2>1, <2>3, <3>1, OverrideMerges DEF Overriding
  <2>4. QED
    BY <1>3, <2>2, <2>3 DEF Editing, Loading
<1>4. QED
  BY <1>1, <1>2, <1>3

LEMMA CommitPreserves ==
  ASSUME Inv, NEW r \in Requests, Commit(r)
  PROVE  Inv'
<1> DEFINE c == req[r].claim
<1> DEFINE h == req[r].counts
<1> DEFINE m == RowLeft(r)
<1>1. /\ req[r].at = "written"
      /\ desk' = [desk EXCEPT ![c] = m]
      /\ open_claims' = [g \in Handlers |-> IF g = h THEN req[r].sum ELSE open_claims[g]]
      /\ holder' = Released(r) /\ Goto(r, Idle)
  BY DEF Commit, RowLeft
<1>2. /\ c \in Claims /\ m \in Columns /\ OfEngine(c, m) /\ Named(m)
      /\ Creating(r) \/ (desk[c] # NoRow /\ Later(desk[c], m))
      /\ \A g \in Handlers : Holds(m, g) => g = h \/ (desk[c] # NoRow /\ Holds(desk[c], g))
      /\ h \in Handlers \cup {NoOne}
      /\ h # NoOne => req[r].sum = open_claims[h] + 1
  BY <1>1, RowLeftRight
<1> HIDE DEF m
<1>3. /\ desk \in [Claims -> Columns \cup {NoRow}] /\ desk' \in [Claims -> Columns \cup {NoRow}]
      /\ desk'[c] = m /\ m # NoRow
      /\ \A d \in Claims \ {c} : desk'[d] = desk[d]
  BY <1>1, <1>2, NoRowAssumption DEF Inv, TypeOK
<1>4. /\ req' \in [Requests -> States] /\ req'[r] = Idle
      /\ \A q \in Requests \ {r} : req'[q] = req[q]
      /\ Idle.at = "idle" /\ Idle.counts = NoOne
  BY <1>1 DEF Inv, TypeOK, Goto, Idle, States
<1>5. /\ open_claims' \in [Handlers -> Nat]
      /\ \A g \in Handlers : open_claims'[g] = IF g = h THEN open_claims[g] + 1
                                              ELSE open_claims[g]
  BY <1>1, <1>2, AssignmentAssumption DEF Inv, TypeOK
<1>6. TypeOK'
  <2>1. holder' \in [Handlers -> Requests \cup {NoOne}]
    BY <1>1 DEF Inv, TypeOK, Released
  <2>2. ASSUME NEW q \in Requests, NEW g \in Handlers
        PROVE  holder'[g] = q <=> req'[q].at = "written" /\ req'[q].counts = g
    BY <1>1, <1>4, AssignmentAssumption DEF Inv, TypeOK, Released
  <2>3. QED
    BY <1>3, <1>4, <1>5, <2>1, <2>2 DEF TypeOK
<1>7. DeskRight'
  BY <1>2, <1>3 DEF Inv, DeskRight
<1>8. RequestsRight'
  <2>1. ASSUME NEW q \in Requests, req'[q].at # "idle"
        PROVE  req'[q].claim \in Claims /\ (Creating(q)' \/ Editing(q)')
    <3>1. /\ q # r /\ req'[q] = req[q] /\ req[q].claim \in Claims
          /\ Creating(q) \/ Editing(q)
      BY <1>4, <2>1 DEF Inv, RequestsRight
    <3>2. CASE Creating(q)
      <4>1. req[q].claim # c
        BY <1>1, <1>2, <3>1, <3>2 DEF Creating
      <4>2. QED
        BY <1>3, <1>4, <3>1, <3>2, <4>1 DEF Creating
    <3>3. CASE Editing(q)
      <4>1. desk'[req[q].claim] # NoRow /\ Later(req[q].base, desk'[req[q].claim])
        <5>1. CASE req[q].claim = c
          BY <1>2, <1>3, <3>3, <5>1, LaterOften DEF Editing, Creating
        <5>2. CASE req[q].claim # c
          BY <1>3, <3>1, <3>3, <5>2 DEF Editing
        <5>3. QED
          BY <5>1, <5>2
      <4>2. Assigning(q) => Assigning(q)'
        <5>1. ASSUME req[q].at = "written", req[q].counts # NoOne
              PROVE  req[q].counts \in Handlers /\ req[q].counts # h
          BY <1>1, <5>1, <3>1 DEF Inv, TypeOK, States
        <5>2. QED
          BY <1>5, <3>1, <5>1 DEF Assigning
      <4>3. QED
        BY <3>1, <3>3, <4>1, <4>2 DEF Editing, Loading, Overriding
    <3>4. QED
      BY <3>1, <3>2, <3>3
  <2>2. ASSUME NEW q \in Requests, req'[q].at = "idle"
        PROVE  req'[q] = Idle
    BY <1>4, <2>2 DEF Inv, RequestsRight
  <2>3. QED
    BY <2>1, <2>2 DEF RequestsRight
<1>9. WorkloadCovers'
  <2> SUFFICES ASSUME NEW g \in Handlers
               PROVE  open_claims'[g] >= Starting[g] + Cardinality(AssignedTo(g)')
    BY DEF WorkloadCovers
  <2>1. /\ open_claims[g] \in Nat /\ Starting[g] \in Nat
        /\ open_claims[g] >= Starting[g] + Cardinality(AssignedTo(g))
    BY AssignmentAssumption DEF Inv, TypeOK, WorkloadCovers
  <2>2. /\ IsFiniteSet(AssignedTo(g)) /\ IsFiniteSet(AssignedTo(g)')
        /\ Cardinality(AssignedTo(g)) \in Nat /\ Cardinality(AssignedTo(g)') \in Nat
    BY AssignmentAssumption, FS_Subset, FS_CardinalityType DEF AssignedTo
  <2>3. CASE g = h
    <3>1. AssignedTo(g)' \subseteq AssignedTo(g) \cup {c}
      BY <1>3 DEF AssignedTo
    <3>2. /\ IsFiniteSet(AssignedTo(g) \cup {c})
          /\ Cardinality(AssignedTo(g) \cup {c}) <= Cardinality(AssignedTo(g)) + 1
          /\ Cardinality(AssignedTo(g) \cup {c}) \in Nat
      <4>1. /\ IsFiniteSet(AssignedTo(g) \cup {c})
            /\ \/ Cardinality(AssignedTo(g) \cup {c}) = Cardinality(AssignedTo(g))
               \/ Cardinality(AssignedTo(g) \cup {c}) = Cardinality(AssignedTo(g)) + 1
        BY <2>2, FS_AddElement
      <4>2. QED
        BY <2>2, <4>1
    <3>3. Cardinality(AssignedTo(g)') <= Cardinality(AssignedTo(g) \cup {c})
      BY <3>1, <3>2, FS_Subset
    <3>4. QED
      BY <1>5, <2>1, <2>2, <2>3, <3>2, <3>3
  <2>4. CASE g # h
    <3>1. AssignedTo(g)' \subseteq AssignedTo(g)
      BY <1>2, <1>3, <2>4 DEF AssignedTo, Holds
    <3>2. Cardinality(AssignedTo(g)') <= Cardinality(AssignedTo(g))
      BY <2>2, <3>1, FS_Subset
    <3>3. QED
      BY <1>5, <2>1, <2>2, <2>4, <3>2
  <2>5. QED
    BY <2>3, <2>4
<1>10. QED
  BY <1>6, <1>7, <1>8, <1>9 DEF Inv

-----------------------------------------------------------------------------
LEMMA InvNext == Inv /\ [Next]_vars => Inv'
<1> SUFFICES ASSUME Inv, [Next]_vars PROVE Inv'
  OBVIOUS
<1>1. ASSUME NEW r \in Requests,
             \/ Create(r) \/ LoadClaim(r) \/ LoadRows(r) \/ Assign(r)
             \/ Increment(r) \/ Override(r) \/ Commit(r) \/ Abort(r)
      PROVE  Inv'
  BY <1>1, CreatePreserves, LoadClaimPreserves, LoadRowsPreserves, AssignPreserves,
     IncrementPreserves, OverridePreserves, CommitPreserves, AbortPreserves
<1>2. CASE UNCHANGED vars
  <2>1. /\ desk' = desk /\ open_claims' = open_claims
        /\ holder' = holder /\ req' = req
    BY <1>2 DEF vars
  <2>2. TypeOK' /\ DeskRight'
    BY <2>1 DEF Inv, TypeOK, DeskRight
  <2>3. WorkloadCovers'
    BY <2>1 DEF Inv, WorkloadCovers, AssignedTo
  <2>4. \A r : (Creating(r)' <=> Creating(r)) /\ (Editing(r)' <=> Editing(r))
    BY <2>1 DEF Creating, Editing, Loading, Assigning, Overriding
  <2>5. RequestsRight'
    BY <2>1, <2>4 DEF Inv, RequestsRight
  <2>6. QED
    BY <2>2, <2>3, <2>5 DEF Inv
<1>3. QED
  BY <1>1, <1>2 DEF Next

(* What the four theorems below rest on: the rows, the requests in flight  *)
(* and the counters, of assign, override and claim creation.               *)
THEOREM InvAlways == Spec => []Inv
BY InvInit, InvNext, PTL DEF Spec

(* The type invariant: whoever raised a counter holds its row until the    *)
(* request ends.                                                           *)
THEOREM TypeCorrect == Spec => []TypeOK
<1>1. Inv => TypeOK
  BY DEF Inv
<1>2. QED
  BY <1>1, InvAlways, PTL

(* No assignment is lost from a handler's counter (increment_workload), for*)
(* any number of managers who assign at once.                              *)
THEOREM WorkloadCorrect == Spec => []WorkloadCovers
<1>1. Inv => WorkloadCovers
  BY DEF Inv
<1>2. QED
  BY <1>1, InvAlways, PTL

(* The original route on file is the engine's, through any overrides.      *)
THEOREM OriginalCorrect == Spec => []OriginalIsEngines
<1>1. Inv => OriginalIsEngines
  BY DEF Inv, TypeOK, DeskRight, OfEngine, OriginalIsEngines
<1>2. QED
  BY <1>1, InvAlways, PTL

(* The claim names a handler exactly when its assignment row is assigned.  *)
THEOREM OwnedCorrect == Spec => []OwnedIsNamed
<1>1. Inv => OwnedIsNamed
  BY DEF Inv, DeskRight, Named, OwnedIsNamed
<1>2. QED
  BY <1>1, InvAlways, PTL
=============================================================================
