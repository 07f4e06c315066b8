------------------------------- MODULE Intake -------------------------------
(***************************************************************************)
(* Deliveries of notifications: a client that retries, a mailbox that      *)
(* delivers a message again, two servers that take them at the same time.  *)
(*                                                                         *)
(* A delivery looks for the notice its key has made already, takes the next*)
(* reference from the counter row of the year, inserts the notice, and     *)
(* commits at the end of the request.  PostgreSQL runs it at READ COMMITTED*)
(* and holds the counter row and the entries of the unique indexes to the  *)
(* end of the transaction: what another delivery has not committed cannot  *)
(* be read, but it can be waited for.                                      *)
(***************************************************************************)
EXTENDS Naturals, FiniteSets

CONSTANTS
  Deliveries,  \* deliveries in flight at the same time
  Free,        \* a counter row is locked by none of them
  Keys,        \* idempotency keys and message ids
  NoKey,       \* the key of a notification that carries neither
  Counters,    \* the counter row of each year
  Absent,      \* a counter row that nobody has made yet
  MaxKeyless   \* bound: how many notices without a key are logged

ASSUME IntakeAssumption ==
  /\ Free \notin Deliveries
  /\ NoKey \notin Keys
  /\ Absent \notin Nat
  /\ MaxKeyless \in Nat
  /\ Counters # {}

VARIABLES
  notices,     \* the committed notices
  last,        \* the committed counter rows
  holder,      \* the delivery that holds the lock of each counter row
  pc,          \* how far each delivery is
  key,         \* the key it carries
  counter,     \* the counter it takes its reference from
  number       \* the number it was given

vars == <<notices, last, holder, pc, key, counter, number>>

Notice == [counter: Counters, number: Nat, key: Keys \cup {NoKey}]

Ended == {"idle", "returned", "created", "refused", "failed"}

InFlight == {"arrived", "fresh", "upserted", "locked", "inserted"}

TypeOK ==
  /\ notices \subseteq Notice
  /\ last \in [Counters -> Nat \cup {Absent}]
  /\ holder \in [Counters -> Deliveries \cup {Free}]
  /\ pc \in [Deliveries -> Ended \cup InFlight]
  /\ key \in [Deliveries -> Keys \cup {NoKey}]
  /\ counter \in [Deliveries -> Counters]
  /\ number \in [Deliveries -> Nat]

KeysOf(logged) == {n.key : n \in logged} \ {NoKey}

Value(c) == IF last[c] = Absent THEN 0 ELSE last[c]

AnyCounter == CHOOSE c \in Counters : TRUE

Init ==
  /\ notices = {}
  /\ last = [c \in Counters |-> Absent]
  /\ holder = [c \in Counters |-> Free]
  /\ pc = [d \in Deliveries |-> "idle"]
  /\ key = [d \in Deliveries |-> NoKey]
  /\ counter = [d \in Deliveries |-> AnyCounter]
  /\ number = [d \in Deliveries |-> 0]

-----------------------------------------------------------------------------
Goto(d, place) == pc' = [pc EXCEPT ![d] = place]

LeaveLocked(d, place) ==                                       \* mutant
  /\ Goto(d, place)
  /\ key' = [key EXCEPT ![d] = NoKey]
  /\ counter' = [counter EXCEPT ![d] = AnyCounter]
  /\ number' = [number EXCEPT ![d] = 0]
  /\ holder' = holder

(* The transaction ends: the counter row is given back, and the session    *)
(* forgotten.                                                              *)
Leave(d, place) ==
  /\ Goto(d, place)
  /\ holder' = [c \in Counters |-> IF holder[c] = d THEN Free ELSE holder[c]]
  /\ key' = [key EXCEPT ![d] = NoKey]
  /\ counter' = [counter EXCEPT ![d] = AnyCounter]
  /\ number' = [number EXCEPT ![d] = 0]

Keyless ==
  Cardinality({n \in notices : n.key = NoKey}) +
  Cardinality({d \in Deliveries : pc[d] \in InFlight /\ key[d] = NoKey})

(* A first delivery, or one more of a message delivered before, whatever   *)
(* became of that.                                                         *)
Deliver(d) ==
  /\ pc[d] \in Ended
  /\ Goto(d, "arrived")
  /\ \E k \in Keys \cup {NoKey} :
       /\ k = NoKey => Keyless < MaxKeyless
       /\ key' = [key EXCEPT ![d] = k]
  /\ UNCHANGED <<notices, last, holder, counter, number>>

(* Only what is committed is found.                                        *)
Returned(d) ==
  /\ pc[d] = "arrived"
  /\ key[d] \in KeysOf(notices)
  /\ Leave(d, "returned")
  /\ UNCHANGED <<notices, last>>

FoundNone(d) ==
  /\ pc[d] = "arrived"
  /\ key[d] \notin KeysOf(notices)
  /\ Goto(d, "fresh")
  /\ UNCHANGED <<notices, last, holder, key, counter, number>>

(* INSERT ... ON CONFLICT DO NOTHING on the counter row of this year: a row*)
(* another delivery is inserting is waited for, a row that is there is left*)
(* alone, locked or not.  Servers need not agree on when the year ends.    *)
Upsert(d) ==
  /\ pc[d] = "fresh"
  /\ \E c \in Counters :
       /\ counter' = [counter EXCEPT ![d] = c]
       /\ last[c] = Absent => holder[c] = Free
       /\ holder' = [holder EXCEPT ![c] = IF last[c] = Absent THEN d ELSE @]
  /\ Goto(d, "upserted")
  /\ UNCHANGED <<notices, last, key, number>>

(* SELECT ... FOR UPDATE, and the number after the one the row holds.      *)
Lock(d) ==
  /\ pc[d] = "upserted"
  /\ holder[counter[d]] \in {Free, d}
  /\ holder' = [holder EXCEPT ![counter[d]] = d]
  /\ number' = [number EXCEPT ![d] = Value(counter[d]) + 1]
  /\ Goto(d, "locked")
  /\ UNCHANGED <<notices, last, key, counter>>

UnclaimedAnyway(d) == TRUE                                     \* mutant

(* The unique index on the key lets a notice in once every other insertion *)
(* of that key has ended, and none was committed.                          *)
Unclaimed(d) ==
  key[d] # NoKey =>
    /\ key[d] \notin KeysOf(notices)
    /\ \A e \in Deliveries : pc[e] = "inserted" => key[e] # key[d]

Insert(d) ==
  /\ pc[d] = "locked"
  /\ Unclaimed(d)
  /\ Goto(d, "inserted")
  /\ UNCHANGED <<notices, last, holder, key, counter, number>>

(* The unique index finds the key committed: the error takes the request   *)
(* down and the transaction back.                                          *)
Refuse(d) ==
  /\ pc[d] = "locked"
  /\ key[d] \in KeysOf(notices)
  /\ Leave(d, "refused")
  /\ UNCHANGED <<notices, last>>

CommitUnsaved(d) ==                                            \* mutant
  /\ pc[d] = "inserted"
  /\ notices' = notices \cup
       {[counter |-> counter[d], number |-> number[d], key |-> key[d]]}
  /\ last' = IF last[counter[d]] = Absent
               THEN [last EXCEPT ![counter[d]] = number[d]] ELSE last
  /\ Leave(d, "created")

Commit(d) ==
  /\ pc[d] = "inserted"
  /\ notices' = notices \cup
       {[counter |-> counter[d], number |-> number[d], key |-> key[d]]}
  /\ last' = [last EXCEPT ![counter[d]] = number[d]]
  /\ Leave(d, "created")

AbortKept(d) ==                                                \* mutant
  /\ pc[d] \in InFlight
  /\ last' = IF pc[d] \in {"locked", "inserted"}
               THEN [last EXCEPT ![counter[d]] = number[d]] ELSE last
  /\ Leave(d, "failed")
  /\ UNCHANGED notices

(* Any later step of the request fails, or the process is killed.          *)
Abort(d) ==
  /\ pc[d] \in InFlight
  /\ Leave(d, "failed")
  /\ UNCHANGED <<notices, last>>

Serve(d) ==
  \/ Returned(d)
  \/ FoundNone(d)
  \/ Upsert(d)
  \/ Lock(d)
  \/ Insert(d)
  \/ Refuse(d)
  \/ Commit(d)

Next ==
  \E d \in Deliveries :
    \/ Deliver(d)
    \/ Serve(d)
    \/ Abort(d)

Spec == Init /\ [][Next]_vars

(* The event loop resumes every delivery and the database hands a released *)
(* row or index entry to those that wait for it in turn.                   *)
Fairness == \A d \in Deliveries : SF_vars(Serve(d))

FairSpec == Spec /\ Fairness

-----------------------------------------------------------------------------
Book == INSTANCE ReferenceBook WITH last <- [c \in Counters |-> Value(c)]

(* Intake implements the reference book: numbers in order without a gap or *)
(* a repeat, and one notice for a key.                                     *)
BookKept == Book!Spec

(* The references of a year run from 1 to the last one given out: a failed *)
(* delivery gives its number back.                                         *)
Gapless == Book!Gapless

(* No reference is on two notices, and no key.  The keys are the two that  *)
(* find_existing looks up, the idempotency key and the message id.  The    *)
(* third guard that ingestion.py:8-12 speaks of, the external reference of *)
(* the channel, is no key: nothing looks it up here and no index keeps it  *)
(* unique, so a notification sent again under the same one, and without a  *)
(* key, is one more delivery with NoKey and is logged again.               *)
Unique == Book!Unique

(* The number a delivery was given is on no notice while it holds it: the  *)
(* row lock, not the unique index on references, keeps numbers apart.      *)
NumbersFresh ==
  \A d \in Deliveries : pc[d] \in {"locked", "inserted"} =>
    /\ holder[counter[d]] = d
    /\ \A n \in notices : n.counter = counter[d] => n.number < number[d]

(* Every delivery comes to an end: none waits for a counter or an index    *)
(* entry for ever.                                                         *)
EveryDeliveryEnds == \A d \in Deliveries : pc[d] \in InFlight ~> pc[d] \in Ended
=============================================================================
