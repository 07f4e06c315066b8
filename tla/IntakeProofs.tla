---------------------------- MODULE IntakeProofs ----------------------------
(***************************************************************************)
(* Theorems about deliveries, for any number of them, of keys and of       *)
(* counters.                                                               *)
(***************************************************************************)
EXTENDS Intake, TLAPS

USE IntakeAssumption

(* A delivery with a number holds the row it came from.                    *)
NumbersHeld ==
  \A d \in Deliveries : pc[d] \in {"locked", "inserted"} =>
    /\ holder[counter[d]] = d
    /\ number[d] = Value(counter[d]) + 1

(* A key that is being inserted is on no notice and on no other insertion. *)
KeysClaimed ==
  \A d \in Deliveries : pc[d] = "inserted" /\ key[d] # NoKey =>
    /\ key[d] \notin KeysOf(notices)
    /\ \A e \in Deliveries \ {d} : pc[e] = "inserted" => key[e] # key[d]

Inv == TypeOK /\ NumbersHeld /\ KeysClaimed

LEMMA InitInv == Init => Inv
BY DEF Init, Inv, TypeOK, NumbersHeld, KeysClaimed, AnyCounter, Ended, InFlight,
       Notice, KeysOf

-----------------------------------------------------------------------------
LEMMA DeliverInv ==
  ASSUME Inv, NEW d \in Deliveries, Deliver(d)
  PROVE  Inv'
<1>1. TypeOK'
  BY DEF Inv, TypeOK, Deliver, Goto, Ended, InFlight
<1>2. NumbersHeld'
  BY DEF Inv, TypeOK, NumbersHeld, Deliver, Goto, Value
<1>3. KeysClaimed'
  BY DEF Inv, TypeOK, KeysClaimed, Deliver, Goto
<1> QED
  BY <1>1, <1>2, <1>3 DEF Inv

LEMMA FoundNoneInv ==
  ASSUME Inv, NEW d \in Deliveries, FoundNone(d)
  PROVE  Inv'
<1>1. TypeOK'
  BY DEF Inv, TypeOK, FoundNone, Goto, Ended, InFlight
<1>2. NumbersHeld'
  BY DEF Inv, TypeOK, NumbersHeld, FoundNone, Goto, Value
<1>3. KeysClaimed'
  BY DEF Inv, TypeOK, KeysClaimed, FoundNone, Goto
<1> QED
  BY <1>1, <1>2, <1>3 DEF Inv

(* A row is taken only while it is free or the delivery's own, so whoever  *)
(* has a number from it keeps it.                                          *)
LEMMA UpsertInv ==
  ASSUME Inv, NEW d \in Deliveries, Upsert(d)
  PROVE  Inv'
<1>1. TypeOK'
  BY DEF Inv, TypeOK, Upsert, Goto, Ended, InFlight
<1>2. NumbersHeld'
  BY DEF Inv, TypeOK, NumbersHeld, Upsert, Goto, Value
<1>3. KeysClaimed'
  BY DEF Inv, TypeOK, KeysClaimed, Upsert, Goto
<1> QED
  BY <1>1, <1>2, <1>3 DEF Inv

LEMMA LockInv ==
  ASSUME Inv, NEW d \in Deliveries, Lock(d)
  PROVE  Inv'
<1>1. TypeOK'
  BY DEF Inv, TypeOK, Lock, Goto, Value, Ended, InFlight
<1>2. NumbersHeld'
  BY DEF Inv, TypeOK, NumbersHeld, Lock, Goto, Value
<1>3. KeysClaimed'
  BY DEF Inv, TypeOK, KeysClaimed, Lock, Goto
<1> QED
  BY <1>1, <1>2, <1>3 DEF Inv

LEMMA InsertInv ==
  ASSUME Inv, NEW d \in Deliveries, Insert(d)
  PROVE  Inv'
<1>1. TypeOK'
  BY DEF Inv, TypeOK, Insert, Goto, Ended, InFlight
<1>2. NumbersHeld'
  BY DEF Inv, TypeOK, NumbersHeld, Insert, Goto, Value
<1>3. KeysClaimed'
  BY DEF Inv, TypeOK, KeysClaimed, Insert, Unclaimed, Goto
<1> QED
  BY <1>1, <1>2, <1>3 DEF Inv

(* A delivery that ends without a commit takes nothing from the others.    *)
LEMMA LeaveInv ==
  ASSUME Inv, NEW d \in Deliveries, NEW place \in Ended, Leave(d, place),
         UNCHANGED <<notices, last>>
  PROVE  Inv'
<1>1. TypeOK'
  BY DEF Inv, TypeOK, Leave, Goto, AnyCounter, Ended, InFlight
<1>2. NumbersHeld'
  BY DEF Inv, TypeOK, NumbersHeld, Leave, Goto, Value, Ended
<1>3. KeysClaimed'
  BY DEF Inv, TypeOK, KeysClaimed, Leave, Goto, Ended
<1> QED
  BY <1>1, <1>2, <1>3 DEF Inv

LEMMA CommitInv ==
  ASSUME Inv, NEW d \in Deliveries, Commit(d)
  PROVE  Inv'
<1>1. TypeOK'
  BY DEF Inv, TypeOK, Commit, Leave, Goto, Notice, AnyCounter, Ended, InFlight
<1>2. NumbersHeld'
  BY DEF Inv, TypeOK, NumbersHeld, Commit, Leave, Goto, Value
<1>3. KeysClaimed'
  BY DEF Inv, TypeOK, KeysClaimed, KeysOf, Commit, Leave, Goto
<1> QED
  BY <1>1, <1>2, <1>3 DEF Inv

LEMMA NextInv == Inv /\ [Next]_vars => Inv'
<1> SUFFICES ASSUME Inv, [Next]_vars PROVE Inv'
  OBVIOUS
<1>1. ASSUME NEW d \in Deliveries,
             Returned(d) \/ Refuse(d) \/ Abort(d)
      PROVE  Inv'
  BY <1>1, LeaveInv DEF Returned, Refuse, Abort, Ended
<1>2. CASE UNCHANGED vars
  BY <1>2 DEF Inv, TypeOK, NumbersHeld, KeysClaimed, Value, vars
<1> QED
  BY <1>1, <1>2, DeliverInv, FoundNoneInv, UpsertInv, LockInv, InsertInv, CommitInv
     DEF Next, Serve

(* Every delivery, counter row and notice is what the schema says it is.   *)
THEOREM TypeCorrect == Spec => []TypeOK
<1>1. Inv => TypeOK
  BY DEF Inv
<1> QED
  BY <1>1, InitInv, NextInv, PTL DEF Spec

-----------------------------------------------------------------------------
Committed == [c \in Counters |-> Value(c)]

LEMMA InitBook == Init => Book!Init
BY DEF Init, Book!Init, Value

(* Only a commit touches the book, and it logs the next number of its      *)
(* counter under a key that is on no notice yet.                           *)
LEMMA CommitLogs ==
  ASSUME Inv, NEW d \in Deliveries, Commit(d)
  PROVE  Book!Log(counter[d], key[d])
<1>1. /\ counter[d] \in Counters
      /\ number[d] = Value(counter[d]) + 1
  BY DEF Inv, TypeOK, NumbersHeld, Commit
<1>2. key[d] \notin Book!KeysOf(notices)
  BY DEF Inv, KeysClaimed, KeysOf, Book!KeysOf, Commit
<1>3. Committed' = [Committed EXCEPT ![counter[d]] = @ + 1]
  <2>1. /\ last \in [Counters -> Nat \cup {Absent}]
        /\ last' = [last EXCEPT ![counter[d]] = Value(counter[d]) + 1]
    BY <1>1 DEF Inv, TypeOK, Commit
  <2>2. Value(counter[d]) + 1 \in Nat
    BY <1>1, <2>1 DEF Value
  <2>3. \A c \in Counters :
          Value(c)' = IF c = counter[d] THEN Value(c) + 1 ELSE Value(c)
    BY <1>1, <2>1, <2>2 DEF Value
  <2> QED
    BY <1>1, <2>3 DEF Committed
<1> QED
  BY <1>1, <1>2, <1>3 DEF Book!Log, Commit, Committed

LEMMA OthersKeepBook ==
  ASSUME [Next]_vars, \A d \in Deliveries : ~Commit(d)
  PROVE  UNCHANGED <<notices, last>>
BY DEF Next, Serve, Deliver, Returned, FoundNone, Upsert, Lock, Insert, Refuse, Abort,
       vars

LEMMA NextBook == Inv /\ [Next]_vars => [Book!Next]_<<notices, Committed>>
<1> SUFFICES ASSUME Inv, [Next]_vars PROVE [Book!Next]_<<notices, Committed>>
  OBVIOUS
<1>1. ASSUME NEW d \in Deliveries, Commit(d) PROVE Book!Next
  BY <1>1, CommitLogs DEF Book!Next, Inv, TypeOK
<1>2. ASSUME \A d \in Deliveries : ~Commit(d) PROVE UNCHANGED <<notices, Committed>>
  BY <1>2, OthersKeepBook DEF Committed, Value
<1> QED
  BY <1>1, <1>2

(* Concurrent deliveries keep the reference book: numbers in order with no *)
(* gap and no repeat, and a key logged once.                               *)
THEOREM BookCorrect == Spec => BookKept
<1>1. Spec => []Inv
  BY InitInv, NextInv, PTL DEF Spec
<1> QED
  BY <1>1, InitBook, NextBook, PTL DEF Spec, BookKept, Book!Spec, Committed

-----------------------------------------------------------------------------
(* What follows from the book: the invariants of the abstract specification*)
(* carried over to the deliveries.                                         *)
BookInv == Gapless /\ Unique

LEMMA InitBookInv == Init => BookInv
BY DEF Init, BookInv, Gapless, Unique, Book!Gapless, Book!Unique, Book!NumbersOf, Value

LEMMA LogBookInv ==
  ASSUME Inv, BookInv, NEW c \in Counters, NEW k \in Keys \cup {NoKey}, Book!Log(c, k)
  PROVE  BookInv'
<1> DEFINE new == [counter |-> c, number |-> Value(c) + 1, key |-> k]
<1>1. /\ notices' = notices \cup {new}
      /\ Committed' = [Committed EXCEPT ![c] = @ + 1]
      /\ k \notin Book!KeysOf(notices)
  BY DEF Book!Log, Committed
<1>2. \A b \in Counters : Value(b) \in Nat
  BY DEF Inv, TypeOK, Value
<1>3. \A b \in Counters : Value(b)' = IF b = c THEN Value(b) + 1 ELSE Value(b)
  <2>1. \A b \in Counters : Committed'[b] = Value(b)'
    BY DEF Committed
  <2> QED
    BY <1>1, <2>1 DEF Committed
<1>4. \A b \in Counters : Book!NumbersOf(notices, b) = 1 .. Value(b)
  BY DEF BookInv, Gapless, Book!Gapless
<1>5. Gapless'
  <2> SUFFICES ASSUME NEW b \in Counters
               PROVE  Book!NumbersOf(notices', b) = 1 .. Value(b)'
    BY DEF Gapless, Book!Gapless
  <2>1. CASE b = c
    <3>1. Book!NumbersOf(notices', b) = Book!NumbersOf(notices, b) \cup {Value(b) + 1}
      <4>1. new.counter = b /\ new.number = Value(b) + 1
        BY <2>1
      <4>2. {m \in notices' : m.counter = b} =
              {m \in notices : m.counter = b} \cup {new}
        BY <1>1, <4>1
      <4> HIDE DEF new
      <4> QED
        BY <4>1, <4>2 DEF Book!NumbersOf
    <3> QED
      BY <3>1, <1>2, <1>3, <1>4, <2>1
  <2>2. CASE b # c
    <3>1. Book!NumbersOf(notices', b) = Book!NumbersOf(notices, b)
      BY <1>1, <2>2 DEF Book!NumbersOf
    <3> QED
      BY <3>1, <1>3, <1>4, <2>2
  <2> QED
    BY <2>1, <2>2
<1>6. ASSUME NEW n \in notices
      PROVE  /\ <<n.counter, n.number>> # <<c, Value(c) + 1>>
             /\ n.key # k \/ n.key = NoKey
  <2>1. n.counter = c => n.number \in 1 .. Value(c)
    BY <1>4 DEF Book!NumbersOf
  <2>2. n.key # k \/ n.key = NoKey
    BY <1>1 DEF Book!KeysOf
  <2> QED
    BY <2>1, <2>2, <1>2
<1>7. Unique'
  BY <1>1, <1>6 DEF BookInv, Unique, Book!Unique
<1> QED
  BY <1>5, <1>7 DEF BookInv

LEMMA NextBookInv == Inv /\ BookInv /\ [Next]_vars => BookInv'
<1> SUFFICES ASSUME Inv, BookInv, [Next]_vars PROVE BookInv'
  OBVIOUS
<1>1. ASSUME NEW d \in Deliveries, Commit(d) PROVE BookInv'
  BY <1>1, CommitLogs, LogBookInv DEF Inv, TypeOK
<1>2. ASSUME \A d \in Deliveries : ~Commit(d) PROVE BookInv'
  BY <1>2, OthersKeepBook
     DEF BookInv, Gapless, Unique, Book!Gapless, Book!Unique, Value
<1> QED
  BY <1>1, <1>2

LEMMA BookInvCorrect == Spec => [](Inv /\ BookInv)
BY InitInv, NextInv, InitBookInv, NextBookInv, PTL DEF Spec

(* The references of a year have no gap, whatever fails.                   *)
THEOREM GaplessAlways == Spec => []Gapless
<1>1. BookInv => Gapless
  BY DEF BookInv
<1> QED
  BY <1>1, BookInvCorrect, PTL

(* No reference and no key is on two notices.                              *)
THEOREM UniqueAlways == Spec => []Unique
<1>1. BookInv => Unique
  BY DEF BookInv
<1> QED
  BY <1>1, BookInvCorrect, PTL

(* The row lock alone keeps numbers apart: the number a delivery holds is  *)
(* larger than every committed one.                                        *)
THEOREM FreshAlways == Spec => []NumbersFresh
<1>1. Inv /\ BookInv => NumbersFresh
  <2> SUFFICES ASSUME Inv, BookInv, NEW d \in Deliveries,
                      pc[d] \in {"locked", "inserted"}
               PROVE  /\ holder[counter[d]] = d
                      /\ \A n \in notices :
                           n.counter = counter[d] => n.number < number[d]
    BY DEF NumbersFresh
  <2>1. /\ holder[counter[d]] = d
        /\ number[d] = Value(counter[d]) + 1
        /\ counter[d] \in Counters
        /\ Value(counter[d]) \in Nat
    BY DEF Inv, TypeOK, NumbersHeld, Value
  <2>2. ASSUME NEW n \in notices, n.counter = counter[d] PROVE n.number < number[d]
    <3>1. n.number \in 1 .. Value(counter[d])
      BY <2>1, <2>2 DEF BookInv, Gapless, Book!Gapless, Book!NumbersOf
    <3> QED
      BY <3>1, <2>1
  <2> QED
    BY <2>1, <2>2
<1> QED
  BY <1>1, BookInvCorrect, PTL
=============================================================================
