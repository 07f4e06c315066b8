--------------------------- MODULE ReferenceBook ---------------------------
(***************************************************************************)
(* What intake promises, said without deliveries or locks: the notices of a*)
(* counter (a prefix and a year) are numbered in the order they are logged *)
(* with no gap and no repeat, and a message that carries a key is logged   *)
(* once.                                                                   *)
(***************************************************************************)
EXTENDS Naturals

CONSTANTS
  Counters,  \* a prefix and a year each
  Keys,      \* idempotency keys and message ids
  NoKey      \* the key of a notification that carries neither

VARIABLES
  notices,   \* the notices logged
  last       \* the last number given out by each counter

KeysOf(logged) == {n.key : n \in logged} \ {NoKey}

NumbersOf(logged, c) == {n.number : n \in {m \in logged : m.counter = c}}

Init ==
  /\ notices = {}
  /\ last = [c \in Counters |-> 0]

Log(c, k) ==
  /\ k \notin KeysOf(notices)
  /\ last' = [last EXCEPT ![c] = @ + 1]
  /\ notices' = notices \cup {[counter |-> c, number |-> last[c] + 1, key |-> k]}

Next == \E c \in Counters, k \in Keys \cup {NoKey} : Log(c, k)

Spec == Init /\ [][Next]_<<notices, last>>

(* No number is skipped and none is given out that is not on a notice.     *)
Gapless == \A c \in Counters : NumbersOf(notices, c) = 1 .. last[c]

(* No two notices have a number of the same counter, and no two the same   *)
(* key.                                                                    *)
Unique ==
  \A m, n \in notices :
    \/ m = n
    \/ /\ <<m.counter, m.number>> # <<n.counter, n.number>>
       /\ m.key # n.key \/ m.key = NoKey
=============================================================================
