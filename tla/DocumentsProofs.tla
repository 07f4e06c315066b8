-------------------------- MODULE DocumentsProofs ---------------------------
(***************************************************************************)
(* Theorems about documents, for any files, any limit and any number of    *)
(* requests.                                                               *)
(***************************************************************************)
EXTENDS Documents, FiniteSetTheorems, TLAPS

USE DocumentsAssumption

InHand(r) == pc[r] \in {"counted", "stored", "fresh"}

FileInHand == \A r \in Requests : InHand(r) => file[r] \in Files

(* A key holds nothing, or the bytes it was made of.                       *)
BytesMatch == \A f \in Files : bytes[Key(f)] \in {f.content, NoBytes}

Accounted(f) == Stored(f) \/ f \in lost

(* Bytes are put before their row is looked for, so they are in the store  *)
(* from then on, or a removal took them.                                   *)
AllAccounted ==
  /\ \A d \in rows : Accounted(d.file)
  /\ \A r \in Requests : \A d \in own[r] : Accounted(d.file)
  /\ \A r \in Requests : pc[r] \in {"stored", "fresh"} => Accounted(file[r])

Inv == TypeOK /\ FileInHand /\ BytesMatch /\ AllAccounted

(* Two files with one key are one file.                                    *)
LEMMA KeyInjective ==
  ASSUME NEW f \in Files, NEW g \in Files, Key(f) = Key(g)
  PROVE  f = g
<1>1. f.content = g.content /\ f.name = g.name
  BY DEF Key
<1>2. f = [content |-> f.content, name |-> f.name]
  OBVIOUS
<1>3. g = [content |-> g.content, name |-> g.name]
  OBVIOUS
<1> QED
  BY <1>1, <1>2, <1>3

LEMMA InitInv == Init => Inv
<1> SUFFICES ASSUME Init PROVE Inv
  OBVIOUS
<1>1. TypeOK
  BY DEF Init, TypeOK
<1>2. FileInHand
  BY DEF Init, FileInHand, InHand
<1>3. BytesMatch
  BY DEF Init, BytesMatch, Keys
<1>4. AllAccounted
  BY DEF Init, AllAccounted
<1> QED
  BY <1>1, <1>2, <1>3, <1>4 DEF Inv

-----------------------------------------------------------------------------
(* What keeps the rows and the store keeps the account of them.            *)
LEMMA LeaveInv ==
  ASSUME Inv, NEW r \in Requests, Leave(r), UNCHANGED <<bytes, lost>>,
         rows' \subseteq rows \cup own[r],
         notice' \in {"absent", "open", "converted"}
  PROVE  Inv'
<1>1. TypeOK'
  BY DEF Inv, TypeOK, Leave
<1>2. FileInHand'
  BY DEF Inv, TypeOK, FileInHand, InHand, Leave
<1>3. BytesMatch'
  BY DEF Inv, BytesMatch
<1>4. AllAccounted'
  BY DEF Inv, TypeOK, AllAccounted, Accounted, Stored, Leave
<1> QED
  BY <1>1, <1>2, <1>3, <1>4 DEF Inv

LEMMA BeginInv ==
  ASSUME Inv, NEW r \in Requests, Upload(r) \/ Email(r) \/ Remove(r) \/ Convert(r)
  PROVE  Inv'
<1>1. TypeOK'
  <2>1. CASE Upload(r)
    <3>1. PICK f \in Files : Begin(r, {f})
      BY <2>1 DEF Upload
    <3> QED
      BY <3>1 DEF Inv, TypeOK, Begin
  <2>2. CASE Email(r)
    <3>1. PICK files \in SUBSET Files : Begin(r, files)
      BY <2>2 DEF Email
    <3> QED
      BY <3>1 DEF Inv, TypeOK, Begin
  <2>3. CASE Remove(r)
    BY <2>3 DEF Inv, TypeOK, Remove
  <2>4. CASE Convert(r)
    BY <2>4 DEF Inv, TypeOK, Convert, session
  <2> QED
    BY <2>1, <2>2, <2>3, <2>4
<1>2. UNCHANGED <<rows, bytes, file, own, lost>>
  BY DEF Upload, Email, Begin, Remove, Convert, session
<1>3. \A q \in Requests : pc'[q] # pc[q] => pc'[q] \in {"attaching", "loaded"}
  BY DEF Inv, TypeOK, Upload, Email, Begin, Remove, Convert, session
<1>4. FileInHand'
  BY <1>2, <1>3 DEF Inv, FileInHand, InHand
<1>5. BytesMatch'
  BY <1>2 DEF Inv, BytesMatch
<1>6. AllAccounted'
  BY <1>2, <1>3 DEF Inv, AllAccounted, Accounted, Stored
<1> QED
  BY <1>1, <1>4, <1>5, <1>6 DEF Inv

LEMMA LookInv ==
  ASSUME Inv, NEW r \in Requests, Count(r) \/ FoundExisting(r) \/ FoundNone(r)
  PROVE  Inv'
<1>1. TypeOK'
  BY DEF Inv, TypeOK, Count, FoundExisting, FoundNone
<1>2. FileInHand'
  BY DEF Inv, TypeOK, FileInHand, InHand, Count, FoundExisting, FoundNone
<1>3. BytesMatch'
  BY DEF Inv, BytesMatch, Count, FoundExisting, FoundNone
<1>4. AllAccounted'
  BY DEF Inv, TypeOK, AllAccounted, Accounted, Stored, Count, FoundExisting, FoundNone
<1> QED
  BY <1>1, <1>2, <1>3, <1>4 DEF Inv

LEMMA PutInv ==
  ASSUME Inv, NEW r \in Requests, Put(r)
  PROVE  Inv'
<1>1. file[r] \in Files /\ Key(file[r]) \in Keys /\ file[r].content \in Contents
  BY DEF Inv, FileInHand, InHand, Put, Keys, Contents
<1>2. TypeOK'
  BY <1>1 DEF Inv, TypeOK, Put
<1>3. FileInHand'
  BY DEF Inv, TypeOK, FileInHand, InHand, Put
<1>4. \A f \in Files : bytes'[Key(f)] = IF f = file[r] THEN f.content ELSE bytes[Key(f)]
  <2> SUFFICES ASSUME NEW f \in Files
               PROVE  bytes'[Key(f)] =
                        IF f = file[r] THEN f.content ELSE bytes[Key(f)]
    OBVIOUS
  <2>1. Key(f) \in Keys
    BY DEF Keys
  <2>2. Key(f) = Key(file[r]) => f = file[r]
    BY <1>1, KeyInjective
  <2> QED
    BY <1>1, <2>1, <2>2 DEF Inv, TypeOK, Put
<1>5. BytesMatch'
  BY <1>4 DEF Inv, BytesMatch
<1>6. \A f \in Files : Accounted(f) => Accounted(f)'
  BY <1>1, <1>4 DEF Accounted, Stored, Put, Inv, TypeOK
<1>7. Accounted(file[r])'
  BY <1>1, <1>4 DEF Accounted, Stored, Put
<1>8. AllAccounted'
  <2>1. UNCHANGED <<rows, own, file>>
    BY DEF Put
  <2>2. rows \subseteq Row /\ \A q \in Requests : own[q] \subseteq Row
    BY DEF Inv, TypeOK
  <2>3. \A d \in rows' : Accounted(d.file)'
    BY <1>6, <2>1, <2>2 DEF Inv, AllAccounted, Row
  <2>4. \A q \in Requests : \A d \in own'[q] : Accounted(d.file)'
    BY <1>6, <2>1, <2>2 DEF Inv, AllAccounted, Row
  <2>5. \A q \in Requests : pc'[q] \in {"stored", "fresh"} => Accounted(file[q])'
    <3> SUFFICES ASSUME NEW q \in Requests, pc'[q] \in {"stored", "fresh"}
                 PROVE  Accounted(file[q])'
      OBVIOUS
    <3>1. CASE q = r
      BY <1>7, <3>1
    <3>2. CASE q # r
      <4>1. pc[q] \in {"stored", "fresh"}
        BY <3>2 DEF Inv, TypeOK, Put
      <4>2. file[q] \in Files /\ Accounted(file[q])
        BY <4>1 DEF Inv, FileInHand, InHand, AllAccounted
      <4> QED
        BY <1>6, <2>1, <4>2
    <3> QED
      BY <3>1, <3>2
  <2> QED
    BY <2>3, <2>4, <2>5 DEF AllAccounted
<1> QED
  BY <1>2, <1>3, <1>5, <1>8 DEF Inv

LEMMA InsertInv ==
  ASSUME Inv, NEW r \in Requests, Insert(r)
  PROVE  Inv'
<1>1. PICK id \in Ids :
        own' = [own EXCEPT ![r] = @ \cup {[id |-> id, file |-> file[r]]}]
  BY DEF Insert
<1>2. file[r] \in Files /\ Accounted(file[r])
  BY DEF Inv, FileInHand, InHand, AllAccounted, Insert
<1>3. TypeOK'
  BY <1>1, <1>2 DEF Inv, TypeOK, Insert, Row
<1>4. FileInHand'
  BY DEF Inv, TypeOK, FileInHand, InHand, Insert
<1>5. BytesMatch'
  BY DEF Inv, BytesMatch, Insert
<1>6. AllAccounted'
  BY <1>1, <1>2 DEF Inv, TypeOK, AllAccounted, Accounted, Stored, Insert
<1> QED
  BY <1>3, <1>4, <1>5, <1>6 DEF Inv

(* Only the keys of removed files lose their bytes, and these are lost.    *)
LEMMA EraseInv ==
  ASSUME Inv, NEW r \in Requests, Erase(r)
  PROVE  Inv'
<1>1. doomed[r] \subseteq Row
  BY DEF Inv, TypeOK
<1>2. TypeOK'
  <2>1. bytes' \in [Keys -> Contents \cup {NoBytes}]
    BY DEF Inv, TypeOK, Erase
  <2>2. lost' \subseteq Files
    BY <1>1 DEF Inv, TypeOK, Erase, Row
  <2> QED
    BY <2>1, <2>2 DEF Inv, TypeOK, Erase
<1>3. FileInHand'
  BY DEF Inv, TypeOK, FileInHand, InHand, Erase
<1>4. \A f \in Files : bytes'[Key(f)] \in {bytes[Key(f)], NoBytes}
  BY DEF Erase, Keys
<1>5. BytesMatch'
  BY <1>4 DEF Inv, BytesMatch
<1>6. \A f \in Files : Accounted(f) => Accounted(f)'
  <2> SUFFICES ASSUME NEW f \in Files, Accounted(f)
               PROVE  Accounted(f)'
    OBVIOUS
  <2>1. CASE \E d \in doomed[r] : Key(f) = Key(d.file)
    <3>1. PICK d \in doomed[r] : Key(f) = Key(d.file)
      BY <2>1
    <3>2. f = d.file
      BY <1>1, <3>1, KeyInjective DEF Row
    <3> QED
      BY <3>2 DEF Accounted, Erase
  <2>2. CASE ~ \E d \in doomed[r] : Key(f) = Key(d.file)
    BY <2>2 DEF Accounted, Stored, Erase, Keys
  <2> QED
    BY <2>1, <2>2
<1>7. AllAccounted'
  <2>1. UNCHANGED <<rows, own, file>>
    BY DEF Erase
  <2>2. rows \subseteq Row /\ \A q \in Requests : own[q] \subseteq Row
    BY DEF Inv, TypeOK
  <2>3. \A d \in rows' : Accounted(d.file)'
    BY <1>6, <2>1, <2>2 DEF Inv, AllAccounted, Row
  <2>4. \A q \in Requests : \A d \in own'[q] : Accounted(d.file)'
    BY <1>6, <2>1, <2>2 DEF Inv, AllAccounted, Row
  <2>5. \A q \in Requests : pc'[q] \in {"stored", "fresh"} =>
          file[q] \in Files /\ Accounted(file[q])
    BY DEF Inv, TypeOK, FileInHand, InHand, AllAccounted, Erase
  <2>6. \A q \in Requests : pc'[q] \in {"stored", "fresh"} => Accounted(file[q])'
    BY <1>6, <2>1, <2>5
  <2> QED
    BY <2>3, <2>4, <2>6 DEF AllAccounted
<1> QED
  BY <1>2, <1>3, <1>5, <1>7 DEF Inv

LEMMA NextInv == Inv /\ [Next]_vars => Inv'
<1> SUFFICES ASSUME Inv, [Next]_vars
             PROVE  Inv'
  OBVIOUS
<1>1. CASE UNCHANGED vars
  BY <1>1 DEF vars, Inv, TypeOK, FileInHand, InHand, BytesMatch, AllAccounted,
              Accounted, Stored
<1>2. ASSUME NEW r \in Requests, Commit(r) \/ CommitRemoval(r) \/ Abort(r)
      PROVE  Inv'
  <2>1. Leave(r) /\ UNCHANGED <<bytes, lost>> /\ rows' \subseteq rows \cup own[r]
    BY <1>2 DEF Commit, CommitRemoval, Abort
  <2>2. notice' \in {"absent", "open", "converted"}
    BY <1>2 DEF Inv, TypeOK, Commit, CommitRemoval, Abort
  <2> QED
    BY <2>1, <2>2, LeaveInv
<1> QED
  BY <1>1, <1>2, BeginInv, LookInv, PutInv, InsertInv, EraseInv DEF Next, Attach

LEMMA InvAlways == Spec => []Inv
BY InitInv, NextInv, PTL DEF Spec

(* Types, for any constants.                                               *)
THEOREM TypeCorrect == Spec => []TypeOK
<1>1. Inv => TypeOK
  BY DEF Inv
<1> QED
  BY <1>1, InvAlways, PTL

(* What is stored under the key of a row is what the row was made of.      *)
THEOREM BytesCorrect == Spec => []BytesAreTheRows
<1>1. Inv => BytesAreTheRows
  <2> SUFFICES ASSUME Inv, NEW d \in rows, Stored(d.file)
               PROVE  bytes[Key(d.file)] = d.file.content
    BY DEF BytesAreTheRows
  <2>1. d.file \in Files
    BY DEF Inv, TypeOK, Row
  <2> QED
    BY <2>1 DEF Inv, BytesMatch, Stored
<1> QED
  BY <1>1, InvAlways, PTL

(* Bytes of a row are lost to a removal of its file, or not at all.        *)
THEOREM LostCorrect == Spec => []LostOnlyByRemoval
<1>1. Inv => LostOnlyByRemoval
  BY DEF Inv, AllAccounted, Accounted, LostOnlyByRemoval
<1> QED
  BY <1>1, InvAlways, PTL
=============================================================================
