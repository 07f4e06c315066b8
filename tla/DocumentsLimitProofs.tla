------------------------ MODULE DocumentsLimitProofs ------------------------
(***************************************************************************)
(* Theorems about what requests in flight do together to the limit on      *)
(* documents, and about the attachments of an e-mail.                      *)
(***************************************************************************)
EXTENDS DocumentsProofs

USE DocumentsAssumption
Claiming == {r \in Requests : InHand(r) \/ own[r] # {}}

Finite == IsFiniteSet(rows) /\ \A r \in Requests : IsFiniteSet(own[r])

(* While there is no notice its e-mail is alone.                           *)
Alone ==
  notice = "absent" =>
    /\ rows = {}
    /\ \A q, r \in Requests : pc[q] # "idle" /\ pc[r] # "idle" => q = r
    /\ \A r \in Requests : pc[r] \notin {"loaded", "erased"}

(* Only what attaches has files to attach and rows to commit.              *)
OnlyAttaching ==
  \A r \in Requests :
    pc[r] \in {"idle", "loaded", "erased"} => own[r] = {} /\ todo[r] = {}

(* A request on a notice that exists attaches one file.                    *)
OneFile ==
  notice # "absent" =>
    \A r \in Requests :
      /\ \A f, g \in todo[r] : f = g
      /\ InHand(r) => todo[r] = {} /\ own[r] = {}
      /\ own[r] # {} => todo[r] = {} /\ \E d \in own[r] : own[r] = {d}

(* Whoever counted saw less than the limit, and the others in flight add   *)
(* one each.                                                               *)
Counted ==
  notice # "absent" =>
    Cardinality(rows) + Cardinality(Claiming) <= Limit + Cardinality(Requests) - 1

Fits ==
  notice = "absent" =>
    \A r \in Requests :
      /\ Cardinality(own[r]) <= Limit
      /\ InHand(r) => Cardinality(own[r]) < Limit

(* Every attachment of an e-mail is to come, in hand, or on a row.         *)
Whole ==
  notice = "absent" =>
    \A r \in Requests : pc[r] # "idle" =>
      {f.content : f \in asked[r]} =
        {f.content : f \in todo[r]} \cup ContentsOf(own[r]) \cup
        {c \in Contents : InHand(r) /\ c = file[r].content}

LimitInv ==
  Inv /\ Finite /\ Alone /\ OnlyAttaching /\ OneFile /\ Counted /\ Fits /\ Whole

LEMMA InitLimitInv == Init => LimitInv
<1> SUFFICES ASSUME Init PROVE LimitInv
  OBVIOUS
<1>1. Inv
  BY InitInv
<1>2. Finite /\ Cardinality(rows) = 0 /\ \A r \in Requests : Cardinality(own[r]) = 0
  BY FS_EmptySet DEF Init, Finite
<1>3. Claiming = {} /\ Cardinality(Claiming) = 0
  BY FS_EmptySet DEF Init, Claiming, InHand
<1>4. Alone /\ OnlyAttaching /\ OneFile
  BY DEF Init, Alone, OnlyAttaching, OneFile, InHand
<1>5. Cardinality(Requests) \in Nat
  BY FS_CardinalityType
<1>6. Counted /\ Fits
  BY <1>2, <1>3, <1>5 DEF Init, Counted, Fits, InHand
<1>7. Whole
  BY DEF Init, Whole
<1> QED
  BY <1>1, <1>2, <1>4, <1>6, <1>7 DEF LimitInv

-----------------------------------------------------------------------------
(* A request that begins has nothing yet.                                  *)
LEMMA BeginLimit ==
  ASSUME LimitInv, NEW r \in Requests, Upload(r) \/ Email(r) \/ Remove(r) \/ Convert(r)
  PROVE  LimitInv'
<1>1. Inv'
  BY BeginInv DEF LimitInv
<1>2. UNCHANGED <<rows, own, file>>
  BY DEF Upload, Email, Begin, Remove, Convert, session
<1>3. \A q \in Requests : (InHand(q))' <=> InHand(q)
  BY DEF LimitInv, Inv, TypeOK, InHand, Upload, Email, Begin, Remove, Convert, session
<1>4. (notice' = "absent") <=> (notice = "absent")
  BY DEF Upload, Email, Begin, Remove, Convert
<1>5. Claiming' = Claiming
  BY <1>2, <1>3 DEF Claiming
<1>6. Finite' /\ Counted' /\ Fits'
  BY <1>2, <1>3, <1>4, <1>5 DEF LimitInv, Finite, Counted, Fits
<1>7. Alone'
  BY DEF LimitInv, Inv, TypeOK, Alone, Upload, Email, Begin, Remove, Convert, session
<1>8. OnlyAttaching'
  BY DEF LimitInv, Inv, TypeOK, OnlyAttaching, Upload, Email, Begin, Remove, Convert,
         session
<1>9. OneFile'
  BY DEF LimitInv, Inv, TypeOK, OnlyAttaching, OneFile, InHand, Upload, Email, Begin,
         Remove, Convert, session
<1>10. Whole'
  BY DEF LimitInv, Inv, TypeOK, OnlyAttaching, Whole, InHand, ContentsOf, Upload,
         Email, Begin, Remove, Convert, session
<1> QED
  BY <1>1, <1>6, <1>7, <1>8, <1>9, <1>10 DEF LimitInv

(* Whoever counts sees fewer rows than the limit.                          *)
LEMMA CountLimit ==
  ASSUME LimitInv, NEW r \in Requests, Count(r)
  PROVE  LimitInv'
<1>1. Inv'
  BY LookInv DEF LimitInv
<1>2. PICK f \in todo[r] : /\ todo' = [todo EXCEPT ![r] = @ \ {f}]
                           /\ file' = [file EXCEPT ![r] = f]
  BY DEF Count
<1>3. Finite'
  BY DEF LimitInv, Finite, Count
<1>4. Alone' /\ OnlyAttaching' /\ OneFile'
  BY <1>2 DEF LimitInv, Inv, TypeOK, Alone, OnlyAttaching, OneFile, InHand, Count
<1>5. Cardinality(rows \cup own[r]) < Limit
  <2>1. Cardinality(rows \cup own[r]) \in Nat
    BY FS_Union, FS_CardinalityType DEF LimitInv, Finite
  <2> QED
    BY <2>1 DEF Count, Full
<1>6. Counted'
  <2> SUFFICES ASSUME notice # "absent"
               PROVE  Cardinality(rows) + Cardinality(Claiming') <=
                        Limit + Cardinality(Requests) - 1
    BY DEF Counted, Count
  <2>1. own[r] = {}
    BY <1>2 DEF LimitInv, OneFile
  <2>2. Cardinality(rows) \in Nat /\ Cardinality(rows) < Limit
    <3>1. rows \cup own[r] = rows
      BY <2>1
    <3>2. IsFiniteSet(rows)
      BY DEF LimitInv, Finite
    <3> QED
      BY <1>5, <3>1, <3>2, FS_CardinalityType
  <2>3. /\ Claiming' \subseteq Requests
        /\ Cardinality(Claiming') <= Cardinality(Requests)
        /\ Cardinality(Claiming') \in Nat
        /\ Cardinality(Requests) \in Nat
    BY FS_Subset, FS_CardinalityType DEF Claiming
  <2> QED
    BY <2>2, <2>3
<1>7. Fits'
  BY <1>5 DEF LimitInv, Inv, TypeOK, Alone, Fits, InHand, Count
<1>8. Whole'
  <2>1. UNCHANGED <<notice, asked, own>> /\ f \in Files /\ f.content \in Contents
    BY DEF LimitInv, Inv, TypeOK, Count, Contents
  <2>2. /\ pc[r] = "attaching" /\ ~InHand(r)
        /\ pc'[r] = "counted" /\ InHand(r)'
        /\ file'[r] = f /\ todo'[r] = todo[r] \ {f}
    BY <1>2 DEF LimitInv, Inv, TypeOK, Count, InHand
  <2>3. \A q \in Requests \ {r} :
          /\ pc'[q] = pc[q] /\ file'[q] = file[q] /\ todo'[q] = todo[q]
          /\ InHand(q)' <=> InHand(q)
    BY <1>2 DEF LimitInv, Inv, TypeOK, Count, InHand
  <2>4. {g.content : g \in todo[r]} = {g.content : g \in todo'[r]} \cup {f.content}
    BY <2>2
  <2>5. {c \in Contents : InHand(r) /\ c = file[r].content} = {}
    BY <2>2
  <2>6. {c \in Contents : InHand(r)' /\ c = file'[r].content} = {f.content}
    BY <2>1, <2>2
  <2> SUFFICES ASSUME notice = "absent", NEW q \in Requests, pc'[q] # "idle"
               PROVE  {g.content : g \in asked[q]} =
                        {g.content : g \in todo'[q]} \cup ContentsOf(own[q]) \cup
                        {c \in Contents : InHand(q)' /\ c = file'[q].content}
    BY <2>1 DEF Whole, ContentsOf
  <2>7. pc[q] # "idle"
    BY <2>2, <2>3
  <2>8. {g.content : g \in asked[q]} =
          {g.content : g \in todo[q]} \cup ContentsOf(own[q]) \cup
          {c \in Contents : InHand(q) /\ c = file[q].content}
    BY <2>7 DEF LimitInv, Whole
  <2>9. CASE q = r
    BY <2>4, <2>5, <2>6, <2>8, <2>9
  <2>10. CASE q # r
    BY <2>3, <2>8, <2>10
  <2> QED
    BY <2>9, <2>10
<1> QED
  BY <1>1, <1>3, <1>4, <1>6, <1>7, <1>8 DEF LimitInv

LEMMA PutLimit ==
  ASSUME LimitInv, NEW r \in Requests, Put(r) \/ FoundNone(r)
  PROVE  LimitInv'
<1>1. Inv'
  BY PutInv, LookInv DEF LimitInv
<1>2. UNCHANGED <<notice, rows, file, asked, todo, own>>
  BY DEF Put, FoundNone
<1>3. \A q \in Requests : (InHand(q)' <=> InHand(q)) /\ (InHand(q) \/ pc'[q] = pc[q])
  BY DEF LimitInv, Inv, TypeOK, InHand, Put, FoundNone
<1>4. Claiming' = Claiming
  BY <1>2, <1>3 DEF Claiming
<1>5. Finite' /\ Counted' /\ Fits' /\ OneFile'
  BY <1>2, <1>3, <1>4 DEF LimitInv, Finite, Counted, Fits, OneFile
<1>6. \A q \in Requests : InHand(q) => pc'[q] \notin {"idle", "loaded", "erased"}
  BY <1>3 DEF InHand
<1>7. Alone' /\ OnlyAttaching'
  BY <1>2, <1>3, <1>6 DEF LimitInv, Alone, OnlyAttaching, InHand
<1>8. Whole'
  BY <1>2, <1>3 DEF LimitInv, Whole, ContentsOf, InHand
<1> QED
  BY <1>1, <1>5, <1>7, <1>8 DEF LimitInv

(* Places are never given to a request that has not counted.               *)
LEMMA FewerClaims ==
  ASSUME Claiming' \subseteq Claiming
  PROVE  /\ IsFiniteSet(Claiming)
         /\ Cardinality(Claiming) \in Nat
         /\ Cardinality(Claiming') \in Nat
         /\ Cardinality(Claiming') <= Cardinality(Claiming)
<1>1. Claiming \subseteq Requests
  BY DEF Claiming
<1> QED
  BY <1>1, FS_Subset, FS_CardinalityType

(* A file whose bytes are known has its content on a row already.          *)
LEMMA FoundExistingLimit ==
  ASSUME LimitInv, NEW r \in Requests, FoundExisting(r)
  PROVE  LimitInv'
<1>1. Inv'
  BY LookInv DEF LimitInv
<1>2. UNCHANGED <<notice, rows, asked, todo, own>>
  BY DEF FoundExisting
<1>3. pc[r] = "stored" /\ InHand(r) /\ pc'[r] = "attaching" /\ ~InHand(r)'
  BY DEF LimitInv, Inv, TypeOK, InHand, FoundExisting
<1>4. \A q \in Requests \ {r} :
        pc'[q] = pc[q] /\ file'[q] = file[q] /\ (InHand(q)' <=> InHand(q))
  BY DEF LimitInv, Inv, TypeOK, InHand, FoundExisting
<1>5. Finite' /\ Fits' /\ OneFile'
  BY <1>2, <1>3, <1>4 DEF LimitInv, Finite, Fits, OneFile
<1>6. Alone' /\ OnlyAttaching'
  BY <1>2, <1>3, <1>4 DEF LimitInv, Alone, OnlyAttaching
<1>7. Counted'
  <2>1. Claiming' \subseteq Claiming
    BY <1>2, <1>3, <1>4 DEF Claiming
  <2>2. Cardinality(rows) \in Nat /\ Cardinality(Requests) \in Nat
    BY FS_CardinalityType DEF LimitInv, Finite
  <2> QED
    BY <1>2, <2>1, <2>2, FewerClaims DEF LimitInv, Counted
<1>8. Whole'
  <2> SUFFICES ASSUME notice = "absent"
               PROVE  Whole'
    BY <1>2 DEF Whole
  <2>1. file[r].content \in ContentsOf(own[r])
    BY DEF LimitInv, Alone, FoundExisting, Known
  <2> QED
    BY <1>2, <1>3, <1>4, <2>1 DEF LimitInv, Whole, ContentsOf
<1> QED
  BY <1>1, <1>5, <1>6, <1>7, <1>8 DEF LimitInv

LEMMA InsertLimit ==
  ASSUME LimitInv, NEW r \in Requests, Insert(r)
  PROVE  LimitInv'
<1>1. Inv'
  BY InsertInv DEF LimitInv
<1>2. PICK d \in Row :
        d.file = file[r] /\ own' = [own EXCEPT ![r] = @ \cup {d}]
  <2>1. PICK id \in Ids :
          own' = [own EXCEPT ![r] = @ \cup {[id |-> id, file |-> file[r]]}]
    BY DEF Insert
  <2>2. file[r] \in Files
    BY DEF LimitInv, Inv, FileInHand, InHand, Insert
  <2> QED
    BY <2>1, <2>2 DEF Row
<1>3. UNCHANGED <<notice, rows, asked, todo>> /\ own'[r] = own[r] \cup {d}
  BY <1>2 DEF LimitInv, Inv, TypeOK, Insert
<1>4. pc[r] = "fresh" /\ InHand(r) /\ pc'[r] = "attaching" /\ ~InHand(r)'
  BY DEF LimitInv, Inv, TypeOK, InHand, Insert
<1>5. \A q \in Requests \ {r} :
        /\ pc'[q] = pc[q] /\ file'[q] = file[q] /\ own'[q] = own[q]
        /\ InHand(q)' <=> InHand(q)
  BY <1>2 DEF LimitInv, Inv, TypeOK, InHand, Insert
<1>6. /\ IsFiniteSet(own'[r])
      /\ Cardinality(own[r]) \in Nat
      /\ Cardinality(own'[r]) \in Nat
      /\ Cardinality(own'[r]) <= Cardinality(own[r]) + 1
  <2>1. IsFiniteSet(own[r])
    BY DEF LimitInv, Finite
  <2>2. /\ IsFiniteSet(own[r] \cup {d})
        /\ Cardinality(own[r] \cup {d}) =
             IF d \in own[r] THEN Cardinality(own[r]) ELSE Cardinality(own[r]) + 1
    BY <2>1, FS_AddElement
  <2>3. Cardinality(own[r]) \in Nat
    BY <2>1, FS_CardinalityType
  <2> QED
    BY <1>3, <2>2, <2>3
<1>7. Finite'
  BY <1>3, <1>5, <1>6 DEF LimitInv, Finite
<1>8. Alone' /\ OnlyAttaching'
  BY <1>3, <1>4, <1>5 DEF LimitInv, Alone, OnlyAttaching
<1>9. OneFile'
  BY <1>3, <1>4, <1>5 DEF LimitInv, OneFile
<1>10. Counted'
  <2>1. Claiming' = Claiming
    BY <1>3, <1>4, <1>5 DEF Claiming
  <2> QED
    BY <1>3, <2>1 DEF LimitInv, Counted
<1>11. Fits'
  <2> SUFFICES ASSUME notice = "absent", NEW q \in Requests
               PROVE  /\ Cardinality(own'[q]) <= Limit
                      /\ InHand(q)' => Cardinality(own'[q]) < Limit
    BY <1>3 DEF Fits
  <2>1. CASE q = r
    BY <1>4, <1>6, <2>1 DEF LimitInv, Fits
  <2>2. CASE q # r
    BY <1>5, <2>2 DEF LimitInv, Fits
  <2> QED
    BY <2>1, <2>2
<1>12. Whole'
  <2>1. ContentsOf(own'[r]) = ContentsOf(own[r]) \cup {file[r].content}
    BY <1>2, <1>3 DEF ContentsOf
  <2>2. file[r].content \in Contents
    BY <1>2 DEF Row, Contents
  <2>3. {c \in Contents : InHand(r) /\ c = file[r].content} = {file[r].content}
    BY <1>4, <2>2
  <2>4. {c \in Contents : InHand(r)' /\ c = file'[r].content} = {}
    BY <1>4
  <2>5. Whole
    BY DEF LimitInv
  <2>6. ASSUME notice = "absent"
        PROVE  {f.content : f \in asked'[r]} =
                 {f.content : f \in todo'[r]} \cup ContentsOf(own'[r]) \cup
                 {c \in Contents : InHand(r)' /\ c = file'[r].content}
    BY <1>3, <1>4, <2>1, <2>3, <2>4, <2>5, <2>6 DEF Whole
  <2> SUFFICES ASSUME notice = "absent", NEW q \in Requests, pc'[q] # "idle"
               PROVE  {f.content : f \in asked'[q]} =
                        {f.content : f \in todo'[q]} \cup ContentsOf(own'[q]) \cup
                        {c \in Contents : InHand(q)' /\ c = file'[q].content}
    BY <1>3 DEF Whole, ContentsOf
  <2>7. CASE q = r
    BY <2>6, <2>7
  <2>8. CASE q # r
    BY <1>3, <1>5, <2>5, <2>8 DEF Whole
  <2> QED
    BY <2>7, <2>8
<1> QED
  BY <1>1, <1>7, <1>8, <1>9, <1>10, <1>11, <1>12 DEF LimitInv

LEMMA EraseLimit ==
  ASSUME LimitInv, NEW r \in Requests, Erase(r)
  PROVE  LimitInv'
<1>1. Inv'
  BY EraseInv DEF LimitInv
<1>2. UNCHANGED <<notice, rows, file, asked, todo, own>>
  BY DEF Erase
<1>3. \A q \in Requests : (InHand(q)' <=> InHand(q)) /\ (q = r \/ pc'[q] = pc[q])
  BY DEF LimitInv, Inv, TypeOK, InHand, Erase
<1>4. pc[r] = "loaded" /\ pc'[r] = "erased"
  BY DEF LimitInv, Inv, TypeOK, Erase
<1>5. Claiming' = Claiming
  BY <1>2, <1>3 DEF Claiming
<1>6. Finite' /\ Counted' /\ Fits' /\ OneFile'
  BY <1>2, <1>3, <1>5 DEF LimitInv, Finite, Counted, Fits, OneFile
<1>7. Alone' /\ OnlyAttaching' /\ Whole'
  BY <1>2, <1>3, <1>4 DEF LimitInv, Alone, OnlyAttaching, Whole, ContentsOf
<1> QED
  BY <1>1, <1>6, <1>7 DEF LimitInv

(* A request that ends without adding a row.                               *)
LEMMA LeaveLimit ==
  ASSUME LimitInv, Inv', NEW r \in Requests, Leave(r),
         notice' = notice, rows' \subseteq rows
  PROVE  LimitInv'
<1>1. /\ pc'[r] = "idle" /\ own'[r] = {} /\ todo'[r] = {} /\ ~InHand(r)'
      /\ \A q \in Requests \ {r} :
           /\ pc'[q] = pc[q] /\ own'[q] = own[q] /\ todo'[q] = todo[q]
           /\ asked'[q] = asked[q] /\ file'[q] = file[q]
           /\ InHand(q)' <=> InHand(q)
  BY DEF LimitInv, Inv, TypeOK, InHand, Leave
<1>2. IsFiniteSet(own'[r]) /\ Cardinality(own'[r]) = 0
  BY <1>1, FS_EmptySet
<1>3. /\ IsFiniteSet(rows')
      /\ Cardinality(rows') <= Cardinality(rows)
      /\ Cardinality(rows') \in Nat
      /\ Cardinality(rows) \in Nat
  <2>1. IsFiniteSet(rows)
    BY DEF LimitInv, Finite
  <2> QED
    BY <2>1, FS_Subset, FS_CardinalityType
<1>4. Finite' /\ OnlyAttaching' /\ OneFile'
  <2>1. Finite'
    BY <1>1, <1>2, <1>3 DEF LimitInv, Finite
  <2>2. OnlyAttaching'
    BY <1>1 DEF LimitInv, OnlyAttaching
  <2>3. OneFile'
    BY <1>1 DEF LimitInv, OneFile
  <2> QED
    BY <2>1, <2>2, <2>3
<1>5. Alone'
  BY <1>1 DEF LimitInv, Alone
<1>6. Counted'
  <2>1. Claiming' \subseteq Claiming
    BY <1>1 DEF Claiming
  <2>2. Cardinality(Requests) \in Nat
    BY FS_CardinalityType
  <2> QED
    BY <1>3, <2>1, <2>2, FewerClaims DEF LimitInv, Counted
<1>7. Fits'
  <2> SUFFICES ASSUME notice = "absent", NEW q \in Requests
               PROVE  /\ Cardinality(own'[q]) <= Limit
                      /\ InHand(q)' => Cardinality(own'[q]) < Limit
    BY DEF Fits
  <2>1. CASE q = r
    <3>1. Limit \in Nat /\ Cardinality(own'[q]) = 0
      BY <1>2, <2>1, DocumentsAssumption
    <3>2. ~InHand(q)'
      BY <1>1, <2>1 DEF InHand
    <3>3. QED
      BY <3>1, <3>2
  <2>2. CASE q # r
    <3>1. /\ Cardinality(own[q]) <= Limit
          /\ InHand(q) => Cardinality(own[q]) < Limit
      BY DEF LimitInv, Fits
    <3>2. QED
      BY <1>1, <2>2, <3>1
  <2>3. QED
    BY <2>1, <2>2
<1>8. Whole'
  BY <1>1 DEF LimitInv, Whole, ContentsOf
<1> QED
  BY <1>4, <1>5, <1>6, <1>7, <1>8 DEF LimitInv

(* The place a request had becomes the place of its row.                   *)
LEMMA CommitLimit ==
  ASSUME LimitInv, NEW r \in Requests, Commit(r)
  PROVE  LimitInv'
<1>1. Inv'
  <2>1. /\ Leave(r) /\ UNCHANGED <<bytes, lost>> /\ rows' \subseteq rows \cup own[r]
        /\ notice' \in {"absent", "open", "converted"}
    BY DEF LimitInv, Inv, TypeOK, Commit
  <2> QED
    BY <2>1, LeaveInv DEF LimitInv
<1>2. /\ pc'[r] = "idle" /\ own'[r] = {} /\ todo'[r] = {} /\ ~InHand(r)'
      /\ \A q \in Requests \ {r} :
           /\ pc'[q] = pc[q] /\ own'[q] = own[q] /\ todo'[q] = todo[q]
           /\ InHand(q)' <=> InHand(q)
  BY DEF LimitInv, Inv, TypeOK, InHand, Leave, Commit
<1>3. notice' # "absent" /\ rows' = rows \cup own[r]
  BY DEF Commit
<1>4. Finite'
  <2>1. IsFiniteSet(rows) /\ IsFiniteSet(own[r])
    BY DEF LimitInv, Finite
  <2>2. IsFiniteSet(rows') /\ IsFiniteSet(own'[r])
    BY <1>2, <1>3, <2>1, FS_Union, FS_EmptySet
  <2> QED
    BY <1>2, <2>2 DEF LimitInv, Finite
<1>5. Alone' /\ Fits' /\ Whole'
  BY <1>3 DEF Alone, Fits, Whole
<1>6. OnlyAttaching'
  BY <1>2 DEF LimitInv, OnlyAttaching
<1>7. Cardinality(Requests) \in Nat
  BY FS_CardinalityType
<1>8. CASE notice = "absent"
  <2>1. rows' = own[r]
    BY <1>3, <1>8 DEF LimitInv, Alone
  <2>2. \A q \in Requests : pc'[q] = "idle" /\ own'[q] = {} /\ todo'[q] = {} /\ ~InHand(q)'
    <3>1. pc[r] # "idle"
      BY DEF Commit
    <3>2. \A q \in Requests \ {r} : pc[q] = "idle"
      BY <1>8, <3>1 DEF LimitInv, Alone
    <3> QED
      BY <1>2, <3>2 DEF LimitInv, OnlyAttaching, InHand
  <2>3. OneFile'
    BY <2>2 DEF OneFile
  <2>4. Claiming' = {} /\ Cardinality(Claiming') = 0
    BY <2>2, FS_EmptySet DEF Claiming
  <2>5. Cardinality(rows') <= Limit /\ Cardinality(rows') \in Nat
    BY <1>8, <2>1, FS_CardinalityType DEF LimitInv, Fits, Finite
  <2>6. Cardinality(Requests) >= 1
    BY <1>7, FS_EmptySet
  <2>7. Counted'
    BY <1>7, <2>4, <2>5, <2>6 DEF Counted
  <2> QED
    BY <1>1, <1>4, <1>5, <1>6, <2>3, <2>7 DEF LimitInv
<1>9. CASE notice # "absent"
  <2>1. OneFile'
    BY <1>2, <1>9 DEF LimitInv, OneFile
  <2>2. CASE own[r] = {}
    <3>1. notice' = notice /\ rows' \subseteq rows /\ Leave(r)
      BY <1>3, <1>9, <2>2 DEF Commit
    <3> QED
      BY <1>1, <3>1, LeaveLimit
  <2>3. CASE own[r] # {}
    <3>1. PICK d \in own[r] : own[r] = {d}
      BY <1>9, <2>3 DEF LimitInv, OneFile
    <3>2. r \in Claiming /\ Claiming' = Claiming \ {r}
      BY <1>2, <2>3 DEF Claiming
    <3>3. /\ Cardinality(Claiming') = Cardinality(Claiming) - 1
          /\ Cardinality(Claiming) \in Nat
      BY <3>2, FewerClaims, FS_RemoveElement
    <3>4. IsFiniteSet(rows)
      BY DEF LimitInv, Finite
    <3>5. /\ Cardinality(rows') =
               IF d \in rows THEN Cardinality(rows) ELSE Cardinality(rows) + 1
          /\ Cardinality(rows) \in Nat
      BY <1>3, <3>1, <3>4, FS_AddElement, FS_CardinalityType
    <3>6. Counted'
      BY <1>7, <1>9, <3>3, <3>5 DEF LimitInv, Counted
    <3> QED
      BY <1>1, <1>4, <1>5, <1>6, <2>1, <3>6 DEF LimitInv
  <2> QED
    BY <2>2, <2>3
<1> QED
  BY <1>8, <1>9

LEMMA NextLimitInv == LimitInv /\ [Next]_vars => LimitInv'
<1> SUFFICES ASSUME LimitInv, [Next]_vars
             PROVE  LimitInv'
  OBVIOUS
<1>1. Inv'
  BY NextInv DEF LimitInv
<1>2. CASE UNCHANGED vars
  <2>1. UNCHANGED <<notice, rows, pc, file, asked, todo, own>>
    BY <1>2 DEF vars
  <2>2. Claiming' = Claiming
    BY <2>1 DEF Claiming, InHand
  <2> QED
    BY <1>1, <2>1, <2>2 DEF LimitInv, Finite, Alone, OnlyAttaching, OneFile, Counted,
                            Fits, Whole, InHand, ContentsOf
<1>3. ASSUME NEW r \in Requests, CommitRemoval(r) \/ Abort(r)
      PROVE  LimitInv'
  <2>1. Leave(r) /\ notice' = notice /\ rows' \subseteq rows
    BY <1>3 DEF CommitRemoval, Abort
  <2> QED
    BY <1>1, <2>1, LeaveLimit
<1> QED
  BY <1>2, <1>3, BeginLimit, CountLimit, PutLimit, FoundExistingLimit, InsertLimit,
     EraseLimit, CommitLimit DEF Next, Attach

LEMMA LimitInvAlways == Spec => []LimitInv
BY InitLimitInv, NextLimitInv, PTL DEF Spec

(* Together the requests in flight pass the limit by one document for each *)
(* but one of them; a request alone never passes it.                       *)
THEOREM LimitCorrect == Spec => []LimitInFlight
<1>1. LimitInv => LimitInFlight
  <2> SUFFICES ASSUME LimitInv
               PROVE  Cardinality(rows) <= Limit + Cardinality(Requests) - 1
    BY DEF LimitInFlight
  <2>1. Cardinality(Requests) \in Nat /\ Cardinality(rows) \in Nat
    BY FS_CardinalityType DEF LimitInv, Finite
  <2>2. CASE notice = "absent"
    <3>1. Cardinality(rows) = 0
      BY <2>2, FS_EmptySet DEF LimitInv, Alone
    <3> QED
      BY <2>1, <3>1
  <2>3. CASE notice # "absent"
    <3>1. Cardinality(Claiming) \in Nat
      <4>1. Claiming \subseteq Requests
        BY DEF Claiming
      <4> QED
        BY <4>1, FS_Subset, FS_CardinalityType
    <3> QED
      BY <2>1, <2>3, <3>1 DEF LimitInv, Counted
  <2> QED
    BY <2>2, <2>3
<1> QED
  BY <1>1, LimitInvAlways, PTL

(* A notice is made with all the attachments of its e-mail.                *)
THEOREM EmailCorrect == Spec => EmailIsWhole
<1> DEFINE Made ==
      \A r \in Requests :
        notice = "absent" /\ notice' = "open" /\ pc[r] # "idle"
          => ContentsOf(rows') = {f.content : f \in asked[r]}
<1>1. LimitInv /\ Next => Made
  <2> SUFFICES ASSUME LimitInv, Next, NEW r \in Requests,
                      notice = "absent", notice' = "open", pc[r] # "idle"
               PROVE  ContentsOf(rows') = {f.content : f \in asked[r]}
    OBVIOUS
  <2>1. Commit(r)
    <3>1. PICK q \in Requests : Commit(q)
      BY DEF Next, Attach, Upload, Email, Begin, Count, Put, FoundExisting, FoundNone,
             Insert, Remove, Erase, CommitRemoval, Abort, Convert
    <3>2. pc[q] # "idle"
      BY <3>1 DEF Commit
    <3> QED
      BY <3>1, <3>2 DEF LimitInv, Alone
  <2>2. rows' = own[r] /\ todo[r] = {} /\ ~InHand(r)
    BY <2>1 DEF LimitInv, Alone, Commit, InHand
  <2>3. {f.content : f \in asked[r]} =
          {f.content : f \in todo[r]} \cup ContentsOf(own[r]) \cup
          {c \in Contents : InHand(r) /\ c = file[r].content}
    BY DEF LimitInv, Whole
  <2> QED
    BY <2>2, <2>3 DEF ContentsOf
<1>2. LimitInv /\ UNCHANGED vars => Made
  BY DEF vars
<1>3. LimitInv /\ [Next]_vars => [Made]_vars
  BY <1>1, <1>2
<1> QED
  BY <1>3, LimitInvAlways, PTL DEF Spec, EmailIsWhole
=============================================================================
