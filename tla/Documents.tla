----------------------------- MODULE Documents ------------------------------
(***************************************************************************)
(* The documents of a notice: rows in the database, bytes in a store.      *)
(*                                                                         *)
(* A request attaches documents (an upload, an e-mail with attachments) or *)
(* removes one.  The rows are written in its transaction, READ COMMITTED;  *)
(* the store knows nothing of transactions, so what was put or deleted     *)
(* there stays when the transaction does not.  The key of the bytes is made*)
(* of their checksum and of the name they came under.                      *)
(***************************************************************************)
EXTENDS Naturals, FiniteSets

CONSTANTS
  Requests,    \* requests in flight at the same time
  Files,       \* what may be sent: bytes under a name
  NoFile,      \* a request has none in hand
  NoBytes,     \* nothing is stored under a key
  Limit,       \* max_documents_per_case
  Ids,         \* primary keys of rows; bound: those that can be in use
  Handlers     \* the routes that are called

ASSUME DocumentsAssumption ==
  /\ \A f \in Files : f = [content |-> f.content, name |-> f.name]
  /\ NoFile \notin Files
  /\ NoBytes \notin {f.content : f \in Files}
  /\ Limit \in Nat \ {0}
  /\ IsFiniteSet(Requests)

VARIABLES
  notice,      \* the status of the notice, as far as documents depend on it
  rows,        \* the committed rows
  bytes,       \* what is stored under each key
  pc,          \* how far each request is
  file,        \* the file it is attaching
  asked,       \* the files it was sent with
  todo,        \* those it has not come to yet
  own,         \* the rows it has flushed and not committed
  doomed,      \* the row it removes
  lost       \* history: the files whose bytes a removal deleted last

session == <<pc, file, asked, todo, own, doomed>>

vars == <<notice, rows, bytes, pc, file, asked, todo, own, doomed, lost>>

Contents == {f.content : f \in Files}

Row == [id: Ids, file: Files]

KeyOfName(f) == <<"fnol", f.name>>                             \* mutant

Key(f) == <<f.content, f.name>>

Keys == {Key(f) : f \in Files}

TypeOK ==
  /\ notice \in {"absent", "open", "converted"}
  /\ rows \subseteq Row
  /\ bytes \in [Keys -> Contents \cup {NoBytes}]
  /\ pc \in [Requests -> {"idle", "attaching", "counted", "stored", "fresh",
                          "loaded", "erased"}]
  /\ file \in [Requests -> Files \cup {NoFile}]
  /\ asked \in [Requests -> SUBSET Files]
  /\ todo \in [Requests -> SUBSET Files]
  /\ own \in [Requests -> SUBSET Row]
  /\ doomed \in [Requests -> SUBSET Row]
  /\ lost \subseteq Files

ContentsOf(R) == {d.file.content : d \in R}

Stored(f) == bytes[Key(f)] # NoBytes

Init ==
  /\ notice \in {"absent", "open"}
  /\ rows = {}
  /\ bytes = [k \in Keys |-> NoBytes]
  /\ pc = [r \in Requests |-> "idle"]
  /\ file = [r \in Requests |-> NoFile]
  /\ asked = [r \in Requests |-> {}]
  /\ todo = [r \in Requests |-> {}]
  /\ own = [r \in Requests |-> {}]
  /\ doomed = [r \in Requests |-> {}]
  /\ lost = {}

-----------------------------------------------------------------------------
Leave(r) ==
  /\ pc' = [pc EXCEPT ![r] = "idle"]
  /\ file' = [file EXCEPT ![r] = NoFile]
  /\ asked' = [asked EXCEPT ![r] = {}]
  /\ todo' = [todo EXCEPT ![r] = {}]
  /\ own' = [own EXCEPT ![r] = {}]
  /\ doomed' = [doomed EXCEPT ![r] = {}]

Begin(r, files) ==
  /\ pc[r] = "idle"
  /\ pc' = [pc EXCEPT ![r] = "attaching"]
  /\ asked' = [asked EXCEPT ![r] = files]
  /\ todo' = [todo EXCEPT ![r] = files]
  /\ UNCHANGED <<notice, rows, bytes, file, own, doomed, lost>>

Upload(r) ==
  /\ "upload_document" \in Handlers
  /\ notice = "open"
  /\ \E f \in Files : Begin(r, {f})

(* The notice is made in the same transaction, so nobody else sees it; a   *)
(* second delivery of the message waits for the first.                     *)
Email(r) ==
  /\ "ingest_email" \in Handlers
  /\ notice = "absent"
  /\ \A q \in Requests : pc[q] = "idle"
  /\ \E files \in SUBSET Files : Begin(r, files)

-----------------------------------------------------------------------------
(***************************************************************************)
(* attach_document, for each file in turn.                                 *)
(***************************************************************************)
FullLate(r) == Cardinality(rows \cup own[r]) > Limit           \* mutant

Full(r) == Cardinality(rows \cup own[r]) >= Limit

CountOrSkip(r) ==                                              \* mutant
  /\ pc[r] = "attaching"
  /\ \E f \in todo[r] :
       /\ todo' = [todo EXCEPT ![r] = @ \ {f}]
       /\ IF Full(r) THEN UNCHANGED <<pc, file>>
          ELSE /\ file' = [file EXCEPT ![r] = f]
               /\ pc' = [pc EXCEPT ![r] = "counted"]
  /\ UNCHANGED <<notice, rows, bytes, asked, own, doomed, lost>>

(* A notice that carries enough refuses the request: Abort.                *)
Count(r) ==
  /\ pc[r] = "attaching"
  /\ ~Full(r)
  /\ \E f \in todo[r] :
       /\ todo' = [todo EXCEPT ![r] = @ \ {f}]
       /\ file' = [file EXCEPT ![r] = f]
  /\ pc' = [pc EXCEPT ![r] = "counted"]
  /\ UNCHANGED <<notice, rows, bytes, asked, own, doomed, lost>>

(* The bytes are stored before their row is looked for.                    *)
Put(r) ==
  /\ pc[r] = "counted"
  /\ bytes' = [bytes EXCEPT ![Key(file[r])] = file[r].content]
  /\ lost' = lost \ {file[r]}
  /\ pc' = [pc EXCEPT ![r] = "stored"]
  /\ UNCHANGED <<notice, rows, file, asked, todo, own, doomed>>

Known(r) == file[r].content \in ContentsOf(rows \cup own[r])

(* The same bytes are one document, under whatever name they come again.   *)
FoundExisting(r) ==
  /\ pc[r] = "stored"
  /\ Known(r)
  /\ pc' = [pc EXCEPT ![r] = "attaching"]
  /\ file' = [file EXCEPT ![r] = NoFile]
  /\ UNCHANGED <<notice, rows, bytes, asked, todo, own, doomed, lost>>

FoundNone(r) ==
  /\ pc[r] = "stored"
  /\ ~Known(r)
  /\ pc' = [pc EXCEPT ![r] = "fresh"]
  /\ UNCHANGED <<notice, rows, bytes, file, asked, todo, own, doomed, lost>>

UsedIds == {d.id : d \in rows \cup UNION {own[q] \cup doomed[q] : q \in Requests}}

(* The unique index: an entry another request has flushed is waited for, an*)
(* entry that is committed refuses the row (Abort).                        *)
Insert(r) ==
  /\ pc[r] = "fresh"
  /\ \A q \in Requests : file[r].content \notin ContentsOf(rows \cup own[q])
  /\ Ids \ UsedIds # {}
  /\ LET id == CHOOSE i \in Ids \ UsedIds : TRUE IN
     own' = [own EXCEPT ![r] = @ \cup {[id |-> id, file |-> file[r]]}]
  /\ pc' = [pc EXCEPT ![r] = "attaching"]
  /\ file' = [file EXCEPT ![r] = NoFile]
  /\ UNCHANGED <<notice, rows, bytes, asked, todo, doomed, lost>>

Commit(r) ==
  /\ pc[r] = "attaching"
  /\ todo[r] = {}
  /\ rows' = rows \cup own[r]
  /\ notice' = IF notice = "absent" THEN "open" ELSE notice
  /\ Leave(r)
  /\ UNCHANGED <<bytes, lost>>

-----------------------------------------------------------------------------
(***************************************************************************)
(* remove_document.                                                        *)
(***************************************************************************)
(* The row and the status are those the session has loaded.                *)
Remove(r) ==
  /\ "delete_document" \in Handlers
  /\ pc[r] = "idle"
  /\ notice = "open"
  /\ \E d \in rows : doomed' = [doomed EXCEPT ![r] = {d}]
  /\ pc' = [pc EXCEPT ![r] = "loaded"]
  /\ UNCHANGED <<notice, rows, bytes, file, asked, todo, own, lost>>

(* The bytes go at once, the row when the transaction commits.             *)
Erase(r) ==
  /\ pc[r] = "loaded"
  /\ bytes' = [k \in Keys |->
                 IF \E d \in doomed[r] : k = Key(d.file) THEN NoBytes ELSE bytes[k]]
  /\ lost' = lost \cup {d.file : d \in doomed[r]}
  /\ pc' = [pc EXCEPT ![r] = "erased"]
  /\ UNCHANGED <<notice, rows, file, asked, todo, own, doomed>>

(* By its primary key: a row another request has removed is none.          *)
CommitRemoval(r) ==
  /\ pc[r] = "erased"
  /\ rows' = rows \ doomed[r]
  /\ Leave(r)
  /\ UNCHANGED <<notice, bytes, lost>>

-----------------------------------------------------------------------------
AbortErases(r) ==                                              \* mutant
  /\ pc[r] # "idle"
  /\ bytes' = [k \in Keys |->
                 IF \E f \in asked[r] : k = Key(f) THEN NoBytes ELSE bytes[k]]
  /\ Leave(r)
  /\ UNCHANGED <<notice, rows, lost>>

(* A refusal, an error of the store or of the database, a killed process:  *)
(* nothing of the transaction stays, and all of what was stored does.      *)
Abort(r) ==
  /\ pc[r] # "idle"
  /\ Leave(r)
  /\ UNCHANGED <<notice, rows, bytes, lost>>

(* The notice becomes a claim, or is one already.                          *)
Convert(r) ==
  /\ "create_claim" \in Handlers
  /\ pc[r] = "idle"
  /\ notice # "absent"
  /\ notice' = "converted"
  /\ UNCHANGED <<rows, bytes, session, lost>>

Attach(r) ==
  \/ Count(r) \/ Put(r) \/ FoundExisting(r) \/ FoundNone(r) \/ Insert(r)

Next ==
  \E r \in Requests :
    \/ Upload(r) \/ Email(r) \/ Attach(r) \/ Commit(r)
    \/ Remove(r) \/ Erase(r) \/ CommitRemoval(r)
    \/ Abort(r) \/ Convert(r)

Spec == Init /\ [][Next]_vars

-----------------------------------------------------------------------------
(***************************************************************************)
(* What is promised.                                                       *)
(***************************************************************************)
(* A download never answers bytes other than those the row was made of: no *)
(* file sent again under the same name, no orphan of a request that was    *)
(* rolled back and no other notice's file is found under the key.          *)
BytesAreTheRows ==
  \A d \in rows : Stored(d.file) => bytes[Key(d.file)] = d.file.content

(* A row is without its bytes only if a removal of this very file deleted  *)
(* them, and nobody stored them since: attaching, failing, being delivered *)
(* again and removing another document never take them.                    *)
LostOnlyByRemoval ==
  \A d \in rows : Stored(d.file) \/ d.file \in lost

(* Requests that count at the same time may pass the limit together, each  *)
(* by one document; a request alone never does.                            *)
LimitInFlight ==
  Cardinality(rows) <= Limit + Cardinality(Requests) - 1

(* An e-mail becomes a notice with everything that was attached to it, or  *)
(* no notice at all.                                                       *)
EmailIsWhole ==
  [][\A r \in Requests :
       notice = "absent" /\ notice' = "open" /\ pc[r] # "idle"
         => ContentsOf(rows') = {f.content : f \in asked[r]}]_vars
=============================================================================
