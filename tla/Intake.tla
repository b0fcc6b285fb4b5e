------------------------------- MODULE Intake --------------------------------
(***************************************************************************)
(* How a transaction and its paperwork come in, for one tenant: opening an *)
(* escrow (routes/transactions.py), attaching a file of the office drive   *)
(* and uploading a new one (routes/documents.py, the Google Drive adapter) *)
(* and the demo's seed and reset (routes/demo.py).                         *)
(*                                                                         *)
(* Every handler is a chain of awaits: a read, a decision, a write that    *)
(* may find the world changed.  Each await is a step.  The primary keys    *)
(* that make open and attach idempotent are derived from their inputs, so  *)
(* the insert decides; an upload's key is random and the drive has no keys *)
(* at all, only names that may repeat.                                     *)
(***************************************************************************)
EXTENDS Naturals, Sequences, SequencesExt

CONSTANTS
    Listings,    \* listings an escrow may be opened for
    DemoTxns,    \* the demo dataset's transactions, in order
    Named,       \* folders the office makes by hand or an upload asks for
    Terms,       \* escrow terms: dates and parties
    BadTerms,    \* those whose dates do not make a timeline
    Reqs,        \* HTTP requests
    None,        \* no row, no milestone, no folder
    PageSize,    \* results the drive returns per page
    MaxFolders,  \* bound: folders on the drive
    Regimes      \* the values of <<demo, orderly>> to consider

\* The id of a transaction is derived from its listing, one to one, and so
\* stands for it: a listing's transaction, milestone and folder bear its name.
Ids == Listings \cup Range(DemoTxns)

\* A random id is no derived one.
ConstantsFit ==
    /\ BadTerms \subseteq Terms
    /\ None \notin Ids \cup Terms
    /\ Listings \cap Range(DemoTxns) = {}
    /\ Named \subseteq Ids
    /\ DemoTxns \in Seq(Ids) \ {<<>>}
    /\ \A r \in Reqs : r \notin Ids \X Nat
    /\ PageSize \in Nat \ {0}
    /\ MaxFolders \in Nat
    /\ Regimes \subseteq BOOLEAN \X BOOLEAN

ASSUME IntakeAssumptions == ConstantsFit

VARIABLES
    demo,     \* are the demo routes mounted (ENABLE_DEMO_ROUTES)?
    orderly,  \* is it so that nobody else uploads or makes a folder during an upload?
    txns,     \* the transactions table: the terms of each, its milestones with it
    docs,     \* the documents table
    folders,  \* the drive's folders by creation time: their names
    files,    \* the drive's files by creation time: their folder, and are the bytes there?
    ledger,   \* files whose put the action ledger records as a success
    req       \* each request

intake_vars == <<demo, orderly, txns, docs, folders, files, ledger, req>>

NewReq == [op |-> "none", phase |-> "idle", txn |-> None, terms |-> None, milestone |-> None,
           name |-> None, folder |-> 0, file |-> 0, reset |-> FALSE, left |-> <<>>,
           code |-> 0, shown |-> FALSE]

Phases == {"idle", "open", "create", "reget", "detail", "require", "milestone", "attach",
           "upload", "mkdir", "meta", "media", "record", "persist", "reread",
           "seed", "clear", "plant", "done", "lost"}

Ops == {"none", "open", "attach", "upload", "seed"}
Codes == {0, 200, 201, 404, 409, 422, 500}
Maybe(S) == S \cup {None}

ReqRecords ==
    [op : Ops, phase : Phases, txn : Maybe(Ids), terms : Maybe(Terms),
     milestone : Maybe(Ids), name : Maybe(Ids), folder : Nat, file : Nat,
     reset : BOOLEAN, left : Seq(Ids), code : Codes, shown : BOOLEAN]

IntakeTypeOK ==
    /\ demo \in BOOLEAN /\ orderly \in BOOLEAN
    /\ txns \in [Ids -> Terms \cup {"demo", None}]
    /\ docs \subseteq [id : Reqs \cup (Ids \X Nat), txn : Ids, milestone : Maybe(Ids),
                       file : Nat]
    /\ folders \in Seq(Ids)
    /\ files \in Seq([parent : 1..Len(folders), full : BOOLEAN])
    /\ ledger \subseteq 1..Len(files)
    /\ req \in [Reqs -> ReqRecords]

Exists(t) == txns[t] # None

\* Escrows may be open already, and the drive may hold a folder with a file in it.
IntakeInit ==
    /\ \E r \in Regimes : demo = r[1] /\ orderly = r[2]
    /\ txns \in [Ids -> Terms \cup {None}]
    /\ \A t \in Ids : Exists(t) => t \in Listings /\ txns[t] \notin BadTerms
    /\ docs = {}
    /\ \/ folders = <<>> /\ files = <<>>
       \/ \E l \in Listings : folders = <<l>> /\ files = <<[parent |-> 1, full |-> TRUE]>>
    /\ ledger = {}
    /\ req = [r \in Reqs |-> NewReq]

At(r, phase) == req[r].phase = phase
InFlight == {r \in Reqs : req[r].phase \notin {"idle", "done", "lost"}}
Goto(r, phase) == req' = [req EXCEPT ![r].phase = phase]
Reply(r, code) == req' = [req EXCEPT ![r].phase = "done", ![r].code = code]

Uploading == \E r \in InFlight : req[r].op = "upload"

drive == <<folders, files>>
-----------------------------------------------------------------------------
\* POST /transactions.

_same_terms(r) == txns[req[r].txn] = req[r].terms

\* An existing transaction: the same terms replay, others conflict.
_replay_or_conflict(r) ==
    IF _same_terms(r) THEN req' = [req EXCEPT ![r].phase = "detail", ![r].code = 200]
    ELSE Reply(r, 409)

\* Inconsistent dates are refused before anything is read.
open_transaction(r) ==
    /\ At(r, "open")
    /\ IF req[r].terms \in BadTerms THEN Reply(r, 422)
       ELSE IF Exists(req[r].txn) THEN _replay_or_conflict(r)
       ELSE Goto(r, "create")
    /\ UNCHANGED <<txns, docs, drive, ledger>>

\* A create that writes over the row it meets.
CreateOver(r) ==
    /\ At(r, "create")
    /\ txns' = [txns EXCEPT ![req[r].txn] = req[r].terms]
    /\ req' = [req EXCEPT ![r].phase = "detail", ![r].code = 201]
    /\ UNCHANGED <<docs, drive, ledger>>

\* The row and its milestones in one transaction; the primary key decides.  Who
\* lost to a concurrent open reads the winner, which may be gone by then.
create_transaction(r) ==
    /\ \/ /\ At(r, "create") /\ ~Exists(req[r].txn)
          /\ txns' = [txns EXCEPT ![req[r].txn] = req[r].terms]
          /\ req' = [req EXCEPT ![r].phase = "detail", ![r].code = 201]
       \/ /\ At(r, "create") /\ Exists(req[r].txn)
          /\ Goto(r, "reget") /\ UNCHANGED txns
       \/ /\ At(r, "reget")
          /\ IF Exists(req[r].txn) THEN _replay_or_conflict(r) ELSE Reply(r, 500)
          /\ UNCHANGED txns
    /\ UNCHANGED <<docs, drive, ledger>>

\* The answer's body is read after the write: milestones, then documents.
_detail(r) ==
    /\ At(r, "detail")
    /\ req' = [req EXCEPT ![r].phase = "done", ![r].shown = Exists(req[r].txn)]
    /\ UNCHANGED <<txns, docs, drive, ledger>>
-----------------------------------------------------------------------------
\* Documents: attach a file of the drive, or upload one and attach it.

\* The transaction must exist; a milestone, if one is named, must be its own.
_require_transaction(r) ==
    /\ At(r, "require")
    /\ IF Exists(req[r].txn) THEN Goto(r, "milestone") ELSE Reply(r, 404)
    /\ UNCHANGED <<txns, docs, drive, ledger>>

_validate_milestone(r) ==
    LET m == req[r].milestone IN
    /\ At(r, "milestone")
    /\ IF m # None /\ (m # req[r].txn \/ ~Exists(m)) THEN Reply(r, 422)
       ELSE Goto(r, req[r].op)
    /\ UNCHANGED <<txns, docs, drive, ledger>>

\* files.get: a 404 of the drive is the caller's 404, any other failure raises.
attach_document(r) ==
    /\ At(r, "attach")
    /\ \/ IF req[r].file \in 1..Len(files) THEN Goto(r, "persist") ELSE Reply(r, 404)
       \/ Reply(r, 500)
    /\ UNCHANGED <<txns, docs, drive, ledger>>

\* An attachment's id is derived from the transaction and the file, an
\* upload's is random.
_document_id(r) == IF req[r].op = "attach" THEN <<req[r].txn, req[r].file>> ELSE r

\* Add the row; a duplicate is read back and replayed.
_persist(r) ==
    LET stored == \E d \in docs : d.id = _document_id(r)
        document == [id |-> _document_id(r), txn |-> req[r].txn,
                     milestone |-> req[r].milestone, file |-> req[r].file]
    IN
    /\ \/ /\ At(r, "persist") /\ ~stored
          /\ docs' = docs \cup {document}
          /\ Reply(r, 201)
       \/ /\ At(r, "persist") /\ stored
          /\ Goto(r, "reread") /\ UNCHANGED docs
       \/ /\ At(r, "reread")
          /\ Reply(r, IF stored THEN 200 ELSE 500) /\ UNCHANGED docs
    /\ UNCHANGED <<txns, drive, ledger>>
-----------------------------------------------------------------------------
\* The drive and its adapter.

\* A query followed to exhaustion: rest[k] is what comes after the first k results,
\* a page of it and, while the drive hands out a nextPageToken, the rest of the rest.
_search(found) ==
    LET n == Len(found)
        rest[k \in 0..n] ==
            IF k + PageSize < n
            THEN SubSeq(found, k + 1, k + PageSize) \o rest[k + PageSize]
            ELSE SubSeq(found, k + 1, n)
    IN  rest[0]

\* files.list of the drive: those of its first n entries that match, oldest first.
list_files(n, matching) ==
    LET listed[i \in 0..n] ==
            IF i = 0 THEN <<>>
            ELSE IF i \in matching THEN Append(listed[i - 1], i) ELSE listed[i - 1]
    IN  listed[n]

\* Folders of that name, by creation time.
FoldersNamed(name) ==
    _search(list_files(Len(folders), {i \in DOMAIN folders : folders[i] = name}))

\* The newest folder of that name.
FindNewestFolder(name) ==
    IF FoldersNamed(name) = <<>> THEN 0 ELSE Last(FoldersNamed(name))

\* Names repeat on the drive: the oldest folder is the one.  Nobody moves a folder or
\* a file to the drive's trash here, so `trashed = false` leaves out nothing.
_find_folder_id(name) ==
    IF FoldersNamed(name) = <<>> THEN 0 ELSE Head(FoldersNamed(name))

\* What browsing the folder shows.
list(name) ==
    IF _find_folder_id(name) = 0 THEN <<>>
    ELSE _search(list_files(Len(files), {i \in DOMAIN files :
                                           files[i].parent = _find_folder_id(name)}))

\* The folder defaults to the listing's; put looks for it ...
upload_document(r) ==
    LET name  == IF req[r].name = None THEN req[r].txn ELSE req[r].name
        found == _find_folder_id(name)
    IN
    /\ At(r, "upload")
    /\ req' = [req EXCEPT ![r].phase = IF found = 0 THEN "mkdir" ELSE "meta",
                          ![r].name = name, ![r].folder = found]
    /\ UNCHANGED <<txns, docs, drive, ledger>>

\* ... creates it where there was none ...
_create_folder(r) ==
    /\ At(r, "mkdir")
    /\ folders' = Append(folders, req[r].name)
    /\ req' = [req EXCEPT ![r].phase = "meta", ![r].folder = Len(folders')]
    /\ UNCHANGED <<txns, docs, files, ledger>>

\* A put that answers once the entry is made.
PutEntryOnly(r) ==
    /\ At(r, "meta")
    /\ files' = Append(files, [parent |-> req[r].folder, full |-> FALSE])
    /\ req' = [req EXCEPT ![r].phase = "record", ![r].file = Len(files')]
    /\ UNCHANGED <<txns, docs, folders, ledger>>

\* ... makes the file's entry and then sends the bytes.
put(r) ==
    /\ \/ /\ At(r, "meta")
          /\ files' = Append(files, [parent |-> req[r].folder, full |-> FALSE])
          /\ req' = [req EXCEPT ![r].phase = "media", ![r].file = Len(files')]
       \/ /\ At(r, "media")
          /\ files' = [files EXCEPT ![req[r].file].full = TRUE]
          /\ Goto(r, "record")
    /\ UNCHANGED <<txns, docs, folders, ledger>>

\* The recording seam around put: a success is recorded; a call to the drive that
\* fails or times out is recorded as a failure and raised, and what the earlier
\* calls made stays on the drive.  The idempotency seam passes a call without a
\* workflow run straight through, and a route has none.
RecordingFiles(r) ==
    /\ \/ /\ At(r, "record")
          /\ ledger' = ledger \cup {req[r].file}
          /\ Goto(r, "persist")
       \/ /\ req[r].phase \in {"upload", "mkdir", "meta", "media"}
          /\ Reply(r, 500) /\ UNCHANGED ledger
    /\ UNCHANGED <<txns, docs, drive>>

\* The office works on the same drive: a folder with a name already in use.
StaffFolder(name) ==
    /\ Len(folders) < MaxFolders
    /\ orderly => ~Uploading
    /\ folders' = Append(folders, name)
    /\ UNCHANGED <<txns, docs, files, ledger, req>>
-----------------------------------------------------------------------------
\* POST /demo/seed.

\* Unless asked to start over, a database with anything in it is left alone.
seed_demo_data(r) ==
    /\ At(r, "seed")
    /\ IF req[r].reset THEN Goto(r, "clear")
       ELSE IF \E t \in Ids : Exists(t) THEN Reply(r, 200)
       ELSE Goto(r, "plant")
    /\ UNCHANGED <<txns, docs, drive, ledger>>

\* Transactions and milestones go, documents stay.
clear(r) ==
    /\ At(r, "clear")
    /\ txns' = [t \in Ids |-> None]
    /\ Goto(r, "plant")
    /\ UNCHANGED <<docs, drive, ledger>>

\* The dataset row by row; a row that is already there raises.
demo_transactions(r) ==
    LET t == Head(req[r].left) IN
    /\ At(r, "plant")
    /\ IF Exists(t) THEN Reply(r, 500) /\ UNCHANGED txns
       ELSE /\ txns' = [txns EXCEPT ![t] = "demo"]
            /\ IF Len(req[r].left) = 1 THEN Reply(r, 200)
               ELSE req' = [req EXCEPT ![r].left = Tail(@)]
    /\ UNCHANGED <<docs, drive, ledger>>
-----------------------------------------------------------------------------
\* The process dies: whatever was in flight is lost where it stood.
Crash ==
    /\ InFlight # {}
    /\ req' = [r \in Reqs |-> IF r \in InFlight THEN [req[r] EXCEPT !.phase = "lost"]
                              ELSE req[r]]
    /\ UNCHANGED <<txns, docs, drive, ledger>>

\* A request comes in.
Request(r, new) ==
    /\ At(r, "idle")
    /\ req' = [req EXCEPT ![r] = new]
    /\ UNCHANGED <<txns, docs, drive, ledger>>

Requests(r) ==
    \/ \E l \in Listings, terms \in Terms :
         Request(r, [NewReq EXCEPT !.op = "open", !.phase = "open", !.txn = l, !.terms = terms])
    \/ \E t \in Ids, m \in Maybe(Ids), f \in 1..(Len(files) + 1) :
         Request(r, [NewReq EXCEPT !.op = "attach", !.phase = "require", !.txn = t,
                                   !.milestone = m, !.file = f])
    \/ \E t \in Ids, m \in Maybe(Ids), folder \in Maybe(Named) :
         /\ orderly => ~Uploading
         /\ Request(r, [NewReq EXCEPT !.op = "upload", !.phase = "require", !.txn = t,
                                      !.milestone = m, !.name = folder])
    \/ \E reset \in BOOLEAN :
         /\ demo
         /\ Request(r, [NewReq EXCEPT !.op = "seed", !.phase = "seed", !.reset = reset,
                                      !.left = DemoTxns])

Step(r) ==
    \/ open_transaction(r) \/ create_transaction(r) \/ _detail(r)
    \/ _require_transaction(r) \/ _validate_milestone(r) \/ attach_document(r) \/ _persist(r)
    \/ upload_document(r) \/ _create_folder(r) \/ put(r) \/ RecordingFiles(r)
    \/ seed_demo_data(r) \/ clear(r) \/ demo_transactions(r)

IntakeNext ==
    /\ \/ \E r \in Reqs : Requests(r) \/ Step(r)
       \/ \E name \in Named : StaffFolder(name)
       \/ Crash
    /\ UNCHANGED <<demo, orderly>>

IntakeSpec == IntakeInit /\ [][IntakeNext]_intake_vars
-----------------------------------------------------------------------------
Answered(op, code) == {r \in Reqs : At(r, "done") /\ req[r].op = op /\ req[r].code = code}

\* However opens of one listing overlap, outside the demo: one of them is told it
\* opened the escrow, and on its terms; who is told "already open" asked for the
\* stored terms, who is told of a conflict for others; the two that succeed see the
\* timeline in their answer; and nobody meets an internal error.
OpenAnswersHonestly ==
    ~demo =>
      /\ \A r \in Answered("open", 201) \cup Answered("open", 200) :
            _same_terms(r) /\ req[r].shown
      /\ \A r, q \in Answered("open", 201) : req[r].txn = req[q].txn => r = q
      /\ \A r \in Answered("open", 409) : Exists(req[r].txn) /\ ~_same_terms(r)
      /\ Answered("open", 500) = {}

\* A document row points at something: its file is on the drive, its milestone is
\* its transaction's, outside the demo its transaction exists; and what was
\* uploaded has its bytes and a ledger entry, whichever call to the drive fails and
\* wherever the process dies.
DocumentsAreBacked ==
    \A d \in docs :
        /\ d.file \in 1..Len(files)
        /\ d.milestone \in {None, d.txn}
        /\ ~demo => Exists(d.txn)
        /\ d.id \in Reqs => files[d.file].full /\ d.file \in ledger

\* Where nobody else works on the drive during an upload, what was uploaded to a
\* folder shows up when the folder is browsed, although at other times the office
\* may give further folders the same name, an upload may have died half way, and a
\* listing comes in pages.
UploadsAreListed ==
    orderly => \A r \in Answered("upload", 201) : req[r].file \in Range(list(req[r].name))
-----------------------------------------------------------------------------
(***************************************************************************)
(* The inductive invariant behind the theorems on Intake (RouteProofs).    *)
(***************************************************************************)
\* What kind of request may stand where.  A request has no code until it is
\* answered, but for an open whose answer is being read back.
Opening == {"open", "create", "reget", "detail"}
Putting == {"upload", "mkdir", "meta", "media", "record"}
Filed == Putting \cup {"attach", "persist", "reread"}
Seeding == {"seed", "clear", "plant"}

PhaseOk(q) ==
    /\ q.phase \in Opening => q.op = "open"
    /\ q.phase \in Putting => q.op = "upload"
    /\ q.phase = "attach" => q.op = "attach"
    /\ q.phase \in Filed \cup {"require", "milestone"} => q.op \in {"attach", "upload"}
    /\ q.phase \in Seeding => q.op = "seed" /\ demo /\ q.left # <<>>
    /\ q.op = "open" => q.txn \in Ids /\ q.terms \in Terms
    /\ q.op \in {"attach", "upload"} => q.txn \in Ids /\ q.milestone \in Maybe(Ids)
    /\ q.phase = "detail" => q.code \in {200, 201}
    /\ q.phase \notin {"detail", "done", "lost"} => q.code = 0

\* Outside the demo an open that got through, or lost, agrees with the stored row.
OpenOk(q) ==
    q.op = "open" =>
        /\ q.phase = "reget" => txns[q.txn] # None
        /\ q.code \in {200, 201} => txns[q.txn] = q.terms
        /\ q.phase = "done" /\ q.code \in {200, 201} => q.shown
        /\ q.code = 409 => txns[q.txn] \notin {None, q.terms}
        /\ q.code # 500

\* What a document request has established by the time it stands at its phase.
FileOk(q) ==
    /\ q.phase \in Filed => q.milestone \in {None, q.txn}
    /\ q.phase = "mkdir" => q.name \in Ids
    /\ q.phase = "meta" => q.folder \in 1..Len(folders)
    /\ q.phase \in Filed \cup {"milestone"} /\ ~demo => txns[q.txn] # None
    /\ q.phase \in {"media", "record", "persist", "reread"} => q.file \in 1..Len(files)
    /\ q.phase \in {"record", "persist", "reread"} /\ q.op = "upload" => files[q.file].full
    /\ q.phase \in {"persist", "reread"} /\ q.op = "upload" => q.file \in ledger

Creators == {r \in Reqs : req[r].op = "open" /\ req[r].code = 201}
OneCreator == \A r, q \in Creators : req[r].txn = req[q].txn => r = q

\* Where an upload is alone on the drive: the folder it found or made is the oldest of
\* its name, and stays so; at "mkdir" there is still none; its file lies in it.
IsOldest(f, name) ==
    f \in 1..Len(folders) /\ folders[f] = name /\ \A j \in 1..(f - 1) : folders[j] # name

UploadOk(q) ==
    q.op = "upload" =>
        /\ q.phase = "mkdir" => \A j \in 1..Len(folders) : folders[j] # q.name
        /\ q.phase \in {"meta", "media", "record", "persist", "reread"} \/ q.code = 201
             => IsOldest(q.folder, q.name)
        /\ q.phase \in {"media", "record", "persist", "reread"} \/ q.code = 201
             => q.file \in 1..Len(files) /\ files[q.file].parent = q.folder

Alone == \A r, q \in InFlight : req[r].op = "upload" /\ req[q].op = "upload" => r = q

UploadInv == orderly => Alone /\ \A r \in Reqs : UploadOk(req[r])

OpenInv == ~demo => OneCreator /\ \A r \in Reqs : OpenOk(req[r])

IntakeInv ==
    /\ IntakeTypeOK
    /\ \A r \in Reqs : PhaseOk(req[r])
    /\ OpenInv
    /\ \A r \in Reqs : FileOk(req[r])
    /\ DocumentsAreBacked
    /\ UploadInv
=============================================================================
