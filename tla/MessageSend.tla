----------------------------- MODULE MessageSend -----------------------------
(***************************************************************************)
(* The outbound-message lifecycle: MessageSendService, the routes that     *)
(* call it (direct send, admin retry), the gate nodes that call it         *)
(* (approve, reject) and the delivery-status webhook, over one comms       *)
(* history row per message.                                                *)
(*                                                                         *)
(* Every handler is a coroutine of the API server: each read of the row,   *)
(* each save, the claim at the write boundary, the provider call and the   *)
(* recording of its result are separate steps, and save_message writes the *)
(* whole row from the handler's own snapshot.  The write boundary is kept  *)
(* to what a send sees of it (Idempotency.tla has the rest).               *)
(***************************************************************************)
EXTENDS Naturals, FiniteSets

CONSTANTS
    Direct,      \* messages of POST /messages/send, one per (request id, content)
    Content,     \* the rendered text of each direct message
    Drafted,     \* messages drafted by a workflow run for approval
    Handlers,    \* invocations of a route or of a graph node
    Regimes,     \* the values of orderly to consider
    NoRow, NoSid

Messages == Direct \cup Drafted

ASSUME MessageAssumptions ==
    /\ Direct \cap Drafted = {}
    /\ Content \in [Direct -> {"plain", "secret"}]
    /\ Regimes \subseteq BOOLEAN
    /\ NoSid \notin Handlers
    /\ {"absent", "pending"} \cap Handlers = {}
    /\ Messages # {}

\* Message text: "secret" has a credential shape in it, "redacted" is the same
\* text after the DLP rules, "plain" has none.
Texts == {"plain", "secret", "redacted"}

MessageStatus == {"DRAFTED", "PENDING_APPROVAL", "SENT", "DELIVERED", "FAILED",
                  "REJECTED"}

STATUS_RANK == [s \in MessageStatus |->
    CASE s = "DRAFTED" -> 0
      [] s = "PENDING_APPROVAL" -> 1
      [] s = "SENT" -> 2
      [] OTHER -> 3]

Rows == [status : MessageStatus, text : Texts, sid : Handlers \cup {NoSid}]

ASSUME NoRowAssumption == NoRow \notin Rows

Kinds == {"direct", "draft", "approve", "reject", "retry"}
Phases == {"idle", "save_draft", "read", "save_edit", "claim", "provider",
           "complete", "save_failed", "save_sent", "read_reject",
           "save_rejected", "done", "crashed"}

\* A send's idempotency key: the run that issues it and the message's semantic
\* fields.  A direct send or an approval runs under the message's own run, a
\* retry under a fresh one, named here by its handler.
Keys == (Messages \cup Handlers) \X Messages \X Texts

VARIABLES
    orderly,   \* does the environment keep requests, decisions and callbacks
               \* for one message from overlapping, and the process up?
    row,       \* outbound_messages, by message
    claims,    \* idempotency_keys: "absent", "pending", or the stored sid
    sent,      \* what the provider accepted: [msg, text, by]
    fate,      \* what became of an accepted message, by sid
    callbacks, \* webhook calls that have looked their row up
    decision,  \* the verdicts humans have given on each drafted message
    kind, msg, pc, snap   \* each handler: what it is, on which message, where,
                          \* and the row it is working from

vars == <<orderly, row, claims, sent, fate, callbacks, decision, kind, msg, pc, snap>>
world == <<sent, fate, callbacks, decision>>

TypeOK ==
    /\ orderly \in BOOLEAN
    /\ row \in [Messages -> Rows \cup {NoRow}]
    /\ claims \in [Keys -> {"absent", "pending"} \cup Handlers]
    /\ sent \subseteq [msg : Messages, text : Texts, by : Handlers]
    /\ fate \in [Handlers -> {"unknown", "delivered", "failed"}]
    /\ callbacks \subseteq [msg : Messages, status : {"SENT", "DELIVERED", "FAILED"}]
    /\ decision \in [Drafted -> SUBSET {"approved", "rejected"}]
    /\ kind \in [Handlers -> Kinds]
    /\ msg \in [Handlers -> Messages]
    /\ pc \in [Handlers -> Phases]
    /\ snap \in [Handlers -> Rows]

BlankRow == [status |-> "DRAFTED", text |-> "plain", sid |-> NoSid]

Init ==
    /\ orderly \in Regimes
    /\ row = [m \in Messages |-> NoRow]
    /\ claims = [k \in Keys |-> "absent"]
    /\ sent = {}
    /\ fate = [h \in Handlers |-> "unknown"]
    /\ callbacks = {}
    /\ decision = [m \in Drafted |-> {}]
    /\ kind = [h \in Handlers |-> "direct"]
    /\ msg = [h \in Handlers |-> CHOOSE m \in Messages : TRUE]
    /\ pc = [h \in Handlers |-> "idle"]
    /\ snap = [h \in Handlers |-> BlankRow]

-----------------------------------------------------------------------------
\* scrub_payload on the free text of a message: secret shapes are redacted.
_dlp_scrub(t) == IF t = "secret" THEN "redacted" ELSE t

InFlight(h) == pc[h] \notin {"idle", "done", "crashed"}

Free(m) ==
    \/ ~orderly
    \/ /\ \A g \in Handlers : InFlight(g) => msg[g] # m
       /\ \A c \in callbacks : c.msg # m

\* A handler h starts as a k on message m, working from row r at phase p.
Begin(h, k, m, r, p) ==
    /\ pc[h] = "idle"
    /\ Free(m)
    /\ kind' = [kind EXCEPT ![h] = k]
    /\ msg' = [msg EXCEPT ![h] = m]
    /\ snap' = [snap EXCEPT ![h] = r]
    /\ pc' = [pc EXCEPT ![h] = p]

Goto(h, p) == pc' = [pc EXCEPT ![h] = p]

\* The whole row is written from the handler's copy.  (Two first inserts of one
\* row may also collide: that handler ends there, as in Crash.)
save_message(h, r) == row' = [row EXCEPT ![msg[h]] = r]

\* send_message -> _send: render, scrub, read the row this (run, content) maps
\* to.  An already SENT or DELIVERED row is returned untouched.
Send(h, m) ==
    /\ m \in Direct
    /\ Begin(h, "direct", m, [BlankRow EXCEPT !.text = _dlp_scrub(Content[m])],
             IF row[m] # NoRow /\ row[m].status \in {"SENT", "DELIVERED"}
             THEN "done" ELSE "save_draft")
    /\ UNCHANGED <<row, claims, world>>

\* _send, draft_for_approval: persist the new row.
SaveDraft(h) ==
    /\ pc[h] = "save_draft"
    /\ save_message(h, snap[h])
    /\ Goto(h, IF kind[h] = "draft" THEN "done" ELSE "claim")
    /\ UNCHANGED <<claims, world, kind, msg, snap>>

\* draft_for_approval: an existing row is reused; otherwise the backend drafts
\* (any text), the draft is scrubbed and persisted PENDING_APPROVAL.  A run
\* executes its nodes one at a time, so a message is drafted by one handler.
DraftForApproval(h, m) ==
    /\ m \in Drafted
    /\ \A g \in Handlers : InFlight(g) => msg[g] # m
    /\ row[m] = NoRow
    /\ \E t \in {"plain", "secret"} :
         Begin(h, "draft", m,
               [status |-> "PENDING_APPROVAL", text |-> _dlp_scrub(t), sid |-> NoSid],
               "save_draft")
    /\ UNCHANGED <<row, claims, world>>

\* The approved gate resumes into send_approved, with a body edited by the
\* approver.  The decide route answers 409 unless the approval is pending, but
\* checks and marks in two awaits: where decisions overlap, one that was checked
\* in time may come after any number of others (Approvals.tla).
Approve(h, m) ==
    /\ m \in Drafted
    /\ row[m] # NoRow
    /\ orderly => decision[m] = {}
    /\ decision' = [decision EXCEPT ![m] = @ \cup {"approved"}]
    /\ \E t \in {row[m].text, "secret"} :
         Begin(h, "approve", m, [row[m] EXCEPT !.text = t], "read")
    /\ UNCHANGED <<row, claims, sent, fate, callbacks>>

\* The rejected gate resumes into mark_rejected.
Reject(h, m) ==
    /\ m \in Drafted
    /\ row[m] # NoRow
    /\ orderly => decision[m] = {}
    /\ decision' = [decision EXCEPT ![m] = @ \cup {"rejected"}]
    /\ Begin(h, "reject", m, row[m], "read_reject")
    /\ UNCHANGED <<row, claims, sent, fate, callbacks>>

\* A retry route without its status check.
RetryAnything(h, m) ==
    /\ row[m] # NoRow
    /\ Begin(h, "retry", m, row[m], "read")
    /\ UNCHANGED <<row, claims, world>>

\* retry_failed_message: only a FAILED row, then send_approved without edits.
Retry(h, m) ==
    /\ row[m] # NoRow
    /\ row[m].status = "FAILED"
    /\ Begin(h, "retry", m, row[m], "read")
    /\ UNCHANGED <<row, claims, world>>

\* The text send_approved is to ship: the approver's body, or the row's when the
\* decision carries no edit.
BodyFor(h) ==
    IF kind[h] = "approve" THEN {snap[h].text, row[msg[h]].text} ELSE {row[msg[h]].text}

\* send_approved that trusts the edited text.
ReadForSendUnscrubbed(h) ==
    LET r == row[msg[h]] IN
    /\ pc[h] = "read"
    /\ \/ /\ r.status \notin {"PENDING_APPROVAL", "FAILED"}
          /\ Goto(h, "done") /\ UNCHANGED snap
       \/ /\ r.status \in {"PENDING_APPROVAL", "FAILED"}
          /\ \E t \in BodyFor(h) :
               /\ snap' = [snap EXCEPT ![h] = [r EXCEPT !.text = t]]
               /\ Goto(h, IF t # r.text THEN "save_edit" ELSE "claim")
    /\ UNCHANGED <<row, claims, world, kind, msg>>

\* send_approved: read the row; anything but PENDING_APPROVAL or FAILED is
\* returned untouched; apply the edit, scrub, and save the row first when its
\* text changed.
ReadForSend(h) ==
    LET r == row[msg[h]] IN
    /\ pc[h] = "read"
    /\ \/ /\ r.status \notin {"PENDING_APPROVAL", "FAILED"}
          /\ Goto(h, "done") /\ UNCHANGED snap
       \/ /\ r.status \in {"PENDING_APPROVAL", "FAILED"}
          /\ \E t \in {_dlp_scrub(body) : body \in BodyFor(h)} :
               /\ snap' = [snap EXCEPT ![h] = [r EXCEPT !.text = t]]
               /\ Goto(h, IF t # r.text THEN "save_edit" ELSE "claim")
    /\ UNCHANGED <<row, claims, world, kind, msg>>

SaveEdit(h) ==
    /\ pc[h] = "save_edit"
    /\ save_message(h, snap[h])
    /\ Goto(h, "claim")
    /\ UNCHANGED <<claims, world, kind, msg, snap>>

SendKey(h) ==
    <<IF kind[h] = "retry" THEN h ELSE msg[h], msg[h], snap[h].text>>

\* port.send at the write boundary: a new key goes on to the provider, a
\* completed key hands back the stored provider id, a pending key raises
\* ReplayInProgressError, which `except Exception` turns into a FAILED row.
ClaimSend(h) ==
    LET k == SendKey(h) IN
    /\ pc[h] = "claim"
    /\ \/ /\ claims[k] = "absent"
          /\ claims' = [claims EXCEPT ![k] = "pending"]
          /\ Goto(h, "provider")
          /\ UNCHANGED snap
       \/ /\ claims[k] = "pending"
          /\ Goto(h, "save_failed")
          /\ UNCHANGED <<claims, snap>>
       \/ /\ claims[k] \in Handlers
          /\ snap' = [snap EXCEPT ![h].sid = claims[k]]
          /\ Goto(h, "save_sent")
          /\ UNCHANGED claims
    /\ UNCHANGED <<row, world, kind, msg>>

Accepted(h) == [msg |-> msg[h], text |-> snap[h].text, by |-> h]

\* The provider accepts the message and returns its id.
ProviderAccepts(h) ==
    /\ pc[h] = "provider"
    /\ sent' = sent \cup {Accepted(h)}
    /\ Goto(h, "complete")
    /\ UNCHANGED <<row, claims, fate, callbacks, decision, kind, msg, snap>>

\* The provider call raises; a timeout may hide an accepted message.
ProviderRaises(h) ==
    /\ pc[h] = "provider"
    /\ sent' \in {sent, sent \cup {Accepted(h)}}
    /\ Goto(h, "save_failed")
    /\ UNCHANGED <<row, claims, fate, callbacks, decision, kind, msg, snap>>

\* The boundary records the provider id under the key and returns it.
CompleteSend(h) ==
    /\ pc[h] = "complete"
    /\ claims' = [claims EXCEPT ![SendKey(h)] = h]
    /\ snap' = [snap EXCEPT ![h].sid = h]
    /\ Goto(h, "save_sent")
    /\ UNCHANGED <<row, world, kind, msg>>

\* A provider error that is only logged.
SaveFailedNot(h) ==
    /\ pc[h] = "save_failed"
    /\ Goto(h, "done")
    /\ UNCHANGED <<row, claims, world, kind, msg, snap>>

\* A provider error that is swallowed: the send goes on as if accepted.
SaveFailedAsSent(h) ==
    /\ pc[h] = "save_failed"
    /\ save_message(h, [snap[h] EXCEPT !.status = "SENT"])
    /\ Goto(h, "done")
    /\ UNCHANGED <<claims, world, kind, msg, snap>>

\* The except clause: the row becomes FAILED.
SaveFailed(h) ==
    /\ pc[h] = "save_failed"
    /\ save_message(h, [snap[h] EXCEPT !.status = "FAILED"])
    /\ Goto(h, "done")
    /\ UNCHANGED <<claims, world, kind, msg, snap>>

\* The row becomes SENT under the provider's id.
SaveSent(h) ==
    /\ pc[h] = "save_sent"
    /\ save_message(h, [snap[h] EXCEPT !.status = "SENT"])
    /\ Goto(h, "done")
    /\ UNCHANGED <<claims, world, kind, msg, snap>>

\* mark_rejected: only a PENDING_APPROVAL row becomes REJECTED.
ReadForReject(h) ==
    LET r == row[msg[h]] IN
    /\ pc[h] = "read_reject"
    /\ IF r.status # "PENDING_APPROVAL"
         THEN Goto(h, "done") /\ UNCHANGED snap
         ELSE /\ snap' = [snap EXCEPT ![h] = [r EXCEPT !.status = "REJECTED"]]
              /\ Goto(h, "save_rejected")
    /\ UNCHANGED <<row, claims, world, kind, msg>>

SaveRejected(h) ==
    /\ pc[h] = "save_rejected"
    /\ save_message(h, snap[h])
    /\ Goto(h, "done")
    /\ UNCHANGED <<claims, world, kind, msg, snap>>

\* The carrier settles what became of an accepted message.
Settle(h) ==
    /\ \E x \in sent : x.by = h
    /\ fate[h] = "unknown"
    /\ \E f \in {"delivered", "failed"} : fate' = [fate EXCEPT ![h] = f]
    /\ UNCHANGED <<row, claims, sent, callbacks, decision, kind, msg, pc, snap>>

CallbackStatus(h) ==
    {"SENT"} \cup (IF fate[h] = "delivered" THEN {"DELIVERED"} ELSE {})
             \cup (IF fate[h] = "failed" THEN {"FAILED"} ELSE {})

\* twilio_sms_webhook: callbacks come in any order and any number of times; one
\* that names no row's sid is answered 200 and dropped.
CallbackLookup(m) ==
    /\ Free(m)
    /\ row[m] # NoRow
    /\ row[m].sid \in Handlers
    /\ \E s \in CallbackStatus(row[m].sid) :
         callbacks' = callbacks \cup {[msg |-> m, status |-> s]}
    /\ UNCHANGED <<row, claims, sent, fate, decision, kind, msg, pc, snap>>

\* An advance that ignores the rank of the row it writes.
CallbackAdvanceAny(c) ==
    /\ c \in callbacks
    /\ callbacks' = callbacks \ {c}
    /\ row' = [row EXCEPT ![c.msg].status = c.status]
    /\ UNCHANGED <<claims, sent, fate, decision, kind, msg, pc, snap>>

\* advance_message_status: one conditional UPDATE of the status column.
CallbackAdvance(c) ==
    /\ c \in callbacks
    /\ callbacks' = callbacks \ {c}
    /\ row' = IF STATUS_RANK[c.status] > STATUS_RANK[row[c.msg].status]
              THEN [row EXCEPT ![c.msg].status = c.status] ELSE row
    /\ UNCHANGED <<claims, sent, fate, decision, kind, msg, pc, snap>>

\* The process dies in the middle of a handler.
Crash(h) ==
    /\ ~orderly
    /\ InFlight(h)
    /\ Goto(h, "crashed")
    /\ UNCHANGED <<row, claims, world, kind, msg, snap>>

Advance(h) ==
    \/ SaveDraft(h)
    \/ ReadForSend(h)
    \/ SaveEdit(h)
    \/ ClaimSend(h)
    \/ ProviderAccepts(h)
    \/ ProviderRaises(h)
    \/ CompleteSend(h)
    \/ SaveFailed(h)
    \/ SaveSent(h)
    \/ ReadForReject(h)
    \/ SaveRejected(h)

Start(h, m) ==
    \/ Send(h, m)
    \/ DraftForApproval(h, m)
    \/ Approve(h, m)
    \/ Reject(h, m)
    \/ Retry(h, m)

Next ==
    /\ \/ \E h \in Handlers : Advance(h) \/ Settle(h) \/ Crash(h)
       \/ \E h \in Handlers, m \in Messages : Start(h, m)
       \/ \E m \in Messages : CallbackLookup(m)
       \/ \E c \in callbacks : CallbackAdvance(c)
    /\ UNCHANGED orderly

Spec == Init /\ [][Next]_vars

-----------------------------------------------------------------------------
(***************************************************************************)
(* Properties.                                                             *)
(***************************************************************************)
\* models/message.py: "no drafted text leaves the boundary without a human
\* decision".  Whatever the retry route, replays, overlapping decisions and
\* crashes do, the provider only ever accepts a drafted message that a human
\* approved.
NoSendWithoutApproval ==
    \A x \in sent : x.msg \in Drafted => "approved" \in decision[x.msg]

\* send_approved: "the history ... always shows the exact text that shipped".  A
\* row that says SENT or DELIVERED is of a message the provider accepted, and one
\* that carries a provider id shows the very text accepted under that id, under
\* any overlap of decisions, replays, retries and callbacks; in the orderly
\* regime every such row carries one.
HistoryShowsWhatShipped ==
    \A m \in Messages :
        row[m] # NoRow /\ row[m].status \in {"SENT", "DELIVERED"} =>
            \E x \in sent :
                /\ x.msg = m
                /\ orderly \/ row[m].sid # NoSid => x.by = row[m].sid
                /\ orderly \/ row[m].sid # NoSid \/ m \in Direct => x.text = row[m].text

\* _dlp_scrub: a credential in a draft, in an edit or in a retried row neither
\* reaches the approval card (the stored row) nor leaves through the provider.
NoSecretLeaves ==
    /\ \A x \in sent : x.text # "secret"
    /\ \A m \in Messages : row[m] # NoRow => row[m].text # "secret"

\* REJECTED is "a terminal human no" (send_approved): where nothing overlaps, and
\* under any overlap as long as no human has approved the message too, a rejected
\* message stays rejected, was never sent and never will be, whatever retries,
\* callbacks and other rejections do.
RejectedIsFinal ==
    [][\A m \in Drafted :
         /\ row[m] # NoRow /\ row[m].status = "REJECTED"
         /\ orderly \/ "approved" \notin decision'[m]
         => row'[m].status = "REJECTED" /\ \A x \in sent' : x.msg # m]_vars

\* "DELIVERED counts as sent and is never downgraded (BOP-018's forward-only
\* rule)" (send_approved): no handler and no callback moves a row out of
\* DELIVERED.
DeliveredStays ==
    \A m \in Messages :
        row[m] # NoRow /\ row[m].status = "DELIVERED" => row'[m] = row[m]

\* The forward-only rule when requests for one message do not overlap.
OrderlyDeliveredIsFinal == [][orderly => DeliveredStays]_vars

\* retry_failed_message: "Strictly FAILED-only, so it can never bypass a pending
\* human gate or re-send a terminal row": when a retry's message reaches the
\* provider, the row is neither waiting for a human nor already settled.
RetriesUnsettled ==
    \A x \in sent' \ sent :
        kind[x.by] = "retry" => row[x.msg].status \in {"FAILED", "DRAFTED"}

RetryNeverResends == [][RetriesUnsettled]_vars

\* The retry rule when requests for one message do not overlap.
OrderlyRetryNeverResends == [][orderly => RetriesUnsettled]_vars

\* In the orderly regime no send is left half-way: once nothing works on a
\* message its row is not DRAFTED, and an approved one is not PENDING_APPROVAL
\* (message_send.py's except clauses).
SettledWhenIdle ==
    \A m \in Messages :
        /\ orderly
        /\ row[m] # NoRow
        /\ \A h \in Handlers : InFlight(h) => msg[h] # m
        => /\ row[m].status # "DRAFTED"
           /\ m \in Drafted /\ decision[m] # {} =>
                row[m].status # "PENDING_APPROVAL"
=============================================================================
