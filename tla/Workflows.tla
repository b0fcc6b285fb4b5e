----------------------------- MODULE Workflows -------------------------------
(***************************************************************************)
(* The two graphs that start outside the cron: vapi_followup, which a call *)
(* webhook starts, and listing_to_contract, which an operator starts.  A   *)
(* node is an action, and more than one where it awaits between effects.   *)
(* A run goes as far as its gate; behind the gate a decide request carries *)
(* it on, and two overlapping ones carry it on twice (Approvals.tla).      *)
(* Writes to the CRM are taken at the level of Idempotency.tla: within a   *)
(* run each takes effect once.                                             *)
(*                                                                         *)
(* Around the runs the world moves: Vapi may report one call several times *)
(* and with or without its transcript, every report starts a run of its    *)
(* own, and the listing may change or vanish from the MLS between any two  *)
(* nodes and while an approval waits.  The two graphs share no state of    *)
(* their own, so a behaviour is about one of them.                         *)
(***************************************************************************)
EXTENDS Integers, Sequences, FiniteSets, SequencesExt

CONSTANTS
    Runs,         \* workflow runs (thread ids)
    Decisions,    \* invocations of POST /approvals/{id}/decide
    Calls,        \* phone calls
    Transcripts,  \* what may be said: sequences of sentences
    MlsStates,    \* listings as the MLS may serve them
    Gone,         \* the MLS does not know the listing
    None,         \* nothing there
    MaxChanges,   \* bound: how often the MLS changes
    Regimes       \* the values of llm, faults and overlap to consider

Sentence == [positive : BOOLEAN, negative : BOOLEAN, hot : BOOLEAN]
Extracted == [sentiment : {"positive", "neutral", "negative"}, hot_signal : BOOLEAN]

CallRecord == [transcript : Transcripts, extracted : Extracted \cup {None}]

ASSUME WorkflowsAssumptions ==
    /\ \A t \in Transcripts : t \in Seq(Sentence)
    /\ Gone \in MlsStates
    /\ \A l \in MlsStates \ {Gone} : l.active \in BOOLEAN /\ l.address \in BOOLEAN
                                     /\ l.price \in Nat \cup {None}
    /\ None \notin Nat /\ None \notin Extracted /\ None \notin Calls
    /\ None \notin CallRecord
    /\ MaxChanges \in Nat
    /\ Regimes \subseteq [llm : BOOLEAN, faults : BOOLEAN, overlap : BOOLEAN]
    /\ None \notin Runs

VARIABLES
    workflow,  \* the graph this behaviour is about
    llm,       \* does an LLM extract (its answer is anything of the right shape)?
    faults,    \* may a node fail: a vendor, the database, the process?
    overlap,   \* may two decisions on one approval overlap?
    contact,   \* the toured contact, as the CRM has it
    mls,       \* the listing, as the MLS serves it now
    changes,   \* how often it changed
    call,      \* each phone call, and what was said when it ended
    records,   \* call_records by call
    feedback,  \* showing_feedback, one row per call
    effects,   \* what each run has done outward: its CRM entries, the email accepted
    email,     \* the row of each run's follow-up email
    gate,      \* each run's approval
    run,       \* each run's state, as its thread has it
    decide     \* each decide request: on which run, how, at which node, what to publish

regime == <<workflow, llm, faults, overlap>>
world == <<contact, mls, changes, call>>
filed == <<records, feedback>>
vars == <<regime, world, filed, effects, email, gate, run, decide>>

NewRun == [node |-> "idle", call |-> None, transcript |-> <<>>, extracted |-> None,
           record |-> None, draft |-> FALSE, plan |-> <<>>, outcome |-> ""]

Gates == {"notify_agent", "approve_outbound_message", "approve_marketing"}
Over == {"idle", "end", "raised"}
Nodes == Gates \cup Over \cup
    {"ingest_call", "extract_structured", "upsert_feedback", "get_record", "save_record",
     "sync_crm", "log_call", "draft_followup_email", "finish_synced", "intake", "make_draft"}

\* A decide request that has read its approval, and has marked it; the nodes it runs.
InFlight == {"checked", "marked", "create_hot_task", "dismiss_hot", "publish_tasks",
             "create_task", "handle_rejection", "send_followup_email", "port_send",
             "save_sent", "dismiss_followup_email", "save_rejected"}
Verdicts == {"approved", "rejected", "blank_edit"}

TypeOK ==
    /\ contact \in {"missing", "no_email", "email"}
    /\ workflow \in {"vapi_followup", "listing_to_contract"}
    /\ mls \in MlsStates /\ changes \in 0..MaxChanges
    /\ call \in [Calls -> [state : {"none", "placed", "ended"}, said : Transcripts \cup {<<>>}]]
    /\ records \in [Calls -> CallRecord \cup {None}]
    /\ feedback \in [Calls -> Extracted \cup {None}]
    /\ email \in [Runs -> {"none", "pending", "sent", "failed", "rejected"}]
    /\ gate \in [Runs -> {"none", "pending"} \cup Verdicts]
    /\ \A r \in Runs : run[r].node \in Nodes
    /\ \A d \in Decisions : decide[d].of \in Runs \cup {None}
                            /\ decide[d].node \in InFlight \cup Over \cup {"lost"}

Init ==
    /\ \E p \in Regimes : llm = p.llm /\ faults = p.faults /\ overlap = p.overlap
    /\ \/ /\ workflow = "vapi_followup"
          /\ contact \in {"missing", "no_email", "email"} /\ mls = Gone
       \/ /\ workflow = "listing_to_contract"
          /\ contact = "missing" /\ mls \in MlsStates
    /\ changes = 0
    /\ call = [k \in Calls |-> [state |-> "none", said |-> <<>>]]
    /\ records = [k \in Calls |-> None]
    /\ feedback = [k \in Calls |-> None]
    /\ effects = [r \in Runs |-> {}]
    /\ email = [r \in Runs |-> "none"]
    /\ gate = [r \in Runs |-> "none"]
    /\ run = [r \in Runs |-> NewRun]
    /\ decide = [d \in Decisions |-> [of |-> None, verdict |-> "rejected", node |-> "idle",
                                      plan |-> <<>>, left |-> <<>>]]

At(r, node) == run[r].node = node
Goto(r, node) == run' = [run EXCEPT ![r].node = node]
End(r, outcome) == run' = [run EXCEPT ![r].node = "end", ![r].outcome = outcome]
Effect(r, what) == effects' = [effects EXCEPT ![r] = @ \cup {what}]

\* The same of a decide request, which at its end saves the thread's last checkpoint.
On(d, node) == decide[d].node = node
Follow(d, node) == decide' = [decide EXCEPT ![d].node = node] /\ UNCHANGED run
Finish(d, outcome) ==
    /\ decide' = [decide EXCEPT ![d].node = "end"]
    /\ run' = [run EXCEPT ![decide[d].of] =
                 [@ EXCEPT !.node = "end", !.outcome = outcome, !.plan = decide[d].plan]]
-----------------------------------------------------------------------------
\* The world.

\* POST /calls/outbound: the contact must be in the CRM; the call is Vapi's.
start_outbound_call(k) ==
    /\ call[k].state = "none"
    /\ contact # "missing"
    /\ call' = [call EXCEPT ![k].state = "placed"]
    /\ UNCHANGED <<contact, mls, changes, filed, effects, email, gate, run, decide>>

CallEnds(k, said) ==
    /\ call[k].state = "placed"
    /\ call' = [call EXCEPT ![k] = [state |-> "ended", said |-> said]]
    /\ UNCHANGED <<contact, mls, changes, filed, effects, email, gate, run, decide>>

MlsChanges(listing) ==
    /\ workflow = "listing_to_contract"
    /\ changes < MaxChanges
    /\ listing # mls
    /\ mls' = listing /\ changes' = changes + 1
    /\ UNCHANGED <<contact, call, filed, effects, email, gate, run, decide>>
-----------------------------------------------------------------------------
\* vapi_followup.

\* An end-of-call report that carries the secret; anything else is refused or
\* ignored.  The artifact may lack the transcript.
vapi_webhook(r, k, artifact) ==
    /\ At(r, "idle")
    /\ call[k].state = "ended"
    /\ artifact \in {call[k].said, <<>>}
    /\ run' = [run EXCEPT ![r] = [NewRun EXCEPT !.node = "ingest_call", !.call = k,
                                                !.transcript = artifact]]
    /\ UNCHANGED <<world, filed, effects, email, gate, decide>>

\* A transcript the report lacks is fetched, and Vapi may not know the call or not
\* have its transcript yet; the record is written whole.
ingest_call(r) ==
    LET k == run[r].call IN
    /\ At(r, "ingest_call")
    /\ \/ /\ run[r].transcript = <<>>
          /\ End(r, "no_transcript")
          /\ UNCHANGED records
       \/ \E transcript \in {run[r].transcript, call[k].said} \ {<<>>} :
          /\ run[r].transcript # <<>> => transcript = run[r].transcript
          /\ records' = [records EXCEPT ![k] = [transcript |-> transcript, extracted |-> None]]
          /\ run' = [run EXCEPT ![r].node = "extract_structured",
                                ![r].transcript = transcript]
    /\ UNCHANGED <<world, feedback, effects, email, gate, decide>>

\* Sentences score by their cues; one hot phrase anywhere is a hot signal.
extract_feedback(transcript) ==
    LET score == FoldLeft(LAMBDA acc, s : acc + (IF s.positive THEN 1 ELSE 0)
                                              - (IF s.negative THEN 1 ELSE 0),
                          0, transcript)
    IN  [sentiment  |-> IF score > 0 THEN "positive"
                        ELSE IF score < 0 THEN "negative" ELSE "neutral",
         hot_signal |-> \E i \in DOMAIN transcript : transcript[i].hot]

extract_structured(r) ==
    /\ At(r, "extract_structured")
    /\ \E e \in IF llm THEN Extracted ELSE {extract_feedback(run[r].transcript)} :
         run' = [run EXCEPT ![r].node = "upsert_feedback", ![r].extracted = e]
    /\ UNCHANGED <<world, filed, effects, email, gate, decide>>

\* A node that writes the record back as it read it.
UpsertFeedbackUnfilled(r) ==
    LET k == run[r].call IN
    /\ \/ /\ At(r, "upsert_feedback")
          /\ feedback' = [feedback EXCEPT ![k] = run[r].extracted]
          /\ Goto(r, "get_record") /\ UNCHANGED records
       \/ /\ At(r, "get_record")
          /\ run' = [run EXCEPT ![r].node = "save_record", ![r].record = records[k]]
          /\ UNCHANGED <<feedback, records>>
       \/ /\ At(r, "save_record")
          /\ records' = [records EXCEPT ![k] = run[r].record]
          /\ Goto(r, "sync_crm") /\ UNCHANGED feedback
    /\ UNCHANGED <<world, effects, email, gate, decide>>

\* The feedback row; then the call record is read, and written back whole with
\* what was extracted.
upsert_feedback(r) ==
    LET k == run[r].call IN
    /\ \/ /\ At(r, "upsert_feedback")
          /\ feedback' = [feedback EXCEPT ![k] = run[r].extracted]
          /\ Goto(r, "get_record") /\ UNCHANGED records
       \/ /\ At(r, "get_record")
          /\ run' = [run EXCEPT ![r].node = "save_record", ![r].record = records[k]]
          /\ UNCHANGED <<feedback, records>>
       \/ /\ At(r, "save_record")
          /\ records' = [records EXCEPT ![k] =
                           [run[r].record EXCEPT !.extracted = run[r].extracted]]
          /\ Goto(r, "sync_crm") /\ UNCHANGED feedback
    /\ UNCHANGED <<world, effects, email, gate, decide>>

\* A hot signal taken for a cold one.
RouteAfterSyncInverted(e) == IF e.hot_signal THEN "draft_followup_email" ELSE "notify_agent"

route_after_sync(e) == IF e.hot_signal THEN "notify_agent" ELSE "draft_followup_email"

sync_crm(r) ==
    /\ \/ At(r, "sync_crm") /\ Effect(r, "note") /\ Goto(r, "log_call")
       \/ /\ At(r, "log_call") /\ Effect(r, "call_log")
          /\ Goto(r, route_after_sync(run[r].extracted))
    /\ UNCHANGED <<world, filed, email, gate, decide>>

\* A draft only for a contact with an email address on file; the call nobody is
\* mailed about is over.
draft_followup_email(r) ==
    /\ \/ /\ At(r, "draft_followup_email") /\ contact = "email"
          /\ email' = [email EXCEPT ![r] = "pending"]
          /\ Goto(r, "approve_outbound_message")
       \/ /\ At(r, "draft_followup_email") /\ contact # "email"
          /\ Goto(r, "finish_synced") /\ UNCHANGED email
       \/ At(r, "finish_synced") /\ End(r, "synced") /\ UNCHANGED email
    /\ UNCHANGED <<world, filed, effects, gate, decide>>

\* The approved hot lead and the dismissed one.
create_hot_task(d) ==
    /\ \/ /\ On(d, "create_hot_task") /\ Effect(decide[d].of, "hot_task")
          /\ Finish(d, "agent_notified")
       \/ On(d, "dismiss_hot") /\ Finish(d, "hot_signal_dismissed") /\ UNCHANGED effects
    /\ UNCHANGED <<world, filed, email, gate>>

\* send_approved goes on from PENDING_APPROVAL or FAILED, and saves the whole row once
\* the provider has accepted; any other row it returns untouched, and the node
\* reports as if it had sent.
send_followup_email(d) ==
    LET r == decide[d].of IN
    /\ \/ /\ On(d, "send_followup_email") /\ email[r] \in {"pending", "failed"}
          /\ Follow(d, "port_send") /\ UNCHANGED <<effects, email>>
       \/ /\ On(d, "send_followup_email") /\ email[r] \notin {"pending", "failed"}
          /\ Finish(d, "followup_sent") /\ UNCHANGED <<effects, email>>
       \/ /\ On(d, "port_send") /\ Effect(r, "email")
          /\ Follow(d, "save_sent") /\ UNCHANGED email
       \/ /\ On(d, "save_sent") /\ email' = [email EXCEPT ![r] = "sent"]
          /\ Finish(d, "followup_sent") /\ UNCHANGED effects
    /\ UNCHANGED <<world, filed, gate>>

\* port.send raises, which a timeout may do of an accepted email: the row is saved
\* as FAILED and the exception goes on.
SendRaises(d) ==
    LET r == decide[d].of IN
    /\ faults
    /\ On(d, "port_send")
    /\ Effect(r, "email") \/ UNCHANGED effects
    /\ email' = [email EXCEPT ![r] = "failed"]
    /\ Follow(d, "raised")
    /\ UNCHANGED <<world, filed, gate>>

\* mark_rejected goes on from PENDING_APPROVAL only.
dismiss_followup_email(d) ==
    LET r == decide[d].of IN
    /\ \/ /\ On(d, "dismiss_followup_email") /\ email[r] = "pending"
          /\ Follow(d, "save_rejected") /\ UNCHANGED email
       \/ /\ On(d, "dismiss_followup_email") /\ email[r] # "pending"
          /\ Finish(d, "followup_dismissed") /\ UNCHANGED email
       \/ /\ On(d, "save_rejected") /\ email' = [email EXCEPT ![r] = "rejected"]
          /\ Finish(d, "followup_dismissed")
    /\ UNCHANGED <<world, filed, effects, gate>>
-----------------------------------------------------------------------------
\* listing_to_contract.

start_listing_to_contract(r) ==
    /\ workflow = "listing_to_contract"
    /\ At(r, "idle")
    /\ run' = [run EXCEPT ![r] = [NewRun EXCEPT !.node = "intake"]]
    /\ UNCHANGED <<world, filed, effects, email, gate, decide>>

is_marketable(l) == l.active /\ l.address /\ l.price # None

intake(r) ==
    /\ At(r, "intake")
    /\ IF mls = Gone THEN End(r, "not_found")
       ELSE IF ~is_marketable(mls) THEN End(r, "not_eligible")
       ELSE Goto(r, "make_draft")
    /\ UNCHANGED <<world, filed, effects, email, gate, decide>>

\* A listing that has gone meanwhile leaves no draft, and the edge to the gate is
\* unconditional.
make_draft(r) ==
    /\ At(r, "make_draft")
    /\ run' = [run EXCEPT ![r].node = "approve_marketing", ![r].draft = mls # Gone]
    /\ UNCHANGED <<world, filed, effects, email, gate, decide>>

LuxuryPrice == 750000

plan_marketing_tasks(l) ==
    <<"publish_copy", "flyer", "open_house">> \o
    (IF l.price # None /\ l.price >= LuxuryPrice THEN <<"notify_luxury">> ELSE <<>>)

\* A publish that reports success before the last task.
PublishAllButOne(d) ==
    /\ \/ /\ On(d, "publish_tasks") /\ mls # Gone
          /\ decide' = [decide EXCEPT ![d].node = "create_task",
                          ![d].plan = plan_marketing_tasks(mls),
                          ![d].left = Front(plan_marketing_tasks(mls))]
          /\ UNCHANGED <<run, effects>>
       \/ /\ On(d, "create_task") /\ Effect(decide[d].of, Head(decide[d].left))
          /\ IF Len(decide[d].left) = 1 THEN Finish(d, "published")
             ELSE decide' = [decide EXCEPT ![d].left = Tail(@)] /\ UNCHANGED run
    /\ UNCHANGED <<world, filed, email, gate>>

\* The listing is read again and the tasks planned from it, then made one by one;
\* or the draft was rejected.
publish_tasks(d) ==
    /\ \/ /\ On(d, "publish_tasks") /\ mls = Gone
          /\ Finish(d, "not_found") /\ UNCHANGED effects
       \/ /\ On(d, "publish_tasks") /\ mls # Gone
          /\ decide' = [decide EXCEPT ![d].node = "create_task",
                          ![d].plan = plan_marketing_tasks(mls),
                          ![d].left = plan_marketing_tasks(mls)]
          /\ UNCHANGED <<run, effects>>
       \/ /\ On(d, "create_task") /\ Effect(decide[d].of, Head(decide[d].left))
          /\ IF Len(decide[d].left) = 1 THEN Finish(d, "published")
             ELSE decide' = [decide EXCEPT ![d].left = Tail(@)] /\ UNCHANGED run
       \/ On(d, "handle_rejection") /\ Finish(d, "rejected") /\ UNCHANGED effects
    /\ UNCHANGED <<world, filed, email, gate>>
-----------------------------------------------------------------------------
\* The gates.

\* The graph interrupts and the engine creates the approval; without a draft the
\* marketing gate's assertion fails instead.
Interrupt(r) ==
    /\ run[r].node \in Gates /\ gate[r] = "none"
    /\ IF At(r, "approve_marketing") /\ ~run[r].draft
       THEN Goto(r, "raised") /\ UNCHANGED gate
       ELSE gate' = [gate EXCEPT ![r] = "pending"] /\ UNCHANGED run
    /\ UNCHANGED <<world, filed, effects, email, decide>>

Deciding(r) == \E d \in Decisions : decide[d].of = r /\ decide[d].node \in InFlight

\* decide_approval reads the row, and anything but a pending one is a 409.  An email
\* may be edited to a blank body.
CheckApproval(d, r, verdict) ==
    /\ On(d, "idle")
    /\ gate[r] = "pending"
    /\ overlap \/ ~Deciding(r)
    /\ verdict = "blank_edit" => At(r, "approve_outbound_message")
    /\ decide' = [decide EXCEPT ![d].of = r, ![d].verdict = verdict, ![d].node = "checked"]
    /\ UNCHANGED <<world, filed, effects, email, gate, run>>

\* engine.decide: mark_decided is an UPDATE by id, whatever the row says meanwhile.
MarkDecided(d) ==
    /\ On(d, "checked")
    /\ gate' = [gate EXCEPT ![decide[d].of] = decide[d].verdict]
    /\ Follow(d, "marked")
    /\ UNCHANGED <<world, filed, effects, email>>

route_after_gate(node, verdict) ==
    IF verdict = "blank_edit" THEN "raised"
    ELSE CASE node = "notify_agent" ->
                IF verdict = "approved" THEN "create_hot_task" ELSE "dismiss_hot"
           [] node = "approve_outbound_message" ->
                IF verdict = "approved" THEN "send_followup_email" ELSE "dismiss_followup_email"
           [] node = "approve_marketing" ->
                IF verdict = "approved" THEN "publish_tasks" ELSE "handle_rejection"

\* A thread still at its gate goes on with this decision, and the gate node refuses a
\* blank body; one that has ended meanwhile has nothing left to run.
Resume(d) ==
    /\ On(d, "marked")
    /\ LET node == run[decide[d].of].node IN
       Follow(d, IF node \in Gates THEN route_after_gate(node, decide[d].verdict) ELSE "end")
    /\ UNCHANGED <<world, filed, effects, email, gate>>

\* A node fails, or the process dies in it: the run is not taken up again, and a
\* decision that was not marked yet is lost.
Raises(r) ==
    /\ faults
    /\ run[r].node \notin Over /\ gate[r] = "none"
    /\ Goto(r, "raised")
    /\ UNCHANGED <<world, filed, effects, email, gate, decide>>

DecideRaises(d) ==
    /\ faults
    /\ decide[d].node \in InFlight
    /\ Follow(d, IF On(d, "checked") THEN "lost" ELSE "raised")
    /\ UNCHANGED <<world, filed, effects, email, gate>>
-----------------------------------------------------------------------------
Step(r) ==
    \/ ingest_call(r) \/ extract_structured(r) \/ upsert_feedback(r) \/ sync_crm(r)
    \/ draft_followup_email(r) \/ intake(r) \/ make_draft(r) \/ Interrupt(r)

DecideStep(d) ==
    \/ MarkDecided(d) \/ Resume(d) \/ create_hot_task(d)
    \/ send_followup_email(d) \/ SendRaises(d) \/ dismiss_followup_email(d)
    \/ publish_tasks(d) \/ DecideRaises(d)

Next ==
    /\ \/ \E k \in Calls : \/ start_outbound_call(k)
                           \/ \E said \in Transcripts : CallEnds(k, said)
       \/ \E listing \in MlsStates : MlsChanges(listing)
       \/ \E r \in Runs :
            \/ \E k \in Calls, artifact \in Transcripts \cup {<<>>} :
                 vapi_webhook(r, k, artifact)
            \/ start_listing_to_contract(r)
            \/ Step(r)
            \/ Raises(r)
       \/ \E d \in Decisions :
            \/ \E r \in Runs, verdict \in Verdicts : CheckApproval(d, r, verdict)
            \/ DecideStep(d)
    /\ UNCHANGED regime

\* Whoever awaits the run drives it: its request's task takes the next step.
Fairness == \A r \in Runs : WF_vars(Step(r) /\ UNCHANGED regime)

Spec == Init /\ [][Next]_vars /\ Fairness
-----------------------------------------------------------------------------
\* terminal_run_result: what the caller is told.
COMPLETED_VALUES == {"published", "synced", "agent_notified", "followup_sent"}

Gated == {"hot_task", "email", "publish_copy", "flyer", "open_house", "notify_luxury"}

\* Has a human approved r's gate, and has engine.decide recorded it?
Approved(r) ==
    \E d \in Decisions : /\ decide[d].of = r /\ decide[d].verdict = "approved"
                         /\ decide[d].node \notin {"idle", "checked", "lost"}

\* Behind a gate nothing is done that no human approved, whatever overlaps or fails,
\* and a run that is reported published or its agent notified has done all of it,
\* whatever the MLS does while the approval waits.
EffectsAreApproved ==
    \A r \in Runs :
        /\ effects[r] \cap Gated # {} => Approved(r)
        /\ run[r].outcome = "published" =>
             run[r].draft /\ run[r].plan # <<>> /\ Range(run[r].plan) \subseteq effects[r]
        /\ run[r].outcome = "agent_notified" => effects[r] = {"note", "call_log", "hot_task"}
        /\ run[r].outcome = "synced" => email[r] = "none" /\ effects[r] = {"note", "call_log"}
        /\ run[r].outcome \in {"not_eligible", "no_transcript"} => effects[r] = {}

\* Where decisions on one approval do not overlap, the approval row and what was done
\* agree: a run does outward what the row allows and no more, and "completed" is
\* told only of a run that did all of it.
RowTellsEffects ==
    \A r \in Runs :
        /\ effects[r] \cap Gated # {} => gate[r] = "approved" /\ email[r] # "rejected"
        /\ run[r].outcome = "published" => effects[r] = Range(run[r].plan)
        /\ run[r].outcome = "followup_sent" =>
             email[r] = "sent" /\ effects[r] = {"note", "call_log", "email"}
        /\ run[r].outcome \in {"rejected", "not_found"} => effects[r] = {}

EffectsMatchVerdict == EffectsAreApproved /\ (~overlap => RowTellsEffects)

\* However often a call is reported and however its runs interleave: once each of
\* them has filed the call, or never touched it, the stored record holds the
\* transcript and an extraction, and the deterministic extractor's is the one in
\* the feedback row, although every run first wipes it.
CallIsFiled ==
    \A k \in Calls :
        LET of == {r \in Runs : run[r].call = k} IN
        /\ \E r \in of : "note" \in effects[r]
        /\ \A r \in of : "note" \in effects[r] \/ run[r].outcome = "no_transcript"
                         \/ At(r, "ingest_call")
        => /\ records[k] # None /\ records[k].transcript = call[k].said
           /\ records[k].extracted # None
           /\ ~llm => records[k].extracted = feedback[k]

\* A reported call in which the buyer spoke of an offer ends up before a human:
\* where nothing fails and the deterministic extractor reads it, an approval for
\* the agent follows, unless neither the report nor Vapi had the transcript.
HotLeadReachesAgent ==
    \A r \in Runs :
        /\ ~llm /\ ~faults /\ At(r, "ingest_call")
        /\ \E i \in DOMAIN call[run[r].call].said : call[run[r].call].said[i].hot
        ~> \/ At(r, "notify_agent") /\ gate[r] = "pending"
           \/ run[r].transcript = <<>> /\ run[r].outcome = "no_transcript"
=============================================================================
