----------------------- MODULE TransactionCoordination -----------------------
(***************************************************************************)
(* The milestone cron route and the transaction_coordination workflow it   *)
(* starts for every active transaction, over the approval inbox, the       *)
(* milestone table and the CRM.                                            *)
(*                                                                         *)
(* A pass reads the pending approvals ONCE and then awaits one run after   *)
(* another; a run may wait at a gate for days; decisions come in at any    *)
(* time.  What the pass skips is therefore decided on a snapshot, and      *)
(* notify writes an escalation level computed from an earlier read.        *)
(* A decide request checks the approval row, marks it and resumes the      *)
(* thread in three awaits and then carries out the node itself, so two     *)
(* requests on one approval may both get that far.  A pause and its row    *)
(* are one step here (Approvals.tla takes them apart), and of a reminder   *)
(* email only the status is kept (MessageSend.tla has the text and keys).  *)
(***************************************************************************)
EXTENDS MilestoneEngine

CONSTANTS
    Txns,       \* transactions
    Timeline,   \* the milestones of each, in due-date order
    Parties,    \* the parties of each
    Passes,     \* invocations of POST /internal/cron/milestones, and
    Decisions,  \* of POST /approvals/{id}/decide, numbered as they arrive
    NoRun,      \* a decide invocation not made yet
    LastDay,    \* bound on the calendar
    Regimes     \* the values of orderly and active to consider

ASSUME CoordinationAssumptions ==
    /\ DOMAIN Timeline = Txns /\ DOMAIN Parties = Txns
    /\ LastDay \in Nat
    /\ Regimes \subseteq [orderly : BOOLEAN, active : SUBSET Txns]
    /\ Passes \subseteq Nat /\ Decisions \subseteq Nat
    /\ NoRun \notin Passes \X Txns

Runs == Passes \X Txns
Milestones == UNION {{m.id : m \in Range(Timeline[t])} : t \in Txns}
Due == [id \in Milestones |->
          (CHOOSE m \in UNION {Range(Timeline[t]) : t \in Txns} : m.id = id).due]

\* What an assessment of each transaction on each day finds.
Assessments ==
    [t \in Txns |-> [day \in 0 .. LastDay |-> assess_milestones(Timeline[t], day)]]
ByClass ==
    [t \in Txns |-> [day \in 0 .. LastDay |-> [class \in Range(SEVERITY_ORDER) |->
        {a.milestone_id : a \in {b \in Range(Assessments[t][day]) :
                                     b.classification = class}}]]]

\* A milestone's id is a primary key and its transaction a column of its row: two
\* transactions are never assessed on the same milestone.
ASSUME MilestoneAssumption ==
    \A t, u \in Txns : t # u =>
        \A d, e \in 0 .. LastDay : ByClass[t][d]["overdue"] \cap ByClass[u][e]["overdue"] = {}

VARIABLES
    orderly,  \* is it so that no pass starts while another pass or an escalation
              \* is being carried out, no two decisions on one approval overlap,
              \* and the process stays up?
    active,   \* the transactions that are active
    today,    \* the calendar
    level,    \* milestones.escalation_level
    pass,     \* each pass: its phase, its two snapshots, the transactions to do
    thread,   \* each run's graph state
    inbox,    \* each run's approval row
    decide,   \* each decide request: on which run, how, where, and notify's loop
    tasks,    \* CRM tasks created: [run, id, urgent, level], level as the note says
    mail,     \* the status of the reminder email each run drafted
    mailed    \* the runs whose email the provider accepted

vars == <<orderly, active, today, level, pass, thread, inbox, decide, tasks, mail, mailed>>
outside == <<tasks, mail, mailed>>

Starting == {"evaluate_milestones", "send_reminders", "draft_reminder_email",
             "escalate", "approve_outbound_message"}
Notifying == {"notify", "create_task", "set_level"}
Mailing == {"send", "sending", "save_failed", "save_sent", "dismiss", "save_rejected"}
InFlight == {"checked", "marked"} \cup Notifying \cup Mailing

Verdicts == {"approved", "rejected"}

TypeOK ==
    /\ orderly \in BOOLEAN
    /\ active \subseteq Txns
    /\ today \in 0 .. LastDay
    /\ level \in [Milestones -> Nat]
    /\ pass \in [Passes -> [phase : {"idle", "running", "success", "failure", "dead"},
                            awaiting_escalation : SUBSET Txns,
                            awaiting_email : SUBSET Txns,
                            todo : SUBSET Txns]]
    /\ thread \in [Runs -> [phase : {"idle", "paused", "ended", "raised", "dead"}
                                     \cup Starting,
                            suppress : BOOLEAN,
                            day : 0 .. LastDay,
                            todo : SUBSET Milestones]]
    /\ inbox \in [Runs -> [kind : {"approve_escalation", "approve_outbound_message"},
                           status : {"absent", "pending"} \cup Verdicts]]
    /\ decide \in [Decisions -> [run : Runs \cup {NoRun}, verdict : Verdicts,
                                 phase : {"idle", "lost", "done", "raised", "dead"} \cup InFlight,
                                 todo : SUBSET Milestones,
                                 seen : [Milestones -> Nat]]]
    /\ tasks \subseteq [run : Runs, id : Milestones, urgent : BOOLEAN, level : Nat]
    /\ mail \in [Runs -> {"none", "pending", "sent", "failed", "rejected"}]
    /\ mailed \subseteq Runs

Init ==
    /\ \E regime \in Regimes : orderly = regime.orderly /\ active = regime.active
    /\ today = 0
    /\ level = [m \in Milestones |-> 0]
    /\ pass = [p \in Passes |-> [phase |-> "idle", awaiting_escalation |-> {},
                                 awaiting_email |-> {}, todo |-> {}]]
    /\ thread = [r \in Runs |-> [phase |-> "idle", suppress |-> FALSE, day |-> 0,
                                 todo |-> {}]]
    /\ inbox = [r \in Runs |-> [kind |-> "approve_escalation", status |-> "absent"]]
    /\ decide = [d \in Decisions |-> [run |-> NoRun, verdict |-> "rejected",
                                      phase |-> "idle", todo |-> {}, seen |-> level]]
    /\ tasks = {}
    /\ mail = [r \in Runs |-> "none"]
    /\ mailed = {}

\* The milestones of t that an assessment on that day puts in a class.
_milestones_by_class(t, day, class) == ByClass[t][day][class]

Goto(r, phase) == thread' = [thread EXCEPT ![r].phase = phase]

\* The next milestone of a node's loop: they come in due-date order.
IsNext(todo, id) ==
    /\ id \in todo
    /\ \A other \in todo : Due[id] <= Due[other]

Pending(t, kind) ==
    {r \in Runs : r[2] = t /\ inbox[r] = [kind |-> kind, status |-> "pending"]}

Awaiting(kind) == {t \in Txns : Pending(t, kind) # {}}

InRun(p) == \E t \in Txns : thread[<<p, t>>].phase \in Starting

\* Is a decision on r's approval being taken or carried out?
Deciding(r) == \E d \in Decisions : decide[d].run = r /\ decide[d].phase \in InFlight
-----------------------------------------------------------------------------
Tick ==
    /\ today < LastDay
    /\ today' = today + 1
    /\ UNCHANGED <<level, pass, thread, inbox, decide, outside>>

\* The route lists the pending approvals and then the active transactions.
StartPass(p) ==
    /\ pass[p].phase = "idle"
    /\ \A q \in Passes : q < p => pass[q].phase # "idle"
    /\ \/ ~orderly
       \/ /\ \A q \in Passes : pass[q].phase # "running"
          /\ \A d \in Decisions : decide[d].phase \notin {"marked"} \cup Notifying
    /\ pass' = [pass EXCEPT ![p] =
         [phase |-> "running", todo |-> active,
          awaiting_escalation |-> Awaiting("approve_escalation"),
          awaiting_email |-> Awaiting("approve_outbound_message")]]
    /\ UNCHANGED <<today, level, thread, inbox, decide, outside>>

\* A pass that skips a transaction for any pending gate.
SkipAnyGate(p, t) ==
    /\ pass[p].phase = "running" /\ ~InRun(p)
    /\ t \in pass[p].todo
    /\ t \in pass[p].awaiting_escalation \cup pass[p].awaiting_email
    /\ pass' = [pass EXCEPT ![p].todo = @ \ {t}]
    /\ UNCHANGED <<today, level, thread, inbox, decide, outside>>

\* A pending escalation skips the transaction altogether.
SkipTransaction(p, t) ==
    /\ pass[p].phase = "running" /\ ~InRun(p)
    /\ t \in pass[p].todo
    /\ t \in pass[p].awaiting_escalation
    /\ pass' = [pass EXCEPT ![p].todo = @ \ {t}]
    /\ UNCHANGED <<today, level, thread, inbox, decide, outside>>

\* A pass that does not tell the run about a pending email gate.
StartRunUnsuppressed(p, t) ==
    /\ pass[p].phase = "running" /\ ~InRun(p)
    /\ t \in pass[p].todo \ pass[p].awaiting_escalation
    /\ pass' = [pass EXCEPT ![p].todo = @ \ {t}]
    /\ thread' = [thread EXCEPT ![<<p, t>>].phase = "evaluate_milestones"]
    /\ UNCHANGED <<today, level, inbox, decide, outside>>

\* engine.start: a pending email gate suppresses only the email tail of the run.
StartRun(p, t) ==
    /\ pass[p].phase = "running" /\ ~InRun(p)
    /\ t \in pass[p].todo \ pass[p].awaiting_escalation
    /\ pass' = [pass EXCEPT ![p].todo = @ \ {t}]
    /\ thread' = [thread EXCEPT ![<<p, t>>].phase = "evaluate_milestones",
                                ![<<p, t>>].suppress = t \in pass[p].awaiting_email]
    /\ UNCHANGED <<today, level, inbox, decide, outside>>

\* cron_runs.record(outcome="success") after the last transaction.
FinishPass(p) ==
    /\ pass[p].phase = "running" /\ ~InRun(p)
    /\ pass[p].todo = {}
    /\ pass' = [pass EXCEPT ![p].phase = "success"]
    /\ UNCHANGED <<today, level, thread, inbox, decide, outside>>

-----------------------------------------------------------------------------
\* evaluate_milestones and route_by_severity: the assessments are kept in the
\* run's state (here as their day) and used by every later node.  An external
\* blocker only records call intents and an on-track transaction is logged;
\* both end the run.
EvaluateMilestones(r) ==
    LET worst == worst_classification(Assessments[r[2]][today]) IN
    /\ thread[r].phase = "evaluate_milestones"
    /\ thread' = [thread EXCEPT
         ![r].day = today,
         ![r].todo = IF worst = "due_soon"
                     THEN _milestones_by_class(r[2], today, "due_soon") ELSE {},
         ![r].phase = CASE worst = "overdue" -> "escalate"
                        [] worst = "due_soon" -> "send_reminders"
                        [] OTHER -> "ended"]
    /\ UNCHANGED <<today, level, pass, inbox, decide, outside>>

\* send_reminders: one CRM task per due-soon milestone, then the email tail.
SendReminder(r) ==
    /\ thread[r].phase = "send_reminders"
    /\ \E id \in thread[r].todo :
         /\ IsNext(thread[r].todo, id)
         /\ tasks' = tasks \cup {[run |-> r, id |-> id, urgent |-> FALSE, level |-> 0]}
         /\ thread' = [thread EXCEPT
              ![r].todo = @ \ {id},
              ![r].phase = IF thread[r].todo = {id} THEN "draft_reminder_email" ELSE @]
    /\ UNCHANGED <<today, level, pass, inbox, decide, mail, mailed>>

\* draft_reminder_email: skipped when suppressed or when nobody can be reached.
DraftReminderEmail(r) ==
    LET due_soon == SelectSeq(Timeline[r[2]], LAMBDA m :
                      m.id \in _milestones_by_class(r[2], thread[r].day, "due_soon"))
    IN
    /\ thread[r].phase = "draft_reminder_email"
    /\ IF thread[r].suppress \/ plan_reminder_email(Parties[r[2]], due_soon) = {}
         THEN Goto(r, "ended") /\ UNCHANGED mail
         ELSE /\ mail' = [mail EXCEPT ![r] = "pending"]
              /\ Goto(r, "approve_outbound_message")
    /\ UNCHANGED <<today, level, pass, inbox, decide, tasks, mailed>>

\* escalate, approve_reminder_email: interrupt(), and the engine files the row.
RaiseGate(r) ==
    /\ thread[r].phase \in {"escalate", "approve_outbound_message"}
    /\ inbox' = [inbox EXCEPT ![r] =
         [status |-> "pending",
          kind |-> IF thread[r].phase = "escalate" THEN "approve_escalation"
                                                   ELSE "approve_outbound_message"]]
    /\ Goto(r, "paused")
    /\ UNCHANGED <<today, level, pass, decide, outside>>

-----------------------------------------------------------------------------
\* decide_approval: an approval that is not PENDING is a 409.
CheckApproval(d, r, verdict) ==
    /\ decide[d].phase = "idle"
    /\ \A e \in Decisions : e < d => decide[e].phase # "idle"
    /\ inbox[r].status = "pending"
    /\ orderly => ~Deciding(r)
    /\ decide' = [decide EXCEPT ![d].run = r, ![d].verdict = verdict, ![d].phase = "checked"]
    /\ UNCHANGED <<today, level, pass, thread, inbox, outside>>

At(d, phase) == decide[d].phase = phase
Continue(d, phase) == decide' = [decide EXCEPT ![d].phase = phase]

\* engine.decide: mark_decided is an UPDATE by id, whatever the row's status.
MarkDecided(d) ==
    /\ At(d, "checked")
    /\ inbox' = [inbox EXCEPT ![decide[d].run].status = decide[d].verdict]
    /\ Continue(d, "marked")
    /\ UNCHANGED <<today, level, pass, thread, outside>>

\* The node's last write is done, the graph reaches END and the request returns.
Finish(d) ==
    /\ thread' = [thread EXCEPT ![decide[d].run].phase = "ended"]
    /\ Continue(d, "done")

\* The node that carries a verdict out; dismiss, after a rejected escalation,
\* writes nothing.
NodeAfter(gate, verdict) ==
    CASE gate = "approve_escalation" /\ verdict = "approved" -> "notify"
      [] gate = "approve_outbound_message" /\ verdict = "approved" -> "send"
      [] gate = "approve_outbound_message" /\ verdict = "rejected" -> "dismiss"
      [] OTHER -> "done"

\* A paused thread goes on with this decision, an ended one has nothing left to run.
Resume(d) ==
    LET r == decide[d].run
        node == NodeAfter(inbox[r].kind, decide[d].verdict)
    IN
    /\ At(d, "marked")
    /\ \/ thread[r].phase # "paused" /\ Continue(d, "done") /\ UNCHANGED thread
       \/ thread[r].phase = "paused" /\ node # "done" /\ Continue(d, node) /\ UNCHANGED thread
       \/ thread[r].phase = "paused" /\ node = "done" /\ Finish(d)
    /\ UNCHANGED <<today, level, pass, inbox, outside>>

\* A notify that escalates what is overdue now, not what the human was shown.
NotifyReadToday(d) ==
    /\ At(d, "notify")
    /\ decide' = [decide EXCEPT
         ![d].phase = "create_task",
         ![d].todo = _milestones_by_class(decide[d].run[2], today, "overdue"),
         ![d].seen = level]
    /\ UNCHANGED <<today, level, pass, thread, inbox, outside>>

\* notify: re-read the milestones the run found overdue when it was started.
NotifyRead(d) ==
    LET r == decide[d].run IN
    /\ At(d, "notify")
    /\ decide' = [decide EXCEPT
         ![d].phase = "create_task",
         ![d].todo = _milestones_by_class(r[2], thread[r].day, "overdue"),
         ![d].seen = level]
    /\ UNCHANGED <<today, level, pass, thread, inbox, outside>>

\* The URGENT task notify makes for a milestone.  Its note tells the level that
\* was read, so a second notify of the run makes a task of its own exactly when it
\* read another level (the same note again is a replay at the write boundary).
Task(d, id) == [run |-> decide[d].run, id |-> id, urgent |-> TRUE, level |-> decide[d].seen[id]]

NotifyTask(d) ==
    /\ At(d, "create_task")
    /\ \E id \in decide[d].todo :
         IsNext(decide[d].todo, id) /\ tasks' = tasks \cup {Task(d, id)}
    /\ Continue(d, "set_level")
    /\ UNCHANGED <<today, level, pass, thread, inbox, mail, mailed>>

\* The loop of notify has dealt with id.
NextMilestone(d, id) ==
    /\ decide' = [decide EXCEPT
         ![d].todo = @ \ {id},
         ![d].phase = IF decide[d].todo = {id} THEN "done" ELSE "create_task"]
    /\ thread' = IF decide[d].todo = {id}
                 THEN [thread EXCEPT ![decide[d].run].phase = "ended"] ELSE thread

\* set_escalation_level for every milestone of the run at once, before their
\* tasks exist.
SetLevelEarly(d) ==
    /\ At(d, "set_level")
    /\ level' = [id \in Milestones |-> IF id \in decide[d].todo
                                       THEN decide[d].seen[id] + 1 ELSE level[id]]
    /\ \E id \in decide[d].todo : IsNext(decide[d].todo, id) /\ NextMilestone(d, id)
    /\ UNCHANGED <<today, pass, inbox, outside>>

\* set_escalation_level(id, the level read by notify + 1).
SetLevel(d) ==
    /\ At(d, "set_level")
    /\ \E id \in decide[d].todo :
         /\ IsNext(decide[d].todo, id) /\ Task(d, id) \in tasks
         /\ level' = [level EXCEPT ![id] = decide[d].seen[id] + 1]
         /\ NextMilestone(d, id)
    /\ UNCHANGED <<today, pass, inbox, outside>>

\* send_reminder_email, dismiss_reminder_email: send_approved goes on from
\* PENDING_APPROVAL or FAILED, mark_rejected from PENDING_APPROVAL; any other row
\* is returned untouched and the node ends as if it had done its work.
ReadMail(d) ==
    LET status == mail[decide[d].run] IN
    /\ \/ At(d, "send") /\ status \in {"pending", "failed"}
            /\ Continue(d, "sending") /\ UNCHANGED thread
       \/ At(d, "send") /\ status \notin {"pending", "failed"} /\ Finish(d)
       \/ At(d, "dismiss") /\ status = "pending"
            /\ Continue(d, "save_rejected") /\ UNCHANGED thread
       \/ At(d, "dismiss") /\ status # "pending" /\ Finish(d)
    /\ UNCHANGED <<today, level, pass, inbox, outside>>

\* port.send returns the provider's id.
MailAccepted(d) ==
    /\ At(d, "sending")
    /\ mailed' = mailed \cup {decide[d].run}
    /\ Continue(d, "save_sent")
    /\ UNCHANGED <<today, level, pass, thread, inbox, tasks, mail>>

\* port.send raises; a timeout may hide an accepted email.
MailRaises(d) ==
    /\ At(d, "sending")
    /\ mailed' \in {mailed, mailed \cup {decide[d].run}}
    /\ Continue(d, "save_failed")
    /\ UNCHANGED <<today, level, pass, thread, inbox, tasks, mail>>

\* The whole row is saved from what was read: SENT, FAILED (and the exception
\* goes on) or REJECTED.
SaveMail(d) ==
    LET r == decide[d].run IN
    /\ \/ At(d, "save_sent") /\ mail' = [mail EXCEPT ![r] = "sent"] /\ Finish(d)
       \/ At(d, "save_rejected") /\ mail' = [mail EXCEPT ![r] = "rejected"] /\ Finish(d)
       \/ /\ At(d, "save_failed") /\ mail' = [mail EXCEPT ![r] = "failed"]
          /\ Continue(d, "raised") /\ UNCHANGED thread
    /\ UNCHANGED <<today, level, pass, inbox, tasks, mailed>>

\* A read or a write of the request raises: the verdict is lost, or once the row is
\* marked it stays decided and the thread stays at its gate.
DecideRaises(d) ==
    /\ decide[d].phase \in InFlight \ {"sending"}
    /\ Continue(d, IF At(d, "checked") THEN "lost" ELSE "raised")
    /\ UNCHANGED <<today, level, pass, thread, inbox, outside>>

-----------------------------------------------------------------------------
\* A pass whose exception handler does not write the cron_runs row.
RunRaisesUnrecorded(r) ==
    /\ thread[r].phase \in Starting
    /\ Goto(r, "raised")
    /\ pass' = [pass EXCEPT ![r[1]].phase = "dead"]
    /\ UNCHANGED <<today, level, inbox, decide, outside>>

\* A node of a starting run raises: the exception leaves engine.start, and the
\* pass stops there, recording outcome="failure".
RunRaises(r) ==
    /\ thread[r].phase \in Starting
    /\ Goto(r, "raised")
    /\ pass' = [pass EXCEPT ![r[1]].phase = "failure"]
    /\ UNCHANGED <<today, level, inbox, decide, outside>>

\* The process dies: every pass, every starting run and every decide request in
\* flight is gone, with no cron_runs row.
Crash ==
    /\ ~orderly
    /\ \/ \E p \in Passes : pass[p].phase = "running"
       \/ \E d \in Decisions : decide[d].phase \in InFlight
    /\ pass' = [p \in Passes |-> IF pass[p].phase = "running"
                                 THEN [pass[p] EXCEPT !.phase = "dead"] ELSE pass[p]]
    /\ thread' = [r \in Runs |-> IF thread[r].phase \in Starting
                                 THEN [thread[r] EXCEPT !.phase = "dead"]
                                 ELSE thread[r]]
    /\ decide' = [d \in Decisions |->
         IF decide[d].phase \in InFlight
         THEN [decide[d] EXCEPT !.phase = IF At(d, "checked") THEN "lost" ELSE "dead"]
         ELSE decide[d]]
    /\ UNCHANGED <<today, level, inbox, outside>>

RunStep(r) ==
    \/ EvaluateMilestones(r)
    \/ SendReminder(r)
    \/ DraftReminderEmail(r)
    \/ RaiseGate(r)
    \/ RunRaises(r)

PassStep(p) ==
    \/ \E t \in Txns : SkipTransaction(p, t) \/ StartRun(p, t)
    \/ FinishPass(p)

Decide(d) ==
    \/ \E r \in Runs, verdict \in Verdicts : CheckApproval(d, r, verdict)
    \/ MarkDecided(d)
    \/ Resume(d)
    \/ NotifyRead(d)
    \/ NotifyTask(d)
    \/ SetLevel(d)
    \/ ReadMail(d)
    \/ MailAccepted(d)
    \/ MailRaises(d)
    \/ SaveMail(d)
    \/ DecideRaises(d)

Next ==
    /\ \/ Tick
       \/ Crash
       \/ \E p \in Passes : StartPass(p) \/ PassStep(p)
       \/ \E r \in Runs : RunStep(r)
       \/ \E d \in Decisions : Decide(d)
    /\ UNCHANGED <<orderly, active>>

Spec == Init /\ [][Next]_vars

\* While the process stays up a pass is a coroutine the server keeps driving: its own
\* steps and those of the run it awaits.
PassProgress(p) ==
    /\ orderly
    /\ PassStep(p) \/ \E t \in active : RunStep(<<p, t>>)
    /\ UNCHANGED <<orderly, active>>

FairSpec == Spec /\ \A p \in Passes : WF_vars(PassProgress(p))

-----------------------------------------------------------------------------
(***************************************************************************)
(* Properties.                                                             *)
(***************************************************************************)
\* docs/ARCHITECTURE.md: "The cron run skips transactions with a pending
\* escalation, so gates never stack": a transaction never has two pending gates
\* of one kind in the inbox.
GatesNeverStack ==
    \A t \in Txns, kind \in {"approve_escalation", "approve_outbound_message"} :
        Cardinality(Pending(t, kind)) <= 1

\* The same as long as no pass overlaps another pass or an escalation being carried
\* out, and no decision another decision on the approval.
OrderlyGatesNeverStack == orderly => GatesNeverStack

\* A pass recorded as a success has put every transaction that was overdue when
\* the pass reached it before a human: it raised an escalation or found one
\* waiting, "even while an email draft sits undecided in the inbox" (cron.py).
SuccessMeansOverdueAsked ==
    \A p \in Passes, t \in active :
        /\ pass[p].phase = "success"
        /\ t \notin pass[p].awaiting_escalation
        => LET r == <<p, t>> IN
           /\ thread[r].phase \in {"paused", "ended"}
           /\ _milestones_by_class(t, thread[r].day, "overdue") # {} =>
                /\ inbox[r].status # "absent"
                /\ inbox[r].kind = "approve_escalation"

UrgentTasks(id) == {x \in tasks : x.urgent /\ x.id = id}

\* Has the level write that goes with this task not been made?
Unwritten(x) == \E d \in Decisions : decide[d].run = x.run /\ x.id \in decide[d].todo

\* "approval creates an URGENT CRM task and ratchets the milestone's escalation
\* level": the URGENT tasks whose level write has been made tell the levels below the
\* milestone's, each once, and no others.
EscalationCounted ==
    \A id \in Milestones :
        LET written == {x \in UrgentTasks(id) : ~Unwritten(x)} IN
        /\ {x.level : x \in written} = 0 .. level[id] - 1
        /\ \A x, y \in written : x.level = y.level => x = y

\* The same as long as no pass and no decision overlaps another.
OrderlyEscalationCounted == orderly => EscalationCounted

\* Under any overlap, failure or crash the level never overstates: for each level
\* below the one a milestone is at, an URGENT task that tells it is in the CRM.
LevelIsBacked ==
    \A id \in Milestones : \A n \in 0 .. level[id] - 1 :
        \E x \in UrgentTasks(id) : x.level = n

\* The two together: what the level says of the tasks in the CRM.
LevelsTellEscalations == LevelIsBacked /\ OrderlyEscalationCounted

\* Has a human approved r's gate (and has engine.decide recorded it)?
Approved(r) ==
    \E d \in Decisions : /\ decide[d].run = r /\ decide[d].verdict = "approved"
                         /\ decide[d].phase \notin {"idle", "checked", "lost"}

\* No URGENT task is made and no email handed to the provider unless a human approved
\* that run's own gate, and only about a milestone that was overdue when the human
\* was asked, whatever overlaps, fails or dies; nor does an email say SENT that was
\* not accepted.  Where decisions do not overlap, the approval row and the email's
\* row agree: nothing has gone out of a run whose row says rejected.
OutwardStepsAreApproved ==
    /\ \A x \in tasks : x.urgent =>
         /\ Approved(x.run) /\ inbox[x.run].kind = "approve_escalation"
         /\ x.id \in _milestones_by_class(x.run[2], thread[x.run].day, "overdue")
         /\ orderly => inbox[x.run].status = "approved"
    /\ \A r \in mailed :
         /\ Approved(r) /\ inbox[r].kind = "approve_outbound_message"
         /\ orderly => inbox[r].status = "approved" /\ mail[r] # "rejected"
    /\ \A r \in Runs : mail[r] = "sent" => r \in mailed

\* A pass that began is recorded, as a success or as a failure, unless the process
\* dies: /statusz can tell a pass that ran from one that did not.
PassIsRecorded ==
    \A p \in Passes :
        (orderly /\ pass[p].phase = "running") ~> pass[p].phase \in {"success", "failure"}
=============================================================================
