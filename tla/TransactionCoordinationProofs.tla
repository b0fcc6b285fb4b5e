-------------------- MODULE TransactionCoordinationProofs --------------------
(***************************************************************************)
(* For any transactions and timelines, any number of passes and of decide  *)
(* requests that overlap or do not, with failures and crashes anywhere.    *)
(*                                                                         *)
(* A run is on its way to a gate, waits at it, or is over; which gate it   *)
(* can reach was settled when it evaluated its milestones.  What went out  *)
(* of it went by a request that had recorded an approval, and an URGENT    *)
(* task is found by the request that made it.  Where no pass and no        *)
(* decision overlaps another, a run has one verdict, and the snapshots a   *)
(* pass decides on stay true for every transaction it has not reached.     *)
(*                                                                         *)
(* The second part is about the deadline rules the pass rests on           *)
(* (MilestoneEngine, by way of Worklist): for every portfolio, every list  *)
(* of parties and every pair of dates.                                     *)
(***************************************************************************)
EXTENDS TransactionCoordination, Worklist, FiniteSetTheorems, WellFoundedInduction, TLAPS

PassPhases == {"idle", "running", "success", "failure", "dead"}
RunPhases == {"idle", "paused", "ended", "raised", "dead"} \cup Starting
DecidePhases == {"idle", "lost", "done", "raised", "dead"} \cup InFlight
MailStates == {"none", "pending", "sent", "failed", "rejected"}

PassRecords ==
    [phase : PassPhases, awaiting_escalation : SUBSET Txns, awaiting_email : SUBSET Txns,
     todo : SUBSET Txns]
Threads ==
    [phase : RunPhases, suppress : BOOLEAN, day : 0 .. LastDay, todo : SUBSET Milestones]
Gates == [kind : {"approve_escalation", "approve_outbound_message"},
          status : {"absent", "pending"} \cup Verdicts]
Requests ==
    [run : Runs \cup {NoRun}, verdict : Verdicts, phase : DecidePhases,
     todo : SUBSET Milestones, seen : [Milestones -> Nat]]
Tasks == [run : Runs, id : Milestones, urgent : BOOLEAN, level : Nat]

Typed ==
    /\ orderly \in BOOLEAN
    /\ active \subseteq Txns
    /\ today \in 0 .. LastDay
    /\ level \in [Milestones -> Nat]
    /\ pass \in [Passes -> PassRecords]
    /\ thread \in [Runs -> Threads]
    /\ inbox \in [Runs -> Gates]
    /\ decide \in [Decisions -> Requests]
    /\ tasks \subseteq Tasks
    /\ mail \in [Runs -> MailStates]
    /\ mailed \subseteq Runs

\* A pass awaits one run at a time, has left no transaction out that it did not skip,
\* and ends with the run that fails.
PassInv ==
    /\ \A r \in Runs : thread[r].phase \in Starting => pass[r[1]].phase = "running"
    /\ \A r, s \in Runs :
         thread[r].phase \in Starting /\ thread[s].phase \in Starting /\ r[1] = s[1] => r = s
    /\ \A r \in Runs : pass[r[1]].phase = "idle" => thread[r].phase = "idle"
    /\ \A r \in Runs : pass[r[1]].phase = "running" /\ r[2] \in pass[r[1]].todo =>
         thread[r].phase = "idle"
    /\ \A r \in Runs :
         /\ pass[r[1]].phase \in {"running", "success"} /\ r[2] \in active
         /\ r[2] \notin pass[r[1]].todo \cup pass[r[1]].awaiting_escalation
         => thread[r].phase # "idle"
    /\ \A p \in Passes : pass[p].phase = "success" => pass[p].todo = {}
    /\ \A r \in Runs : thread[r].phase \in {"raised", "dead"} =>
         pass[r[1]].phase \in {"failure", "dead"}

Escalates(r) == inbox[r].kind = "approve_escalation"

\* The milestones the run's assessment found overdue.
Overdue(r) == ByClass[r[2]][thread[r].day]["overdue"]

\* Where a run is and what is in its approval row.
RunOK(r) ==
    /\ inbox[r].status # "absent" => thread[r].phase \in {"paused", "ended"}
    /\ inbox[r].status = "pending" => thread[r].phase = "paused"
    /\ Overdue(r) # {} =>
         \/ thread[r].phase \in {"idle", "evaluate_milestones", "escalate"}
         \/ Escalates(r) /\ inbox[r].status # "absent"
         \/ /\ thread[r].phase \notin Starting
            /\ pass[r[1]].phase \notin {"running", "success"}

RunInv == \A r \in Runs : RunOK(r)

\* The phases of a request that has recorded its verdict.
Marked(d) == decide[d].phase \notin {"idle", "checked", "lost"}
InLoop(d) == decide[d].phase \in {"create_task", "set_level"}

\* Where a decide request is, and what it can be doing there.
RequestOK(d) ==
    LET r == decide[d].run IN
    /\ At(d, "idle") => r = NoRun
    /\ ~At(d, "idle") => r \in Runs /\ inbox[r].status # "absent"
    /\ Marked(d) => inbox[r].status # "pending"
    /\ decide[d].phase \in Notifying => Escalates(r) /\ decide[d].verdict = "approved"
    /\ decide[d].phase \in {"send", "sending", "save_failed", "save_sent"} =>
         ~Escalates(r) /\ decide[d].verdict = "approved"
    /\ decide[d].phase \in {"dismiss", "save_rejected"} => decide[d].verdict = "rejected"
    /\ At(d, "save_sent") => r \in mailed
    /\ decide[d].todo # {} =>
         /\ decide[d].phase \in {"create_task", "set_level", "raised", "dead"}
         /\ decide[d].todo \subseteq Overdue(r)

RequestInv == \A d \in Decisions : RequestOK(d)

\* Did request d make task x?  It approved x's run, and has been through notify's read.
Made(d, x) ==
    /\ decide[d].phase \in {"create_task", "set_level", "done", "raised", "dead"}
    /\ decide[d].verdict = "approved"
    /\ x = Task(d, x.id)

\* What has gone out, and who let it.
EffectInv ==
    /\ \A x \in tasks : x.urgent =>
         /\ \E d \in Decisions : Made(d, x)
         /\ Escalates(x.run) /\ x.id \in Overdue(x.run)
    /\ \A r \in mailed : Approved(r) /\ ~Escalates(r)
    /\ \A r \in Runs : mail[r] = "sent" => r \in mailed
    /\ \A r \in Runs : mail[r] = "rejected" =>
         \E d \in Decisions : Marked(d) /\ decide[d].run = r /\ decide[d].verdict = "rejected"

\* An URGENT task tells each level below n.
Told(id, n) == \A k \in 0 .. n - 1 : \E x \in UrgentTasks(id) : x.level = k

\* The levels there are, and the levels a loop of notify goes on from, were told.
LevelInv ==
    /\ \A id \in Milestones : Told(id, level[id])
    /\ \A d \in Decisions : InLoop(d) => \A id \in decide[d].todo : Told(id, decide[d].seen[id])

\* Where no decision overlaps another, one verdict is recorded for a run, and the row
\* says it.
ApartInv ==
    orderly =>
      /\ \A d, e \in Decisions :
           Marked(d) /\ Marked(e) /\ decide[d].run = decide[e].run => d = e
      /\ \A d \in Decisions : At(d, "checked") => inbox[decide[d].run].status = "pending"
      /\ \A d, e \in Decisions :
           At(d, "checked") /\ decide[e].phase \in InFlight /\ decide[d].run = decide[e].run
           => d = e
      /\ \A d \in Decisions : Marked(d) => inbox[decide[d].run].status = decide[d].verdict

\* Is r at an escalation gate, or its escalation being carried out?
Escalating(r) ==
    /\ Escalates(r)
    /\ \/ inbox[r].status = "pending"
       \/ \E d \in Decisions : /\ decide[d].run = r
                               /\ decide[d].phase \in {"marked"} \cup Notifying

Emailing(r) == ~Escalates(r) /\ inbox[r].status = "pending"

\* What the snapshots of a pass are good for.
SnapshotInv ==
    orderly =>
      /\ \A p, q \in Passes : pass[p].phase = "running" /\ pass[q].phase = "running" => p = q
      /\ \A p \in Passes, r \in Runs :
           /\ pass[p].phase = "running" /\ r[2] \in pass[p].todo
           => /\ Escalating(r) => r[2] \in pass[p].awaiting_escalation
              /\ Emailing(r) => r[2] \in pass[p].awaiting_email
      /\ \A r, s \in Runs :
           thread[r].phase \in Starting /\ r[2] = s[2] =>
              /\ ~Escalating(s)
              /\ Emailing(s) => thread[r].suppress
      /\ \A r \in Runs : thread[r].phase = "approve_outbound_message" => ~thread[r].suppress
      /\ \A r, s \in Runs : r[2] = s[2] =>
           /\ Escalating(r) /\ Escalating(s) => r = s
           /\ Emailing(r) /\ Emailing(s) => r = s

\* Where nothing overlaps, a loop of notify goes on from the level there is, and the
\* tasks whose level has been written tell the levels once each.
CountInv ==
    orderly =>
      /\ \A d \in Decisions : InLoop(d) =>
           \A id \in decide[d].todo : level[id] = decide[d].seen[id]
      /\ EscalationCounted

IInv ==
    /\ Typed /\ PassInv /\ RunInv /\ RequestInv /\ EffectInv
    /\ LevelInv /\ ApartInv /\ SnapshotInv /\ CountInv

-----------------------------------------------------------------------------
\* Helpers.

LEMMA RunPair ==
    /\ \A r \in Runs : r[1] \in Passes /\ r[2] \in Txns /\ r = <<r[1], r[2]>>
    /\ \A p \in Passes, t \in Txns :
         <<p, t>> \in Runs /\ <<p, t>>[1] = p /\ <<p, t>>[2] = t
    /\ \A r, s \in Runs : r[1] = s[1] /\ r[2] = s[2] => r = s
    /\ NoRun \notin Runs
BY CoordinationAssumptions DEF Runs

LEMMA Ranks ==
    /\ Range(SEVERITY_ORDER) = {"overdue", "due_soon", "blocked_external", "on_track"}
    /\ _SEVERITY_RANK["overdue"] = 1
    /\ \A c \in Range(SEVERITY_ORDER) \ {"overdue"} : _SEVERITY_RANK[c] \in 2 .. 4
<1>1. DOMAIN SEVERITY_ORDER = 1 .. 4
  BY DEF SEVERITY_ORDER
<1>2. Range(SEVERITY_ORDER) = {"overdue", "due_soon", "blocked_external", "on_track"}
  BY <1>1 DEF SEVERITY_ORDER, Range
<1>3. \A i \in 1 .. 4 : SEVERITY_ORDER[i] = "overdue" <=> i = 1
  BY DEF SEVERITY_ORDER
<1>4. \A c \in Range(SEVERITY_ORDER) :
         /\ _SEVERITY_RANK[c] \in 1 .. 4
         /\ SEVERITY_ORDER[_SEVERITY_RANK[c]] = c
  BY <1>1 DEF _SEVERITY_RANK, Range
<1> QED
  BY <1>2, <1>3, <1>4

\* Every assessment is of one of the four classes.
LEMMA AssessmentClass ==
    ASSUME NEW ms, NEW day, NEW a \in Range(assess_milestones(ms, day))
    PROVE  a.classification \in Range(SEVERITY_ORDER)
<1>1. PICK i \in DOMAIN ms : a = assess_milestone(ms[i], day)
  BY DEF assess_milestones, Range
<1>2. a.classification \in {"overdue", "due_soon", "blocked_external", "on_track"}
  BY <1>1 DEF assess_milestone
<1> QED
  BY <1>2, Ranks

\* A transaction with an overdue milestone is classified overdue, whatever else its
\* milestones are.
LEMMA WorstIsOverdue ==
    ASSUME NEW t \in Txns, NEW day \in 0 .. LastDay,
           ByClass[t][day]["overdue"] # {}
    PROVE  worst_classification(Assessments[t][day]) = "overdue"
<1> DEFINE A == Assessments[t][day]
           present == {a.classification : a \in Range(A)}
           First(c) == \A d \in present : _SEVERITY_RANK[c] <= _SEVERITY_RANK[d]
<1>1. A = assess_milestones(Timeline[t], day)
  BY DEF Assessments
<1>2. ByClass[t][day]["overdue"] =
        {a.milestone_id : a \in {b \in Range(A) : b.classification = "overdue"}}
  BY Ranks DEF ByClass
<1>3. "overdue" \in present
  BY <1>2
<1>4. present \subseteq Range(SEVERITY_ORDER)
  BY <1>1, AssessmentClass
<1>5. First("overdue")
  BY <1>4, Ranks
<1>6. \A c \in present : First(c) => c = "overdue"
  BY <1>3, <1>4, Ranks
<1>7. (CHOOSE c \in present : First(c)) = "overdue"
  BY <1>3, <1>5, <1>6
<1>8. worst_classification(A) = CHOOSE c \in present : First(c)
  BY <1>3 DEF worst_classification
<1> QED
  BY <1>7, <1>8

\* What an assessment puts in a class are milestones of the timeline it assessed.
LEMMA ByClassMilestones ==
    ASSUME NEW t \in Txns, NEW day \in 0 .. LastDay, NEW c \in Range(SEVERITY_ORDER)
    PROVE  ByClass[t][day][c] \in SUBSET Milestones
<1> SUFFICES ASSUME NEW id \in ByClass[t][day][c] PROVE id \in Milestones
  OBVIOUS
<1>1. PICK a \in Range(assess_milestones(Timeline[t], day)) : id = a.milestone_id
  BY DEF ByClass, Assessments
<1>2. PICK i \in DOMAIN Timeline[t] : a = assess_milestone(Timeline[t][i], day)
  BY DEF assess_milestones, Range
<1>3. id = Timeline[t][i].id /\ Timeline[t][i] \in Range(Timeline[t])
  BY <1>1, <1>2 DEF assess_milestone, Range
<1> QED
  BY <1>3 DEF Milestones

LEMMA GotoFact ==
    ASSUME Typed, NEW r \in Runs, NEW p \in RunPhases, Goto(r, p)
    PROVE  /\ thread' \in [Runs -> Threads]
           /\ thread'[r].phase = p
           /\ thread'[r].suppress = thread[r].suppress /\ thread'[r].day = thread[r].day
           /\ thread'[r].todo = thread[r].todo
           /\ \A s \in Runs : s # r => thread'[s] = thread[s]
BY DEF Typed, Goto, Threads

\* A request goes on to another phase.
LEMMA ContinueFact ==
    ASSUME Typed, NEW d \in Decisions, NEW p \in DecidePhases, Continue(d, p)
    PROVE  /\ decide' \in [Decisions -> Requests]
           /\ decide'[d].phase = p
           /\ \A e \in Decisions : /\ decide'[e].run = decide[e].run
                                   /\ decide'[e].verdict = decide[e].verdict
                                   /\ decide'[e].todo = decide[e].todo
                                   /\ decide'[e].seen = decide[e].seen
                                   /\ e # d => decide'[e] = decide[e]
BY DEF Typed, Continue, Requests

\* A request that is being made knows its run.
LEMMA RequestRun ==
    ASSUME Typed, RequestInv, NEW d \in Decisions, ~At(d, "idle")
    PROVE  /\ decide[d].run \in Runs /\ RequestOK(d)
           /\ inbox[decide[d].run] \in Gates /\ inbox[decide[d].run].status # "absent"
           /\ thread[decide[d].run] \in Threads
BY DEF RequestInv, RequestOK, Typed

LEMMA PhaseSets ==
    /\ Starting \cap {"idle", "paused", "ended", "raised", "dead"} = {}
    /\ Starting \subseteq RunPhases
    /\ {"evaluate_milestones", "send_reminders", "draft_reminder_email", "escalate",
        "approve_outbound_message"} = Starting
    /\ InFlight \cap {"idle", "lost", "done", "raised", "dead"} = {}
    /\ {"checked", "marked", "notify", "create_task", "set_level", "send", "sending",
        "save_failed", "save_sent", "dismiss", "save_rejected"} = InFlight
    /\ {"notify", "create_task", "set_level"} = Notifying
BY DEF Starting, RunPhases, InFlight, Notifying, Mailing

-----------------------------------------------------------------------------
\* What leaves each part of the invariant alone.

\* No run starts or becomes idle or fails, and the passes stand still.
LEMMA QuietPass ==
    ASSUME PassInv, pass' = pass, active' = active,
           \A r \in Runs : /\ thread'[r].phase \in Starting => thread[r].phase \in Starting
                           /\ thread'[r].phase = "idle" <=> thread[r].phase = "idle"
                           /\ thread'[r].phase \in {"raised", "dead"} =>
                                thread[r].phase \in {"raised", "dead"}
    PROVE  PassInv'
BY DEF PassInv

\* A run that a step is not about.
LEMMA QuietRun ==
    ASSUME NEW s \in Runs, RunOK(s), thread'[s] = thread[s], inbox'[s] = inbox[s],
           pass'[s[1]].phase \in {"running", "success"} =>
             pass[s[1]].phase \in {"running", "success"} \/ thread[s].phase = "idle"
    PROVE  RunOK(s)'
BY DEF RunOK, Escalates, Overdue

\* No gate is raised, no run started, and a pass reaches one more transaction or ends.
LEMMA QuietSnapshot ==
    ASSUME SnapshotInv, orderly' = orderly,
           \A p \in Passes : pass'[p].phase = "running" =>
             /\ pass[p].phase = "running"
             /\ pass'[p].todo \subseteq pass[p].todo
             /\ pass'[p].awaiting_escalation = pass[p].awaiting_escalation
             /\ pass'[p].awaiting_email = pass[p].awaiting_email,
           \A r \in Runs :
             /\ thread'[r].phase \in Starting =>
                  thread[r].phase \in Starting /\ thread'[r].suppress = thread[r].suppress
             /\ thread'[r].phase = "approve_outbound_message" =>
                  thread[r].phase = "approve_outbound_message"
             /\ orderly /\ Escalating(r)' => Escalating(r)
             /\ Emailing(r)' => Emailing(r)
    PROVE  SnapshotInv'
BY DEF SnapshotInv, Starting

\* A run with a row in the inbox keeps what its requests look at.
RowsKept ==
    \A r \in Runs : inbox[r].status # "absent" =>
        inbox'[r] = inbox[r] /\ thread'[r].day = thread[r].day

\* No request makes a step.
LEMMA QuietRequests ==
    ASSUME RequestInv, decide' = decide, mailed \subseteq mailed', RowsKept
    PROVE  RequestInv'
<1> SUFFICES ASSUME NEW d \in Decisions PROVE RequestOK(d)'
  BY DEF RequestInv
<1>1. RequestOK(d)
  BY DEF RequestInv
<1>2. CASE At(d, "idle")
  BY <1>1, <1>2 DEF RequestOK, At, Marked, Notifying
<1>3. CASE ~At(d, "idle")
  <2>1. /\ decide[d].run \in Runs /\ inbox'[decide[d].run] = inbox[decide[d].run]
        /\ thread'[decide[d].run].day = thread[decide[d].run].day
    BY <1>1, <1>3 DEF RequestOK, RowsKept
  <2> QED
    BY <1>1, <1>3, <2>1 DEF RequestOK, At, Marked, Escalates, Overdue
<1> QED
  BY <1>2, <1>3

LEMMA QuietApart ==
    ASSUME ApartInv, RequestInv, decide' = decide, orderly' = orderly, RowsKept
    PROVE  ApartInv'
<1>1. \A d \in Decisions : ~At(d, "idle") =>
        inbox'[decide[d].run] = inbox[decide[d].run]
  BY DEF RequestInv, RequestOK, RowsKept
<1> QED
  BY <1>1 DEF ApartInv, At, Marked

\* Nothing goes out, and a verdict once recorded stays.
LEMMA QuietEffects ==
    ASSUME Typed, RequestInv, EffectInv,
           \A d \in Decisions : Marked(d) =>
             /\ Marked(d)' /\ decide'[d].run = decide[d].run
             /\ decide'[d].verdict = decide[d].verdict,
           \A d \in Decisions :
             decide[d].phase \in {"create_task", "set_level", "done", "raised", "dead"} =>
               /\ decide'[d].phase \in {"create_task", "set_level", "done", "raised", "dead"}
               /\ decide'[d].seen = decide[d].seen,
           \A r \in Runs : inbox[r].status # "absent" =>
             inbox'[r].kind = inbox[r].kind /\ thread'[r].day = thread[r].day,
           \A x \in tasks' : x.urgent => x \in tasks,
           mailed' = mailed,
           \A r \in Runs : mail'[r] \in {"sent", "rejected"} => mail'[r] = mail[r]
    PROVE  EffectInv'
<1>1. \A d \in Decisions : Marked(d) =>
        decide[d].run \in Runs /\ inbox[decide[d].run].status # "absent"
  BY DEF RequestInv, RequestOK, Marked, At
<1>2. \A d \in Decisions : \A x : Made(d, x) =>
        Marked(d) /\ Made(d, x)' /\ x.run = decide[d].run
  BY DEF Made, Marked, Task
<1>3. \A r : Approved(r) => Approved(r)' /\ r \in Runs /\ inbox[r].status # "absent"
  BY <1>1 DEF Approved, Marked
<1>4. ASSUME NEW x \in tasks', x.urgent
      PROVE  /\ \E d \in Decisions : Made(d, x)'
             /\ Escalates(x.run)' /\ x.id \in Overdue(x.run)'
  <2>1. PICK d \in Decisions : Made(d, x)
    BY <1>4 DEF EffectInv
  <2>2. /\ Made(d, x)' /\ x.run \in Runs /\ inbox[x.run].status # "absent"
    BY <1>1, <1>2, <2>1
  <2>3. Escalates(x.run) /\ x.id \in Overdue(x.run)
    BY <1>4 DEF EffectInv
  <2> QED
    BY <2>2, <2>3 DEF Escalates, Overdue
<1>5. ASSUME NEW r \in mailed' PROVE Approved(r)' /\ ~Escalates(r)'
  BY <1>3, <1>5 DEF EffectInv, Escalates
<1>6. ASSUME NEW r \in Runs, mail'[r] = "sent" PROVE r \in mailed'
  BY <1>6 DEF EffectInv
<1>7. ASSUME NEW r \in Runs, mail'[r] = "rejected"
      PROVE  \E d \in Decisions :
               Marked(d)' /\ decide'[d].run = r /\ decide'[d].verdict = "rejected"
  BY <1>7 DEF EffectInv
<1> QED
  BY <1>4, <1>5, <1>6, <1>7 DEF EffectInv

\* No URGENT task, no level and no loop of notify moves.
LEMMA QuietLevels ==
    ASSUME LevelInv, CountInv, level' = level, orderly' = orderly,
           \A x : x \in tasks' /\ x.urgent <=> x \in tasks /\ x.urgent,
           \A d \in Decisions :
             /\ decide'[d].todo = decide[d].todo
             /\ decide[d].todo # {} =>
                  decide'[d].run = decide[d].run /\ decide'[d].seen = decide[d].seen
             /\ InLoop(d)' /\ decide[d].todo # {} => InLoop(d)
    PROVE  LevelInv' /\ CountInv'
<1>1. \A id : UrgentTasks(id)' = UrgentTasks(id)
  BY DEF UrgentTasks
<1>2. \A id, n : Told(id, n)' <=> Told(id, n)
  BY <1>1 DEF Told
<1>3. \A x : Unwritten(x)' <=> Unwritten(x)
  BY DEF Unwritten
<1>4. LevelInv'
  BY <1>2 DEF LevelInv
<1>5. EscalationCounted' <=> EscalationCounted
  BY <1>1, <1>3 DEF EscalationCounted
<1>6. CountInv'
  BY <1>5 DEF CountInv
<1> QED
  BY <1>4, <1>6

\* A step of a pass or of a run, as far as the requests can tell.
LEMMA QuietDecisions ==
    ASSUME IInv, decide' = decide, mailed' = mailed, level' = level, orderly' = orderly,
           RowsKept,
           \A x : x \in tasks' /\ x.urgent <=> x \in tasks /\ x.urgent,
           \A r \in Runs : mail'[r] \in {"sent", "rejected"} => mail'[r] = mail[r]
    PROVE  RequestInv' /\ EffectInv' /\ LevelInv' /\ ApartInv' /\ CountInv'
<1>1. RequestInv' /\ ApartInv'
  BY QuietRequests, QuietApart DEF IInv
<1>2. EffectInv'
  BY QuietEffects DEF IInv, RowsKept, Marked
<1>3. LevelInv' /\ CountInv'
  BY QuietLevels DEF IInv, InLoop
<1> QED
  BY <1>1, <1>2, <1>3

-----------------------------------------------------------------------------
\* The passes.

LEMMA TickIInv ==
    ASSUME IInv, Tick, UNCHANGED <<orderly, active>>
    PROVE  IInv'
<1>1. UNCHANGED <<level, pass, thread, inbox, decide, tasks, mail, mailed>>
  BY DEF Tick, outside
<1>2. Typed'
  <2>1. today' \in 0 .. LastDay
    BY CoordinationAssumptions DEF Tick, IInv, Typed
  <2> QED
    BY <1>1, <2>1 DEF IInv, Typed
<1>3. PassInv' /\ RunInv'
  BY <1>1, QuietPass, QuietRun DEF IInv, RunInv
<1>4. SnapshotInv'
  BY <1>1, QuietSnapshot DEF IInv, Escalating, Emailing, Escalates
<1>5. RequestInv' /\ EffectInv' /\ LevelInv' /\ ApartInv' /\ CountInv'
  BY <1>1, QuietDecisions DEF RowsKept
<1> QED
  BY <1>2, <1>3, <1>4, <1>5 DEF IInv

LEMMA StartPassIInv ==
    ASSUME IInv, NEW p \in Passes, StartPass(p), UNCHANGED <<orderly, active>>
    PROVE  IInv'
<1> DEFINE new == [phase |-> "running", todo |-> active,
                   awaiting_escalation |-> Awaiting("approve_escalation"),
                   awaiting_email |-> Awaiting("approve_outbound_message")]
<1>1. /\ pass[p].phase = "idle"
      /\ pass' = [pass EXCEPT ![p] = new]
      /\ UNCHANGED <<today, level, thread, inbox, decide, tasks, mail, mailed>>
  BY DEF StartPass, outside
<1>2. new \in PassRecords
  BY DEF PassRecords, PassPhases, Awaiting, IInv, Typed
<1>3. /\ pass' \in [Passes -> PassRecords]
      /\ \A q \in Passes : pass'[q] = IF q = p THEN new ELSE pass[q]
  BY <1>1, <1>2 DEF IInv, Typed
<1>4. Typed'
  BY <1>1, <1>3 DEF IInv, Typed
<1>5. PassInv'
  BY <1>1, <1>3, RunPair DEF IInv, PassInv, Starting
<1>6. \A s \in Runs : pass'[s[1]].phase \in {"running", "success"} =>
         pass[s[1]].phase \in {"running", "success"} \/ thread[s].phase = "idle"
  BY <1>1, <1>3, RunPair DEF IInv, PassInv
<1>7. RunInv'
  BY <1>1, <1>6, QuietRun DEF IInv, RunInv
<1>8. SnapshotInv'
  <2> SUFFICES ASSUME orderly PROVE SnapshotInv'
    BY DEF SnapshotInv
  <2>1. /\ \A q \in Passes : pass[q].phase # "running"
        /\ \A d \in Decisions : decide[d].phase \notin {"marked"} \cup Notifying
    BY DEF StartPass
  <2>2. ASSUME NEW r \in Runs
        PROVE  /\ Escalating(r) => r[2] \in Awaiting("approve_escalation")
               /\ Emailing(r) => r[2] \in Awaiting("approve_outbound_message")
    <3>1. r[2] \in Txns /\ inbox[r] \in Gates
      BY RunPair DEF IInv, Typed
    <3>2. Escalating(r) => r \in Pending(r[2], "approve_escalation")
      BY <2>1, <3>1 DEF Escalating, Escalates, Pending, Gates
    <3>3. Emailing(r) => r \in Pending(r[2], "approve_outbound_message")
      BY <3>1 DEF Emailing, Escalates, Pending, Gates
    <3> QED
      BY <3>1, <3>2, <3>3 DEF Awaiting
  <2>3. \A r \in Runs : (Escalating(r)' <=> Escalating(r)) /\ (Emailing(r)' <=> Emailing(r))
    BY <1>1 DEF Escalating, Emailing, Escalates
  <2> QED
    BY <1>1, <1>3, <2>1, <2>2, <2>3 DEF SnapshotInv, IInv
<1>9. RequestInv' /\ EffectInv' /\ LevelInv' /\ ApartInv' /\ CountInv'
  BY <1>1, QuietDecisions DEF RowsKept
<1> QED
  BY <1>4, <1>5, <1>7, <1>8, <1>9 DEF IInv

LEMMA SkipTransactionIInv ==
    ASSUME IInv, NEW p \in Passes, NEW t \in Txns, SkipTransaction(p, t),
           UNCHANGED <<orderly, active>>
    PROVE  IInv'
<1>1. /\ t \in pass[p].awaiting_escalation
      /\ pass' = [pass EXCEPT ![p].todo = @ \ {t}]
      /\ UNCHANGED <<today, level, thread, inbox, decide, tasks, mail, mailed>>
  BY DEF SkipTransaction, outside
<1>2. /\ pass' \in [Passes -> PassRecords]
      /\ \A q \in Passes : /\ pass'[q].phase = pass[q].phase
                           /\ pass'[q].awaiting_escalation = pass[q].awaiting_escalation
                           /\ pass'[q].awaiting_email = pass[q].awaiting_email
                           /\ pass'[q].todo = IF q = p THEN pass[q].todo \ {t} ELSE pass[q].todo
  BY <1>1 DEF IInv, Typed, PassRecords
<1>3. Typed'
  BY <1>1, <1>2 DEF IInv, Typed
<1>4. PassInv'
  BY <1>1, <1>2, RunPair DEF IInv, PassInv
<1>5. RunInv'
  BY <1>1, <1>2, RunPair, QuietRun DEF IInv, RunInv
<1>6. SnapshotInv'
  BY <1>1, <1>2, QuietSnapshot DEF IInv, Escalating, Emailing, Escalates
<1>7. RequestInv' /\ EffectInv' /\ LevelInv' /\ ApartInv' /\ CountInv'
  BY <1>1, QuietDecisions DEF RowsKept
<1> QED
  BY <1>3, <1>4, <1>5, <1>6, <1>7 DEF IInv

LEMMA FinishPassIInv ==
    ASSUME IInv, NEW p \in Passes, FinishPass(p), UNCHANGED <<orderly, active>>
    PROVE  IInv'
<1>1. /\ pass[p].phase = "running" /\ ~InRun(p) /\ pass[p].todo = {}
      /\ pass' = [pass EXCEPT ![p].phase = "success"]
      /\ UNCHANGED <<today, level, thread, inbox, decide, tasks, mail, mailed>>
  BY DEF FinishPass, outside
<1>2. /\ pass' \in [Passes -> PassRecords]
      /\ \A q \in Passes : /\ pass'[q].phase = IF q = p THEN "success" ELSE pass[q].phase
                           /\ pass'[q].awaiting_escalation = pass[q].awaiting_escalation
                           /\ pass'[q].awaiting_email = pass[q].awaiting_email
                           /\ pass'[q].todo = pass[q].todo
  BY <1>1 DEF IInv, Typed, PassRecords, PassPhases
<1>3. \A r \in Runs : r[1] = p => thread[r].phase \notin Starting
  BY <1>1, RunPair DEF InRun
<1>4. Typed'
  BY <1>1, <1>2 DEF IInv, Typed
<1>5. PassInv'
  BY <1>1, <1>2, <1>3, RunPair DEF IInv, PassInv
<1>6. RunInv'
  BY <1>1, <1>2, RunPair, QuietRun DEF IInv, RunInv
<1>7. SnapshotInv'
  BY <1>1, <1>2, QuietSnapshot DEF IInv, Escalating, Emailing, Escalates
<1>8. RequestInv' /\ EffectInv' /\ LevelInv' /\ ApartInv' /\ CountInv'
  BY <1>1, QuietDecisions DEF RowsKept
<1> QED
  BY <1>4, <1>5, <1>6, <1>7, <1>8 DEF IInv

\* A run that is idle or on its way to a gate has no row in the inbox, nothing out, and
\* no request about it.
LEMMA BeforeGate ==
    ASSUME IInv, NEW r \in Runs, thread[r].phase \in Starting \cup {"idle"}
    PROVE  /\ RunOK(r)
           /\ inbox[r] \in Gates /\ inbox[r].status = "absent"
           /\ mail[r] \notin {"sent", "rejected"}
           /\ \A d \in Decisions : decide[d].run # r
           /\ r[1] \in Passes /\ r[2] \in Txns
           /\ thread[r].phase \in Starting => pass[r[1]].phase = "running"
<1>1. RunOK(r) /\ inbox[r] \in Gates /\ r[1] \in Passes /\ r[2] \in Txns
  BY RunPair DEF IInv, RunInv, Typed
<1>2. inbox[r].status = "absent"
  BY <1>1, PhaseSets DEF RunOK, Gates
<1>3. \A d \in Decisions : decide[d].run # r
  BY <1>2, RunPair DEF IInv, RequestInv, RequestOK, At
<1>4. mail[r] \notin {"sent", "rejected"}
  BY <1>3 DEF IInv, EffectInv, Approved
<1> QED
  BY <1>1, <1>2, <1>3, <1>4 DEF IInv, PassInv

LEMMA StartRunIInv ==
    ASSUME IInv, NEW p \in Passes, NEW t \in Txns, StartRun(p, t),
           UNCHANGED <<orderly, active>>
    PROVE  IInv'
<1> DEFINE r == <<p, t>>
           late == t \in pass[p].awaiting_email
<1>1. /\ pass[p].phase = "running" /\ ~InRun(p)
      /\ t \in pass[p].todo /\ t \notin pass[p].awaiting_escalation
      /\ pass' = [pass EXCEPT ![p].todo = @ \ {t}]
      /\ thread' = [thread EXCEPT ![r].phase = "evaluate_milestones",
                                  ![r].suppress = late]
      /\ UNCHANGED <<today, level, inbox, decide, tasks, mail, mailed>>
  BY DEF StartRun, outside
<1>2. r \in Runs /\ r[1] = p /\ r[2] = t /\ late \in BOOLEAN
  BY RunPair
<1> HIDE DEF r, late
<1>3. /\ pass' \in [Passes -> PassRecords]
      /\ \A q \in Passes : /\ pass'[q].phase = pass[q].phase
                           /\ pass'[q].awaiting_escalation = pass[q].awaiting_escalation
                           /\ pass'[q].awaiting_email = pass[q].awaiting_email
                           /\ pass'[q].todo = IF q = p THEN pass[q].todo \ {t} ELSE pass[q].todo
  BY <1>1 DEF IInv, Typed, PassRecords
<1>4. /\ thread' \in [Runs -> Threads]
      /\ thread'[r].phase = "evaluate_milestones"
      /\ thread'[r].suppress = late
      /\ thread'[r].day = thread[r].day /\ thread'[r].todo = thread[r].todo
      /\ \A s \in Runs : s # r => thread'[s] = thread[s]
  <2>1. thread \in [Runs -> Threads]
    BY DEF IInv, Typed
  <2>2. "evaluate_milestones" \in RunPhases
    BY DEF RunPhases, Starting
  <2>3. /\ thread'[r].phase = "evaluate_milestones" /\ thread'[r].suppress = late
        /\ thread'[r].day = thread[r].day /\ thread'[r].todo = thread[r].todo
        /\ \A s \in Runs : s # r => thread'[s] = thread[s]
    BY <1>1, <1>2, <2>1 DEF Threads
  <2>4. thread' \in [Runs -> Threads]
    BY <1>1, <1>2, <2>1, <2>2 DEF Threads
  <2> QED
    BY <2>3, <2>4
<1>5. thread[r].phase = "idle" /\ \A s \in Runs : s[1] = p => thread[s].phase \notin Starting
  BY <1>1, <1>2, RunPair DEF IInv, PassInv, InRun
<1>6. RunOK(r) /\ inbox[r].status = "absent"
  BY <1>2, <1>5, BeforeGate
<1>7. Typed'
  BY <1>1, <1>3, <1>4 DEF IInv, Typed
<1>8. PassInv'
  BY SMTT(30), <1>1, <1>2, <1>3, <1>4, <1>5, RunPair DEF IInv, PassInv, Starting
<1>9. RunInv'
  <2>1. RunOK(r)'
    BY <1>1, <1>4, <1>6 DEF RunOK
  <2>2. \A s \in Runs : s # r => RunOK(s)'
    BY <1>1, <1>3, <1>4, RunPair, QuietRun DEF IInv, RunInv
  <2> QED
    BY <2>1, <2>2 DEF RunInv
<1>10. SnapshotInv'
  <2> SUFFICES ASSUME orderly PROVE SnapshotInv'
    BY DEF SnapshotInv
  <2>1. \A s \in Runs : (Escalating(s)' <=> Escalating(s)) /\ (Emailing(s)' <=> Emailing(s))
    BY <1>1 DEF Escalating, Emailing, Escalates
  <2>2. \A s \in Runs : s[2] = t => /\ ~Escalating(s)
                                    /\ Emailing(s) => late
    BY <1>1 DEF IInv, SnapshotInv, late
  <2> QED
    BY <1>1, <1>2, <1>3, <1>4, <2>1, <2>2 DEF IInv, SnapshotInv
<1>11. RequestInv' /\ EffectInv' /\ LevelInv' /\ ApartInv' /\ CountInv'
  BY <1>1, <1>4, QuietDecisions DEF RowsKept
<1> QED
  BY <1>7, <1>8, <1>9, <1>10, <1>11 DEF IInv

-----------------------------------------------------------------------------
\* The runs.

LEMMA EvaluateMilestonesIInv ==
    ASSUME IInv, NEW r \in Runs, EvaluateMilestones(r), UNCHANGED <<orderly, active>>
    PROVE  IInv'
<1> DEFINE worst == worst_classification(Assessments[r[2]][today])
           todo == IF worst = "due_soon"
                   THEN _milestones_by_class(r[2], today, "due_soon") ELSE {}
           q == CASE worst = "overdue" -> "escalate"
                  [] worst = "due_soon" -> "send_reminders"
                  [] OTHER -> "ended"
<1>1. /\ thread[r].phase = "evaluate_milestones"
      /\ thread' = [thread EXCEPT ![r].day = today, ![r].todo = todo, ![r].phase = q]
      /\ UNCHANGED <<today, level, pass, inbox, decide, tasks, mail, mailed>>
  BY DEF EvaluateMilestones, outside
<1>2. today \in 0 .. LastDay /\ thread[r].phase \in Starting
  BY <1>1 DEF IInv, Typed, Starting
<1>3. /\ RunOK(r)
      /\ inbox[r] \in Gates /\ inbox[r].status = "absent"
      /\ r[1] \in Passes /\ r[2] \in Txns
      /\ pass[r[1]].phase = "running"
  BY <1>2, BeforeGate
<1>4. todo \in SUBSET Milestones
  BY <1>2, <1>3, ByClassMilestones, Ranks DEF _milestones_by_class
<1>5. q \in {"escalate", "send_reminders", "ended"}
  OBVIOUS
<1>6. ByClass[r[2]][today]["overdue"] # {} => q = "escalate"
  BY <1>2, <1>3, WorstIsOverdue
<1> HIDE DEF todo, q
<1>7. q \in RunPhases
  BY <1>5 DEF RunPhases, Starting
<1>8. /\ thread' \in [Runs -> Threads]
      /\ thread'[r].phase = q
      /\ thread'[r].suppress = thread[r].suppress /\ thread'[r].day = today
      /\ \A s \in Runs : s # r => thread'[s] = thread[s]
  BY ZenonT(60), <1>1, <1>2, <1>4, <1>7 DEF IInv, Typed, Threads
<1>9. Typed'
  BY <1>1, <1>8 DEF IInv, Typed
<1>10. PassInv'
  BY <1>1, <1>2, <1>5, <1>8, QuietPass DEF IInv
<1>11. RunInv'
  <2>1. RunOK(r)'
    <3>1. Overdue(r)' # {} => q = "escalate"
      BY <1>6, <1>8 DEF Overdue
    <3> QED
      BY <1>1, <1>3, <1>8, <3>1 DEF RunOK
  <2>2. \A s \in Runs : s # r => RunOK(s)'
    BY <1>1, <1>8, QuietRun DEF IInv, RunInv
  <2> QED
    BY <2>1, <2>2 DEF RunInv
<1>12. SnapshotInv'
  <2>1. \A s \in Runs :
          /\ thread'[s].phase \in Starting =>
               thread[s].phase \in Starting /\ thread'[s].suppress = thread[s].suppress
          /\ thread'[s].phase = "approve_outbound_message" =>
               thread[s].phase = "approve_outbound_message"
          /\ Escalating(s)' => Escalating(s)
          /\ Emailing(s)' => Emailing(s)
    BY <1>1, <1>2, <1>5, <1>8 DEF Escalating, Emailing, Escalates
  <2> QED
    BY <1>1, <2>1, QuietSnapshot DEF IInv
<1>13. RequestInv' /\ EffectInv' /\ LevelInv' /\ ApartInv' /\ CountInv'
  BY <1>1, <1>3, <1>8, QuietDecisions DEF RowsKept
<1> QED
  BY <1>9, <1>10, <1>11, <1>12, <1>13 DEF IInv

LEMMA SendReminderIInv ==
    ASSUME IInv, NEW r \in Runs, SendReminder(r), UNCHANGED <<orderly, active>>
    PROVE  IInv'
<1> DEFINE task(id) == [run |-> r, id |-> id, urgent |-> FALSE, level |-> 0]
<1>1. PICK id \in thread[r].todo :
        /\ thread[r].phase = "send_reminders"
        /\ tasks' = tasks \cup {task(id)}
        /\ thread' = [thread EXCEPT
             ![r].todo = @ \ {id},
             ![r].phase = IF thread[r].todo = {id} THEN "draft_reminder_email" ELSE @]
        /\ UNCHANGED <<today, level, pass, inbox, decide, mail, mailed>>
  BY DEF SendReminder
<1>2. thread[r].phase \in Starting /\ id \in Milestones
  BY <1>1 DEF IInv, Typed, Threads, Starting
<1>3. /\ RunOK(r)
      /\ inbox[r] \in Gates /\ inbox[r].status = "absent"
      /\ r[1] \in Passes /\ r[2] \in Txns
      /\ pass[r[1]].phase = "running"
  BY <1>2, BeforeGate
<1>4. /\ thread' \in [Runs -> Threads]
      /\ thread'[r].phase \in {"send_reminders", "draft_reminder_email"}
      /\ thread'[r].suppress = thread[r].suppress /\ thread'[r].day = thread[r].day
      /\ \A s \in Runs : s # r => thread'[s] = thread[s]
  BY ZenonT(60), <1>1 DEF IInv, Typed, Threads, RunPhases, Starting
<1>5. task(id) \in Tasks /\ ~task(id).urgent
  BY <1>2 DEF Tasks
<1>6. Typed'
  <2>1. tasks' \subseteq Tasks
    BY <1>1, <1>5, Zenon DEF IInv, Typed
  <2> QED
    BY <1>1, <1>4, <2>1 DEF IInv, Typed
<1>7. PassInv'
  BY <1>1, <1>2, <1>4, QuietPass DEF IInv
<1>8. RunInv'
  <2>1. RunOK(r)'
    <3>1. Overdue(r)' = Overdue(r)
      BY <1>4 DEF Overdue
    <3> QED
      BY <1>1, <1>3, <1>4, <3>1 DEF RunOK, Starting
  <2>2. \A s \in Runs : s # r => RunOK(s)'
    BY <1>1, <1>4, QuietRun DEF IInv, RunInv
  <2> QED
    BY <2>1, <2>2 DEF RunInv
<1>9. SnapshotInv'
  <2>1. \A s \in Runs :
          /\ thread'[s].phase \in Starting =>
               thread[s].phase \in Starting /\ thread'[s].suppress = thread[s].suppress
          /\ thread'[s].phase = "approve_outbound_message" =>
               thread[s].phase = "approve_outbound_message"
          /\ Escalating(s)' => Escalating(s)
          /\ Emailing(s)' => Emailing(s)
    BY <1>1, <1>2, <1>4 DEF Escalating, Emailing, Escalates
  <2> QED
    BY <1>1, <2>1, QuietSnapshot DEF IInv
<1>10. RequestInv' /\ EffectInv' /\ LevelInv' /\ ApartInv' /\ CountInv'
  <2> HIDE DEF task
  <2> QED
    BY <1>1, <1>4, <1>5, QuietDecisions DEF RowsKept
<1> QED
  BY <1>6, <1>7, <1>8, <1>9, <1>10 DEF IInv

LEMMA DraftReminderEmailIInv ==
    ASSUME IInv, NEW r \in Runs, DraftReminderEmail(r), UNCHANGED <<orderly, active>>
    PROVE  IInv'
<1>1. /\ thread[r].phase = "draft_reminder_email"
      /\ \/ Goto(r, "ended") /\ UNCHANGED mail
         \/ /\ ~thread[r].suppress
            /\ mail' = [mail EXCEPT ![r] = "pending"]
            /\ Goto(r, "approve_outbound_message")
      /\ UNCHANGED <<today, level, pass, inbox, decide, tasks, mailed>>
  BY DEF DraftReminderEmail
<1>2. thread[r].phase \in Starting
  BY <1>1 DEF Starting
<1>3. /\ RunOK(r)
      /\ inbox[r] \in Gates /\ inbox[r].status = "absent"
      /\ r[1] \in Passes /\ r[2] \in Txns
      /\ pass[r[1]].phase = "running"
  BY <1>2, BeforeGate
<1>4. PICK q \in {"ended", "approve_outbound_message"} :
        Goto(r, q) /\ (q = "approve_outbound_message" => ~thread[r].suppress)
  BY <1>1
<1>5. /\ thread' \in [Runs -> Threads]
      /\ thread'[r].phase = q
      /\ thread'[r].suppress = thread[r].suppress /\ thread'[r].day = thread[r].day
      /\ \A s \in Runs : s # r => thread'[s] = thread[s]
  <2>1. q \in RunPhases
    BY DEF RunPhases, Starting
  <2> QED
    BY <1>4, <2>1, GotoFact DEF IInv
<1>6. /\ mail' \in [Runs -> MailStates]
      /\ \A s \in Runs : mail'[s] \in {"sent", "rejected"} => mail'[s] = mail[s]
  BY <1>1 DEF IInv, Typed, MailStates
<1>7. Typed'
  BY <1>1, <1>5, <1>6 DEF IInv, Typed
<1>8. PassInv'
  BY <1>1, <1>2, <1>5, QuietPass DEF IInv
<1>9. RunInv'
  <2>1. RunOK(r)'
    <3>1. Overdue(r)' = Overdue(r) /\ Overdue(r) = {}
      BY <1>1, <1>2, <1>3, <1>5 DEF Overdue, RunOK
    <3> QED
      BY <1>1, <1>3, <1>5, <3>1 DEF RunOK
  <2>2. \A s \in Runs : s # r => RunOK(s)'
    BY <1>1, <1>5, QuietRun DEF IInv, RunInv
  <2> QED
    BY <2>1, <2>2 DEF RunInv
<1>10. SnapshotInv'
  <2>1. \A s \in Runs :
          /\ thread'[s].phase \in Starting =>
               thread[s].phase \in Starting /\ thread'[s].suppress = thread[s].suppress
          /\ thread'[s].phase = "approve_outbound_message" =>
               thread[s].phase = "approve_outbound_message" \/ ~thread[s].suppress
          /\ Escalating(s)' <=> Escalating(s)
          /\ Emailing(s)' <=> Emailing(s)
    BY <1>1, <1>2, <1>4, <1>5 DEF Escalating, Emailing, Escalates
  <2>2. "approve_outbound_message" \in Starting
    BY DEF Starting
  <2> QED
    BY <1>1, <2>1, <2>2 DEF IInv, SnapshotInv
<1>11. RequestInv' /\ EffectInv' /\ LevelInv' /\ ApartInv' /\ CountInv'
  BY <1>1, <1>5, <1>6, QuietDecisions DEF RowsKept
<1> QED
  BY <1>7, <1>8, <1>9, <1>10, <1>11 DEF IInv

LEMMA RaiseGateIInv ==
    ASSUME IInv, NEW r \in Runs, RaiseGate(r), UNCHANGED <<orderly, active>>
    PROVE  IInv'
<1> DEFINE row == [status |-> "pending",
                   kind |-> IF thread[r].phase = "escalate" THEN "approve_escalation"
                                                            ELSE "approve_outbound_message"]
<1>1. /\ thread[r].phase \in {"escalate", "approve_outbound_message"}
      /\ inbox' = [inbox EXCEPT ![r] = row]
      /\ Goto(r, "paused")
      /\ UNCHANGED <<today, level, pass, decide, tasks, mail, mailed>>
  BY DEF RaiseGate, outside
<1>2. /\ row \in Gates /\ row.status = "pending"
      /\ row.kind = IF thread[r].phase = "escalate" THEN "approve_escalation"
                    ELSE "approve_outbound_message"
  BY DEF Gates
<1> HIDE DEF row
<1>3. thread[r].phase \in Starting
  BY <1>1 DEF Starting
<1>4. /\ RunOK(r)
      /\ inbox[r] \in Gates /\ inbox[r].status = "absent"
      /\ \A d \in Decisions : decide[d].run # r
      /\ r[1] \in Passes /\ r[2] \in Txns
      /\ pass[r[1]].phase = "running"
  BY <1>3, BeforeGate
<1>5. /\ thread' \in [Runs -> Threads]
      /\ thread'[r].phase = "paused"
      /\ thread'[r].suppress = thread[r].suppress /\ thread'[r].day = thread[r].day
      /\ \A s \in Runs : s # r => thread'[s] = thread[s]
  BY <1>1, GotoFact DEF IInv, RunPhases
<1>6. /\ inbox' \in [Runs -> Gates] /\ inbox'[r] = row
      /\ \A s \in Runs : s # r => inbox'[s] = inbox[s]
  BY <1>1, <1>2 DEF IInv, Typed
<1>7. Typed'
  BY <1>1, <1>5, <1>6 DEF IInv, Typed
<1>8. PassInv'
  BY <1>1, <1>3, <1>5, PhaseSets, QuietPass DEF IInv
<1>9. RunInv'
  <2>1. RunOK(r)'
    <3>1. Overdue(r)' = Overdue(r)
      BY <1>5 DEF Overdue
    <3>2. Overdue(r) # {} => thread[r].phase = "escalate"
      BY <1>1, <1>3, <1>4 DEF RunOK
    <3> QED
      BY <1>2, <1>5, <1>6, <3>1, <3>2 DEF RunOK, Escalates
  <2>2. \A s \in Runs : s # r => RunOK(s)'
    BY <1>1, <1>5, <1>6, QuietRun DEF IInv, RunInv
  <2> QED
    BY <2>1, <2>2 DEF RunInv
<1>10. SnapshotInv'
  <2> SUFFICES ASSUME orderly PROVE SnapshotInv'
    BY DEF SnapshotInv
  <2>1. \A s \in Runs : s # r =>
          (Escalating(s)' <=> Escalating(s)) /\ (Emailing(s)' <=> Emailing(s))
    BY <1>1, <1>6 DEF Escalating, Emailing, Escalates
  <2>2. ~(Escalating(r)' /\ Emailing(r)')
    BY DEF Escalating, Emailing
  <2>3. Emailing(r)' => thread[r].phase = "approve_outbound_message"
    BY <1>1, <1>2, <1>6 DEF Emailing, Escalates
  <2>4. \A s \in Runs : s[2] = r[2] =>
          /\ ~Escalating(s)
          /\ Emailing(s) => thread[r].suppress
    BY <1>3 DEF IInv, SnapshotInv
  <2>5. thread[r].phase = "approve_outbound_message" => ~thread[r].suppress
    BY DEF IInv, SnapshotInv
  <2>6. \A s \in Runs : thread[s].phase \in Starting /\ s[2] = r[2] => s = r
    BY <1>3, <1>4, RunPair DEF IInv, PassInv, SnapshotInv
  <2>7. \A p \in Passes : pass[p].phase = "running" => r[2] \notin pass[p].todo
    BY <1>3, <1>4, PhaseSets DEF IInv, PassInv, SnapshotInv
  <2> QED
    BY <1>1, <1>5, PhaseSets, <2>1, <2>2, <2>3, <2>4, <2>5, <2>6, <2>7 DEF IInv, SnapshotInv
<1>11. RequestInv' /\ EffectInv' /\ LevelInv' /\ ApartInv' /\ CountInv'
  BY <1>1, <1>4, <1>5, <1>6, QuietDecisions DEF RowsKept
<1> QED
  BY <1>7, <1>8, <1>9, <1>10, <1>11 DEF IInv

LEMMA RunRaisesIInv ==
    ASSUME IInv, NEW r \in Runs, RunRaises(r), UNCHANGED <<orderly, active>>
    PROVE  IInv'
<1>1. /\ thread[r].phase \in Starting /\ Goto(r, "raised")
      /\ pass' = [pass EXCEPT ![r[1]].phase = "failure"]
      /\ UNCHANGED <<today, level, inbox, decide, tasks, mail, mailed>>
  BY DEF RunRaises, outside
<1>2. /\ RunOK(r) /\ inbox[r].status = "absent"
      /\ r[1] \in Passes /\ pass[r[1]].phase = "running"
  BY <1>1, BeforeGate
<1>3. /\ thread' \in [Runs -> Threads]
      /\ thread'[r].phase = "raised"
      /\ thread'[r].suppress = thread[r].suppress /\ thread'[r].day = thread[r].day
      /\ \A s \in Runs : s # r => thread'[s] = thread[s]
  BY <1>1, GotoFact DEF IInv, RunPhases
<1>4. /\ pass' \in [Passes -> PassRecords]
      /\ \A q \in Passes : /\ pass'[q].phase = IF q = r[1] THEN "failure" ELSE pass[q].phase
                           /\ pass'[q].awaiting_escalation = pass[q].awaiting_escalation
                           /\ pass'[q].awaiting_email = pass[q].awaiting_email
                           /\ pass'[q].todo = pass[q].todo
  BY <1>1, <1>2 DEF IInv, Typed, PassRecords, PassPhases
<1>5. Typed'
  BY <1>1, <1>3, <1>4 DEF IInv, Typed
<1>6. PassInv'
  <2>1. \A s \in Runs : /\ thread'[s].phase \in Starting =>
                             thread[s].phase \in Starting /\ s[1] # r[1]
                        /\ thread'[s].phase = "idle" <=> thread[s].phase = "idle"
                        /\ thread'[s].phase \in {"raised", "dead"} =>
                             s = r \/ thread[s].phase \in {"raised", "dead"}
    BY <1>1, <1>3, PhaseSets DEF IInv, PassInv
  <2>2. \A s \in Runs : s[1] \in Passes
    BY RunPair
  <2> QED
    BY <1>4, <2>1, <2>2 DEF IInv, PassInv
<1>7. RunInv'
  <2>1. RunOK(r)'
    BY <1>1, <1>2, <1>3, <1>4, PhaseSets DEF RunOK
  <2>2. \A s \in Runs : s # r => RunOK(s)'
    BY <1>1, <1>3, <1>4, RunPair, QuietRun DEF IInv, RunInv
  <2> QED
    BY <2>1, <2>2 DEF RunInv
<1>8. SnapshotInv'
  <2>1. \A s \in Runs :
          /\ thread'[s].phase \in Starting =>
               thread[s].phase \in Starting /\ thread'[s].suppress = thread[s].suppress
          /\ thread'[s].phase = "approve_outbound_message" =>
               thread[s].phase = "approve_outbound_message"
          /\ Escalating(s)' => Escalating(s)
          /\ Emailing(s)' => Emailing(s)
    BY <1>1, <1>3, PhaseSets DEF Escalating, Emailing, Escalates
  <2> QED
    BY <1>4, <2>1, QuietSnapshot DEF IInv
<1>9. RequestInv' /\ EffectInv' /\ LevelInv' /\ ApartInv' /\ CountInv'
  BY <1>1, <1>3, QuietDecisions DEF RowsKept
<1> QED
  BY <1>5, <1>6, <1>7, <1>8, <1>9 DEF IInv

-----------------------------------------------------------------------------
\* The decisions.

\* What a request does to the threads: it ends the one it was about, if at all.
ThreadsKept ==
    \A r \in Runs :
      /\ thread'[r].day = thread[r].day /\ thread'[r].suppress = thread[r].suppress
      /\ \/ thread'[r].phase = thread[r].phase
         \/ /\ thread[r].phase \in {"paused", "ended"} /\ thread'[r].phase = "ended"
            /\ inbox[r].status # "pending"

\* What a request does to the rows: it decides the one it is about, if at all.
GatesKept ==
    \A r \in Runs :
      /\ inbox'[r].kind = inbox[r].kind
      /\ inbox'[r].status = "absent" <=> inbox[r].status = "absent"
      /\ inbox'[r].status = "pending" => inbox[r].status = "pending"

LEMMA RequestKeepsRuns ==
    ASSUME IInv, UNCHANGED <<orderly, active, pass>>, ThreadsKept, GatesKept,
           \A d \in Decisions : orderly /\ decide'[d].phase \in {"marked"} \cup Notifying =>
             /\ decide'[d].run = decide[d].run
             /\ \/ decide[d].phase \in {"marked"} \cup Notifying
                \/ inbox[decide[d].run].status = "pending"
    PROVE  PassInv' /\ RunInv' /\ SnapshotInv'
<1>1. \A r \in Runs :
        /\ thread'[r].phase \in Starting <=> thread[r].phase \in Starting
        /\ thread'[r].phase \in Starting => thread'[r].phase = thread[r].phase
        /\ thread'[r].phase = "idle" <=> thread[r].phase = "idle"
        /\ thread'[r].phase \in {"raised", "dead"} => thread'[r].phase = thread[r].phase
  BY PhaseSets DEF ThreadsKept
<1>2. PassInv'
  BY <1>1, QuietPass DEF IInv
<1>3. ASSUME NEW r \in Runs PROVE RunOK(r)'
  <2>1. RunOK(r) /\ Overdue(r)' = Overdue(r) /\ (Escalates(r)' <=> Escalates(r))
    BY DEF IInv, RunInv, ThreadsKept, GatesKept, Overdue, Escalates
  <2>2. thread'[r].phase \in {"idle", "evaluate_milestones", "escalate"} <=>
          thread[r].phase \in {"idle", "evaluate_milestones", "escalate"}
    BY DEF ThreadsKept
  <2> QED
    BY <1>1, <2>1, <2>2 DEF RunOK, ThreadsKept, GatesKept
<1>4. SnapshotInv'
  <2>1. \A r \in Runs : /\ orderly /\ Escalating(r)' => Escalating(r)
                        /\ Emailing(r)' => Emailing(r)
    BY DEF Escalating, Emailing, Escalates, GatesKept
  <2>2. "approve_outbound_message" \in Starting
    BY PhaseSets
  <2> QED
    BY <1>1, <2>1, <2>2, QuietSnapshot DEF IInv, ThreadsKept
<1> QED
  BY <1>2, <1>3, <1>4 DEF RunInv

\* A request that a step is not about.
LEMMA QuietRequest ==
    ASSUME NEW e \in Decisions, RequestOK(e), decide'[e] = decide[e],
           mailed \subseteq mailed', ThreadsKept, GatesKept
    PROVE  RequestOK(e)'
<1>1. CASE At(e, "idle")
  BY <1>1 DEF RequestOK, At, Marked, Notifying
<1>2. CASE ~At(e, "idle")
  <2>1. /\ decide[e].run \in Runs
        /\ Overdue(decide[e].run)' = Overdue(decide[e].run)
        /\ Escalates(decide[e].run)' <=> Escalates(decide[e].run)
    BY <1>2 DEF RequestOK, ThreadsKept, GatesKept, Overdue, Escalates
  <2> QED
    BY <1>2, <2>1 DEF RequestOK, At, Marked, GatesKept
<1> QED
  BY <1>1, <1>2

Afterwards == {"create_task", "set_level", "done", "raised", "dead"}

\* A request goes on to phase q, and perhaps ends the thread: all but what went out.
LEMMA Advance ==
    ASSUME IInv, NEW d \in Decisions, NEW q \in DecidePhases, Continue(d, q),
           decide[d].phase \notin {"idle", "lost"}, q \notin {"idle", "checked"},
           At(d, "checked") => q = "lost",
           Marked(d) => q # "lost",
           q \in {"create_task", "set_level"} => InLoop(d),
           q \in InFlight => decide[d].phase \in InFlight,
           q \in {"marked"} \cup Notifying => decide[d].phase \in {"marked"} \cup Notifying,
           decide[d].phase \in Afterwards => q \in Afterwards,
           \/ thread' = thread
           \/ Marked(d) /\ thread' = [thread EXCEPT ![decide[d].run].phase = "ended"],
           UNCHANGED <<orderly, active, today, level, pass, inbox>>,
           tasks' \subseteq Tasks, mail' \in [Runs -> MailStates],
           mailed \subseteq mailed', mailed' \subseteq Runs,
           RequestOK(d)'
    PROVE  /\ Typed' /\ PassInv' /\ RunInv' /\ RequestInv' /\ ApartInv' /\ SnapshotInv'
           /\ tasks' = tasks => LevelInv' /\ CountInv'
           /\ tasks' = tasks /\ mailed' = mailed
                /\ (\A r \in Runs : mail'[r] \in {"sent", "rejected"} => mail'[r] = mail[r])
              => EffectInv'
<1> DEFINE r == decide[d].run
<1>1. r \in Runs /\ RequestOK(d) /\ inbox[r].status # "absent"
  BY RequestRun DEF IInv, At
<1>2. /\ decide' \in [Decisions -> Requests]
      /\ decide'[d].phase = q
      /\ \A e \in Decisions : /\ decide'[e].run = decide[e].run
                              /\ decide'[e].verdict = decide[e].verdict
                              /\ decide'[e].todo = decide[e].todo
                              /\ decide'[e].seen = decide[e].seen
                              /\ e # d => decide'[e] = decide[e]
  BY ContinueFact DEF IInv
<1>3. thread' \in [Runs -> Threads] /\ ThreadsKept
  <2>1. CASE thread' = thread
    BY <2>1 DEF ThreadsKept, IInv, Typed
  <2>2. CASE Marked(d) /\ thread' = [thread EXCEPT ![r].phase = "ended"]
    <3>1. thread[r].phase \in {"paused", "ended"} /\ inbox[r].status # "pending"
      BY <1>1, <2>2 DEF RequestOK, IInv, RunInv, RunOK
    <3> "ended" \in RunPhases
      BY DEF RunPhases
    <3>2. /\ thread' \in [Runs -> Threads]
          /\ thread'[r].phase = "ended"
          /\ thread'[r].suppress = thread[r].suppress /\ thread'[r].day = thread[r].day
          /\ \A s \in Runs : s # r => thread'[s] = thread[s]
      <4>1. Goto(r, "ended") /\ Typed
        BY <2>2 DEF Goto, IInv
      <4> HIDE DEF r
      <4> QED
        BY <1>1, <4>1, GotoFact
    <3> QED
      BY <3>1, <3>2 DEF ThreadsKept
  <2> QED
    BY <2>1, <2>2
<1>4. GatesKept
  BY DEF GatesKept
<1>5. Typed'
  BY <1>2, <1>3 DEF IInv, Typed
<1>6. PassInv' /\ RunInv' /\ SnapshotInv'
  <2>1. \A e \in Decisions : decide'[e].phase \in {"marked"} \cup Notifying =>
          decide[e].phase \in {"marked"} \cup Notifying
    BY <1>2
  <2> QED
    BY <1>2, <1>3, <1>4, <2>1, RequestKeepsRuns
<1>7. RequestInv'
  BY <1>2, <1>3, <1>4, QuietRequest DEF IInv, RequestInv
<1>8. \A e \in Decisions : /\ Marked(e)' => Marked(e)
                           /\ At(e, "checked")' => At(e, "checked")
                           /\ decide'[e].phase \in InFlight => decide[e].phase \in InFlight
                           /\ Marked(e) => Marked(e)'
                           /\ decide[e].phase \in Afterwards => decide'[e].phase \in Afterwards
                           /\ InLoop(e)' => InLoop(e)
  BY <1>2 DEF Marked, At, InLoop
<1>9. ApartInv'
  BY <1>2, <1>8 DEF IInv, ApartInv
<1>10. ASSUME tasks' = tasks PROVE LevelInv' /\ CountInv'
  BY <1>2, <1>8, <1>10, QuietLevels DEF IInv
<1>11. ASSUME tasks' = tasks, mailed' = mailed,
              \A s \in Runs : mail'[s] \in {"sent", "rejected"} => mail'[s] = mail[s]
       PROVE  EffectInv'
  BY <1>2, <1>3, <1>8, <1>11, QuietEffects DEF IInv, Afterwards, ThreadsKept
<1> QED
  BY <1>5, <1>6, <1>7, <1>9, <1>10, <1>11

LEMMA CheckApprovalIInv ==
    ASSUME IInv, NEW d \in Decisions, NEW r \in Runs, NEW verdict \in Verdicts,
           CheckApproval(d, r, verdict), UNCHANGED <<orderly, active>>
    PROVE  IInv'
<1>1. /\ At(d, "idle") /\ inbox[r].status = "pending" /\ (orderly => ~Deciding(r))
      /\ decide' = [decide EXCEPT ![d].run = r, ![d].verdict = verdict,
                                  ![d].phase = "checked"]
      /\ UNCHANGED <<today, level, pass, thread, inbox, tasks, mail, mailed>>
  BY DEF CheckApproval, At, outside
<1>2. RequestOK(d) /\ decide[d].todo = {}
  BY <1>1 DEF IInv, RequestInv, RequestOK, At
<1>3. /\ decide' \in [Decisions -> Requests]
      /\ decide'[d].run = r /\ decide'[d].phase = "checked"
      /\ decide'[d].todo = {} /\ decide'[d].seen = decide[d].seen
      /\ \A e \in Decisions : e # d => decide'[e] = decide[e]
  BY ZenonT(60), <1>1, <1>2 DEF IInv, Typed, Requests, DecidePhases, InFlight
<1>4. "checked" \notin {"idle", "lost", "marked"} \cup Notifying \cup Afterwards
  BY DEF Notifying, Afterwards
<1>5. ThreadsKept /\ GatesKept
  BY <1>1 DEF ThreadsKept, GatesKept
<1>6. Typed'
  BY <1>1, <1>3 DEF IInv, Typed
<1>7. PassInv' /\ RunInv' /\ SnapshotInv'
  BY <1>1, <1>3, <1>4, <1>5, RequestKeepsRuns
<1>8. RequestInv'
  <2>1. RequestOK(d)'
    BY <1>1, <1>3, <1>4 DEF RequestOK, At, Marked, Notifying
  <2> QED
    BY <1>1, <1>3, <1>5, <2>1, QuietRequest DEF IInv, RequestInv
<1>9. EffectInv'
  <2>1. ~Marked(d) /\ decide[d].phase \notin Afterwards
    BY <1>1 DEF Marked, At, Afterwards
  <2> QED
    BY <1>1, <1>3, <2>1, QuietEffects DEF IInv, Marked, Afterwards
<1>10. LevelInv' /\ CountInv'
  BY <1>1, <1>2, <1>3, QuietLevels DEF IInv, InLoop
<1>11. ApartInv'
  <2> SUFFICES ASSUME orderly PROVE ApartInv'
    BY DEF ApartInv
  <2>1. \A e \in Decisions : decide[e].phase \in InFlight => decide[e].run # r
    BY <1>1 DEF Deciding
  <2>2. \A e \in Decisions : At(e, "checked") => decide[e].phase \in InFlight
    BY DEF At, InFlight
  <2>3. \A e \in Decisions : Marked(e)' <=> Marked(e) /\ e # d
    BY <1>1, <1>3 DEF Marked, At
  <2> QED
    BY <1>1, <1>3, <2>1, <2>2, <2>3 DEF IInv, ApartInv, At
<1> QED
  BY <1>6, <1>7, <1>8, <1>9, <1>10, <1>11 DEF IInv

LEMMA MarkDecidedIInv ==
    ASSUME IInv, NEW d \in Decisions, MarkDecided(d), UNCHANGED <<orderly, active>>
    PROVE  IInv'
<1> DEFINE r == decide[d].run
<1>1. /\ At(d, "checked")
      /\ inbox' = [inbox EXCEPT ![r].status = decide[d].verdict]
      /\ Continue(d, "marked")
      /\ UNCHANGED <<today, level, pass, thread, tasks, mail, mailed>>
  BY DEF MarkDecided, outside
<1>2. /\ r \in Runs /\ RequestOK(d) /\ inbox[r] \in Gates /\ inbox[r].status # "absent"
      /\ decide[d].verdict \in Verdicts
  BY <1>1, RequestRun DEF IInv, At, Typed, Requests
<1>3. /\ decide' \in [Decisions -> Requests]
      /\ decide'[d].phase = "marked"
      /\ \A e \in Decisions : /\ decide'[e].run = decide[e].run
                              /\ decide'[e].verdict = decide[e].verdict
                              /\ decide'[e].todo = decide[e].todo
                              /\ decide'[e].seen = decide[e].seen
                              /\ e # d => decide'[e] = decide[e]
  <2>1. "marked" \in DecidePhases
    BY PhaseSets DEF DecidePhases
  <2> QED
    BY <1>1, <2>1, ContinueFact DEF IInv
<1>4. /\ inbox' \in [Runs -> Gates]
      /\ inbox'[r].kind = inbox[r].kind /\ inbox'[r].status = decide[d].verdict
      /\ \A s \in Runs : s # r => inbox'[s] = inbox[s]
  BY <1>1, <1>2 DEF IInv, Typed, Gates
<1>5. decide[d].verdict \notin {"absent", "pending"}
  BY <1>2 DEF Verdicts
<1>6. ThreadsKept /\ GatesKept
  BY <1>1, <1>2, <1>4, <1>5 DEF ThreadsKept, GatesKept
<1>7. decide[d].todo = {}
  BY <1>1, <1>2 DEF RequestOK, At
<1>8. Typed'
  BY <1>1, <1>3, <1>4 DEF IInv, Typed
<1>9. PassInv' /\ RunInv' /\ SnapshotInv'
  <2>1. orderly => inbox[r].status = "pending"
    BY <1>1 DEF IInv, ApartInv
  <2> QED
    BY <1>1, <1>3, <1>6, <2>1, RequestKeepsRuns
<1>10. RequestInv'
  <2>1. RequestOK(d)'
    BY <1>2, <1>3, <1>4, <1>5, <1>7, PhaseSets DEF RequestOK, At, Marked
  <2> QED
    BY <1>1, <1>3, <1>6, <2>1, QuietRequest DEF IInv, RequestInv
<1>11. EffectInv'
  BY <1>1, <1>3, <1>4, QuietEffects DEF IInv, Marked, At
<1>12. LevelInv' /\ CountInv'
  BY <1>1, <1>3, <1>7, QuietLevels DEF IInv, InLoop
<1>13. ApartInv'
  <2> SUFFICES ASSUME orderly PROVE ApartInv'
    BY DEF ApartInv
  <2>1. /\ inbox[r].status = "pending"
        /\ \A e \in Decisions : decide[e].phase \in InFlight /\ decide[e].run = r => e = d
    BY <1>1 DEF IInv, ApartInv
  <2>2. \A e \in Decisions : Marked(e) => decide[e].run # r
    BY <2>1 DEF IInv, RequestInv, RequestOK
  <2>3. \A e \in Decisions : At(e, "checked") => decide[e].phase \in InFlight
    BY DEF At, InFlight
  <2>4. \A e \in Decisions : /\ Marked(e)' <=> Marked(e) \/ e = d
                             /\ At(e, "checked")' <=> At(e, "checked") /\ e # d
    BY <1>1, <1>3 DEF Marked, At
  <2>5. \A e \in Decisions : decide'[e].phase \in InFlight => decide[e].phase \in InFlight
    BY <1>1, <1>3, <2>3
  <2>6. \A e \in Decisions : Marked(e) \/ At(e, "checked") => decide[e].run \in Runs
    BY DEF IInv, RequestInv, RequestOK, Marked, At
  <2> QED
    BY <1>3, <1>4, <2>1, <2>2, <2>3, <2>4, <2>5, <2>6 DEF IInv, ApartInv
<1> QED
  BY <1>8, <1>9, <1>10, <1>11, <1>12, <1>13 DEF IInv

LEMMA ResumeIInv ==
    ASSUME IInv, NEW d \in Decisions, Resume(d), UNCHANGED <<orderly, active>>
    PROVE  IInv'
<1> DEFINE r == decide[d].run
           node == NodeAfter(inbox[r].kind, decide[d].verdict)
<1>1. /\ At(d, "marked")
      /\ \/ Continue(d, "done") /\ thread' = thread
         \/ node # "done" /\ Continue(d, node) /\ thread' = thread
         \/ Continue(d, "done") /\ thread' = [thread EXCEPT ![r].phase = "ended"]
      /\ UNCHANGED <<today, level, pass, inbox, tasks, mail, mailed>>
  BY DEF Resume, Finish, outside
<1>2. PICK q \in {"done", "notify", "send", "dismiss"} :
        /\ Continue(d, q)
        /\ q = "done" \/ q = node
        /\ thread' = thread \/ thread' = [thread EXCEPT ![r].phase = "ended"]
  <2>1. node \in {"done", "notify", "send", "dismiss"}
    BY DEF NodeAfter
  <2> QED
    BY <1>1, <2>1
<1>3. /\ r \in Runs /\ RequestOK(d) /\ inbox[r] \in Gates
      /\ decide[d].verdict \in Verdicts
  BY <1>1, RequestRun DEF IInv, At, Typed, Requests
<1>4. q \in DecidePhases /\ (q \in Notifying => q = "notify") /\ q # "lost"
  BY PhaseSets DEF DecidePhases
<1>5. /\ q = "notify" => Escalates(r) /\ decide[d].verdict = "approved"
      /\ q = "send" => ~Escalates(r) /\ decide[d].verdict = "approved"
      /\ q = "dismiss" => decide[d].verdict = "rejected"
  BY <1>2, <1>3 DEF NodeAfter, Escalates, Gates
<1>6. decide[d].todo = {} /\ Marked(d) /\ inbox[r].status \notin {"pending", "absent"}
  BY <1>1, <1>3 DEF RequestOK, At, Marked
<1>7. RequestOK(d)'
  <2>1. /\ decide'[d].phase = q /\ decide'[d].run = r /\ decide'[d].todo = {}
        /\ decide'[d].verdict = decide[d].verdict
    BY <1>2, <1>4, <1>6, ContinueFact DEF IInv
  <2> QED
    BY <1>1, <1>3, <1>4, <1>5, <1>6, <2>1 DEF RequestOK, At, Marked, Escalates
<1>8. /\ Typed' /\ PassInv' /\ RunInv' /\ RequestInv' /\ ApartInv' /\ SnapshotInv'
      /\ LevelInv' /\ CountInv' /\ EffectInv'
  <2>1. "marked" \in InFlight /\ "marked" \notin Afterwards
    BY PhaseSets DEF Afterwards
  <2>2. tasks \subseteq Tasks /\ mail \in [Runs -> MailStates] /\ mailed \subseteq Runs
    BY DEF IInv, Typed
  <2> HIDE DEF node
  <2> QED
    BY <1>1, <1>2, <1>4, <1>6, <1>7, <2>1, <2>2, Advance DEF At
<1> QED
  BY <1>8 DEF IInv

\* The steps of the email nodes, by the phase they lead to.
LEMMA MailStep ==
    ASSUME IInv, NEW d \in Decisions, NEW q \in {"sending", "save_rejected", "save_sent",
                                                 "save_failed", "raised", "done"},
           Continue(d, q), decide[d].phase \in Mailing,
           q = "save_rejected" => At(d, "dismiss"),
           q \in {"sending", "save_failed", "save_sent"} =>
             decide[d].phase \in {"send", "sending"},
           q = "save_sent" => decide[d].run \in mailed',
           thread' = thread \/ thread' = [thread EXCEPT ![decide[d].run].phase = "ended"],
           UNCHANGED <<orderly, active, today, level, pass, inbox, tasks>>,
           mail' \in [Runs -> MailStates],
           mailed \subseteq mailed', mailed' \subseteq Runs
    PROVE  /\ Typed' /\ PassInv' /\ RunInv' /\ RequestInv' /\ ApartInv' /\ SnapshotInv'
           /\ LevelInv' /\ CountInv'
           /\ mailed' = mailed
                /\ (\A r \in Runs : mail'[r] \in {"sent", "rejected"} => mail'[r] = mail[r])
              => EffectInv'
<1> DEFINE r == decide[d].run
<1>1. /\ decide[d].phase \in InFlight \ ({"checked", "marked"} \cup Notifying \cup Afterwards)
      /\ decide[d].phase \notin {"idle", "lost"}
  BY DEF Mailing, InFlight, Notifying, Afterwards
<1>2. r \in Runs /\ RequestOK(d) /\ inbox[r].status # "absent"
  BY <1>1, RequestRun DEF IInv, At
<1>3. q \in DecidePhases /\ q \notin Notifying
  BY PhaseSets DEF DecidePhases
<1>4. Marked(d) /\ decide[d].todo = {} /\ inbox[r].status # "pending"
  BY <1>1, <1>2 DEF RequestOK, Marked, Afterwards
<1>5. RequestOK(d)'
  <2>1. /\ decide'[d].phase = q /\ decide'[d].run = r /\ decide'[d].todo = {}
        /\ decide'[d].verdict = decide[d].verdict
    BY <1>3, <1>4, ContinueFact DEF IInv
  <2> QED
    BY <1>2, <1>3, <1>4, <2>1 DEF RequestOK, At, Marked, Escalates
<1>6. tasks' \subseteq Tasks
  BY DEF IInv, Typed
<1> QED
  BY <1>1, <1>3, <1>4, <1>5, <1>6, Advance DEF At

LEMMA ReadMailIInv ==
    ASSUME IInv, NEW d \in Decisions, ReadMail(d), UNCHANGED <<orderly, active>>
    PROVE  IInv'
<1>1. /\ UNCHANGED <<today, level, pass, inbox, tasks, mail, mailed>>
      /\ \/ At(d, "send") /\ Continue(d, "sending") /\ thread' = thread
         \/ At(d, "dismiss") /\ Continue(d, "save_rejected") /\ thread' = thread
         \/ /\ decide[d].phase \in {"send", "dismiss"} /\ Continue(d, "done")
            /\ thread' = [thread EXCEPT ![decide[d].run].phase = "ended"]
  BY DEF ReadMail, Finish, At, outside
<1>2. decide[d].phase \in Mailing
  BY <1>1 DEF At, Mailing
<1>3. mail \in [Runs -> MailStates] /\ mailed \subseteq Runs
  BY DEF IInv, Typed
<1>4. CASE Continue(d, "sending") /\ At(d, "send") /\ thread' = thread
  BY <1>1, <1>2, <1>3, <1>4, MailStep DEF IInv, At
<1>5. CASE Continue(d, "save_rejected") /\ At(d, "dismiss") /\ thread' = thread
  BY <1>1, <1>2, <1>3, <1>5, MailStep DEF IInv
<1>6. CASE Continue(d, "done") /\ thread' = [thread EXCEPT ![decide[d].run].phase = "ended"]
  BY <1>1, <1>2, <1>3, <1>6, MailStep DEF IInv
<1> QED
  BY <1>1, <1>4, <1>5, <1>6

\* An approved request hands the run's email to the provider, whatever comes back.
LEMMA SendingIInv ==
    ASSUME IInv, NEW d \in Decisions, At(d, "sending"),
           NEW q \in {"save_sent", "save_failed"}, Continue(d, q),
           mailed' \in {mailed, mailed \cup {decide[d].run}},
           q = "save_sent" => decide[d].run \in mailed',
           UNCHANGED <<orderly, active, today, level, pass, thread, inbox, tasks, mail>>
    PROVE  IInv'
<1> DEFINE r == decide[d].run
<1>1. r \in Runs /\ RequestOK(d) /\ inbox[r].status # "absent"
  BY RequestRun DEF IInv, At
<1>2. ~Escalates(r) /\ decide[d].verdict = "approved"
  BY <1>1 DEF RequestOK, At
<1>3. /\ mail' \in [Runs -> MailStates] /\ mailed' \subseteq Runs
      /\ mailed \subseteq mailed' /\ mailed' \subseteq mailed \cup {r}
  BY <1>1 DEF IInv, Typed
<1>4. /\ Typed' /\ PassInv' /\ RunInv' /\ RequestInv' /\ ApartInv' /\ SnapshotInv'
      /\ LevelInv' /\ CountInv'
  BY <1>3, MailStep DEF At, Mailing
<1>5. EffectInv'
  <2>1. /\ decide'[d].phase = q
        /\ \A e \in Decisions : /\ decide'[e].run = decide[e].run
                                /\ decide'[e].verdict = decide[e].verdict
                                /\ decide'[e].seen = decide[e].seen
                                /\ e # d => decide'[e] = decide[e]
    <3>1. q \in DecidePhases
      BY PhaseSets DEF DecidePhases
    <3> QED
      BY <3>1, ContinueFact DEF IInv
  <2>2. /\ \A e \in Decisions : Marked(e) => Marked(e)'
        /\ \A e \in Decisions : \A x : Made(e, x) => Made(e, x)'
    BY <2>1 DEF Marked, Made, At, Task
  <2>3. \A s : Approved(s) => Approved(s)'
    BY <2>1 DEF Approved
  <2>4. Approved(r)'
    BY <1>2, <2>1 DEF Approved
  <2>5. \A s : (Escalates(s)' <=> Escalates(s)) /\ Overdue(s)' = Overdue(s)
    BY DEF Escalates, Overdue
  <2>6. ASSUME NEW x \in tasks', x.urgent
        PROVE  /\ \E e \in Decisions : Made(e, x)'
               /\ Escalates(x.run)' /\ x.id \in Overdue(x.run)'
    BY <2>2, <2>5, <2>6 DEF IInv, EffectInv
  <2>7. ASSUME NEW s \in mailed' PROVE Approved(s)' /\ ~Escalates(s)'
    <3>1. CASE s \in mailed
      BY <2>3, <2>5, <3>1 DEF IInv, EffectInv
    <3>2. CASE s = r
      BY <1>2, <2>1, <2>4, <2>5, <3>2
    <3> QED
      BY <1>3, <2>7, <3>1, <3>2
  <2>8. ASSUME NEW s \in Runs
        PROVE  /\ mail'[s] = "sent" => s \in mailed'
               /\ mail'[s] = "rejected" =>
                    \E e \in Decisions :
                      Marked(e)' /\ decide'[e].run = s /\ decide'[e].verdict = "rejected"
    BY <1>3, <2>1, <2>2 DEF IInv, EffectInv
  <2> QED
    BY <2>6, <2>7, <2>8 DEF EffectInv
<1> QED
  BY <1>4, <1>5 DEF IInv

LEMMA SaveMailIInv ==
    ASSUME IInv, NEW d \in Decisions, SaveMail(d), UNCHANGED <<orderly, active>>
    PROVE  IInv'
<1> DEFINE r == decide[d].run
<1>1. PICK q \in {"done", "raised"}, status \in {"sent", "rejected", "failed"} :
        /\ Continue(d, q)
        /\ mail' = [mail EXCEPT ![r] = status]
        /\ thread' = thread \/ thread' = [thread EXCEPT ![r].phase = "ended"]
        /\ status = "sent" => At(d, "save_sent")
        /\ status = "rejected" => At(d, "save_rejected")
        /\ decide[d].phase \in {"save_sent", "save_rejected", "save_failed"}
  BY DEF SaveMail, Finish, At
<1>2. UNCHANGED <<today, level, pass, inbox, tasks, mailed>>
  BY DEF SaveMail
<1>3. r \in Runs /\ RequestOK(d)
  BY <1>1, RequestRun DEF IInv, At
<1>4. /\ mail' \in [Runs -> MailStates]
      /\ \A s \in Runs : mail'[s] = IF s = r THEN status ELSE mail[s]
  BY <1>1, <1>3 DEF IInv, Typed, MailStates
<1>5. /\ Typed' /\ PassInv' /\ RunInv' /\ RequestInv' /\ ApartInv' /\ SnapshotInv'
      /\ LevelInv' /\ CountInv'
  <2>1. decide[d].phase \in Mailing /\ mailed \subseteq Runs
    BY <1>1 DEF Mailing, IInv, Typed
  <2> QED
    BY <1>1, <1>2, <1>4, <2>1, MailStep
<1>6. EffectInv'
  <2>1. /\ decide'[d].phase = q
        /\ \A e \in Decisions : /\ decide'[e].run = decide[e].run
                                /\ decide'[e].verdict = decide[e].verdict
                                /\ decide'[e].seen = decide[e].seen
                                /\ e # d => decide'[e] = decide[e]
    <3>1. q \in DecidePhases
      BY <1>1, PhaseSets DEF DecidePhases
    <3> QED
      BY <1>1, <3>1, ContinueFact DEF IInv
  <2>2. /\ \A e \in Decisions : Marked(e) => Marked(e)'
        /\ \A e \in Decisions : \A x : Made(e, x) => Made(e, x)'
    BY <1>1, <2>1 DEF Marked, Made, At, Task
  <2>3. \A s : Approved(s) => Approved(s)'
    BY <1>1, <2>1 DEF Approved
  <2>4. \A s \in Runs : Overdue(s)' = Overdue(s)
    <3>1. CASE thread' = thread
      BY <3>1 DEF Overdue
    <3>2. CASE thread' = [thread EXCEPT ![r].phase = "ended"]
      BY <1>3, <3>2 DEF Overdue, IInv, Typed, Threads
    <3> QED
      BY <1>1, <3>1, <3>2
  <2>5. \A s : Escalates(s)' <=> Escalates(s)
    BY <1>2 DEF Escalates
  <2>6. ASSUME NEW x \in tasks', x.urgent
        PROVE  /\ \E e \in Decisions : Made(e, x)'
               /\ Escalates(x.run)' /\ x.id \in Overdue(x.run)'
    <3>1. x \in tasks /\ x.run \in Runs
      BY <1>2, <2>6 DEF IInv, Typed, Tasks
    <3> QED
      BY <2>2, <2>4, <2>5, <2>6, <3>1 DEF IInv, EffectInv
  <2>7. ASSUME NEW s \in mailed' PROVE Approved(s)' /\ ~Escalates(s)'
    BY <1>2, <2>3, <2>5 DEF IInv, EffectInv
  <2>8. ASSUME NEW s \in Runs, mail'[s] = "sent" PROVE s \in mailed'
    BY <1>1, <1>2, <1>3, <1>4, <2>8 DEF IInv, EffectInv, RequestOK
  <2>9. ASSUME NEW s \in Runs, mail'[s] = "rejected"
        PROVE  \E e \in Decisions :
                 Marked(e)' /\ decide'[e].run = s /\ decide'[e].verdict = "rejected"
    <3>1. CASE s = r
      <4>1. At(d, "save_rejected")
        BY <1>1, <1>4, <2>9, <3>1
      <4>2. Marked(d) /\ decide[d].verdict = "rejected"
        BY <1>3, <4>1 DEF RequestOK, At, Marked
      <4> QED
        BY <2>1, <2>2, <3>1, <4>2
    <3>2. CASE s # r
      BY <1>4, <2>1, <2>2, <2>9, <3>2 DEF IInv, EffectInv
    <3> QED
      BY <3>1, <3>2
  <2> QED
    BY <2>6, <2>7, <2>8, <2>9 DEF EffectInv
<1> QED
  BY <1>5, <1>6 DEF IInv

LEMMA DecideRaisesIInv ==
    ASSUME IInv, NEW d \in Decisions, DecideRaises(d), UNCHANGED <<orderly, active>>
    PROVE  IInv'
<1> DEFINE r == decide[d].run
           q == IF At(d, "checked") THEN "lost" ELSE "raised"
<1>1. /\ decide[d].phase \in InFlight /\ Continue(d, q)
      /\ UNCHANGED <<today, level, pass, thread, inbox, tasks, mail, mailed>>
  BY DEF DecideRaises, outside
<1>2. /\ q \in {"lost", "raised"} /\ (q = "lost" <=> At(d, "checked"))
      /\ q \in DecidePhases
  BY DEF DecidePhases
<1> HIDE DEF q
<1>3. decide[d].phase \notin {"idle", "lost"} /\ q \notin InFlight \cup Notifying
  BY <1>1, <1>2, PhaseSets
<1>4. r \in Runs /\ RequestOK(d) /\ inbox[r].status # "absent"
  BY <1>3, RequestRun DEF IInv, At
<1>5. RequestOK(d)'
  <2>1. /\ decide'[d].phase = q /\ decide'[d].run = r /\ decide'[d].todo = decide[d].todo
        /\ decide'[d].verdict = decide[d].verdict
    BY <1>1, <1>2, ContinueFact DEF IInv
  <2>2. /\ Overdue(r)' = Overdue(r) /\ inbox' = inbox
        /\ q = "raised" => inbox[r].status # "pending"
        /\ q = "lost" => decide[d].todo = {}
    <3>1. q = "raised" => Marked(d)
      BY <1>2, <1>3 DEF Marked, At
    <3>2. q = "lost" => decide[d].todo = {}
      BY <1>2, <1>4 DEF RequestOK, At
    <3> QED
      BY <1>1, <1>4, <2>1, <3>1, <3>2 DEF Overdue, RequestOK
  <2> QED
    BY <1>2, <1>3, <1>4, <2>1, <2>2, PhaseSets DEF RequestOK, At, Marked, Escalates
<1>6. At(d, "checked") => decide[d].phase \notin Afterwards /\ ~Marked(d)
  BY DEF At, Afterwards, Marked
<1>7. tasks \subseteq Tasks /\ mail \in [Runs -> MailStates] /\ mailed \subseteq Runs
  BY DEF IInv, Typed
<1>8. /\ Typed' /\ PassInv' /\ RunInv' /\ RequestInv' /\ ApartInv' /\ SnapshotInv'
      /\ LevelInv' /\ CountInv' /\ EffectInv'
  BY <1>1, <1>2, <1>3, <1>5, <1>6, <1>7, Advance DEF Afterwards
<1> QED
  BY <1>8 DEF IInv

-----------------------------------------------------------------------------
\* notify, which moves tasks and levels.

LEMMA NotifyReadIInv ==
    ASSUME IInv, NEW d \in Decisions, NotifyRead(d), UNCHANGED <<orderly, active>>
    PROVE  IInv'
<1> DEFINE r == decide[d].run
<1>1. /\ At(d, "notify")
      /\ decide' = [decide EXCEPT ![d].phase = "create_task", ![d].todo = Overdue(r),
                                  ![d].seen = level]
      /\ UNCHANGED <<today, level, pass, thread, inbox, tasks, mail, mailed>>
  BY DEF NotifyRead, _milestones_by_class, Overdue, outside
<1>2. /\ r \in Runs /\ RequestOK(d) /\ inbox[r].status # "absent" /\ thread[r] \in Threads
      /\ decide[d].todo = {}
  BY <1>1, RequestRun DEF IInv, At, RequestOK
<1>3. Overdue(r) \in SUBSET Milestones
  BY <1>2, RunPair, Ranks, ByClassMilestones DEF Overdue, Threads
<1>4. /\ decide' \in [Decisions -> Requests]
      /\ decide'[d].phase = "create_task" /\ decide'[d].todo = Overdue(r)
      /\ decide'[d].seen = level
      /\ \A e \in Decisions : /\ decide'[e].run = decide[e].run
                              /\ decide'[e].verdict = decide[e].verdict
                              /\ e # d => decide'[e] = decide[e]
  <2>1. "create_task" \in DecidePhases
    BY PhaseSets DEF DecidePhases
  <2> HIDE DEF Overdue, r
  <2> QED
    BY ZenonT(60), <1>1, <1>3, <2>1 DEF IInv, Typed, Requests
<1>5. ThreadsKept /\ GatesKept
  BY <1>1 DEF ThreadsKept, GatesKept
<1>6. Typed'
  BY <1>1, <1>4 DEF IInv, Typed
<1>7. PassInv' /\ RunInv' /\ SnapshotInv'
  <2>1. \A e \in Decisions : decide'[e].phase \in {"marked"} \cup Notifying =>
          decide[e].phase \in {"marked"} \cup Notifying
    BY <1>1, <1>4, PhaseSets DEF At
  <2> QED
    BY <1>1, <1>4, <1>5, <2>1, RequestKeepsRuns
<1>8. RequestInv'
  <2>1. RequestOK(d)'
    <3>1. Overdue(r)' = Overdue(r) /\ (Escalates(r)' <=> Escalates(r))
      BY <1>1, <1>4 DEF Overdue, Escalates
    <3>2. Escalates(r) /\ decide[d].verdict = "approved" /\ inbox[r].status # "pending"
      BY <1>1, <1>2, PhaseSets DEF RequestOK, At, Marked
    <3> QED
      BY <1>1, <1>2, <1>4, <3>1, <3>2 DEF RequestOK, At
  <2> QED
    BY <1>1, <1>4, <1>5, <2>1, QuietRequest DEF IInv, RequestInv
<1>9. \A e \in Decisions : /\ Marked(e)' <=> Marked(e)
                           /\ At(e, "checked")' <=> At(e, "checked")
                           /\ decide'[e].phase \in InFlight <=> decide[e].phase \in InFlight
  BY <1>1, <1>4, PhaseSets DEF Marked, At
<1>10. EffectInv'
  BY <1>1, <1>4, <1>9, QuietEffects DEF IInv, At
<1>11. ApartInv'
  BY <1>1, <1>4, <1>9 DEF IInv, ApartInv
<1>12. \A id : UrgentTasks(id)' = UrgentTasks(id)
  BY <1>1 DEF UrgentTasks
<1>13. LevelInv'
  <2>1. \A id, n : Told(id, n)' <=> Told(id, n)
    BY <1>12 DEF Told
  <2>2. \A e \in Decisions : e # d /\ InLoop(e)' => InLoop(e)
    BY <1>4 DEF InLoop
  <2> QED
    BY <1>1, <1>3, <1>4, <2>1, <2>2 DEF IInv, LevelInv
<1>14. CountInv'
  <2> SUFFICES ASSUME orderly PROVE CountInv'
    BY DEF CountInv
  <2>1. \A e \in Decisions : InLoop(e)' =>
          \A id \in decide'[e].todo : level'[id] = decide'[e].seen[id]
    BY <1>1, <1>4 DEF IInv, CountInv, InLoop
  \* No task of the run was made before: only d has a verdict for it, and d is at notify.
  <2>2. \A x \in tasks : x.urgent => x.run # r
    <3>1. \A e \in Decisions : Marked(e) /\ decide[e].run = r => e = d
      BY <1>1, <1>9 DEF IInv, ApartInv, Marked, At
    <3>2. \A e \in Decisions : \A x : Made(e, x) /\ x.run = r => e = d
      BY <3>1 DEF Made, Marked, Task
    <3>3. \A x : ~Made(d, x)
      BY <1>1 DEF Made, At
    <3> QED
      BY <3>2, <3>3 DEF IInv, EffectInv
  <2>3. \A id : \A x \in UrgentTasks(id) : Unwritten(x)' <=> Unwritten(x)
    BY <1>2, <1>4, <2>2 DEF UrgentTasks, Unwritten
  <2>4. EscalationCounted'
    BY <1>1, <1>12, <2>3 DEF IInv, CountInv, EscalationCounted
  <2> QED
    BY <2>1, <2>4 DEF CountInv
<1> QED
  BY <1>6, <1>7, <1>8, <1>10, <1>11, <1>13, <1>14 DEF IInv

LEMMA NotifyTaskIInv ==
    ASSUME IInv, NEW d \in Decisions, NotifyTask(d), UNCHANGED <<orderly, active>>
    PROVE  IInv'
<1> DEFINE r == decide[d].run
<1>1. PICK id \in decide[d].todo :
        /\ At(d, "create_task")
        /\ tasks' = tasks \cup {Task(d, id)}
        /\ Continue(d, "set_level")
        /\ UNCHANGED <<today, level, pass, thread, inbox, mail, mailed>>
  BY DEF NotifyTask
<1>2. /\ r \in Runs /\ RequestOK(d) /\ inbox[r].status # "absent"
      /\ id \in Milestones /\ decide[d].seen \in [Milestones -> Nat]
  BY <1>1, RequestRun DEF IInv, At, Typed, Requests
<1>3. /\ Escalates(r) /\ decide[d].verdict = "approved" /\ id \in Overdue(r)
      /\ inbox[r].status # "pending" /\ decide[d].todo \subseteq Overdue(r)
  BY <1>1, <1>2, PhaseSets DEF RequestOK, At, Marked
<1>4. /\ decide'[d].phase = "set_level"
      /\ \A e \in Decisions : /\ decide'[e].run = decide[e].run
                              /\ decide'[e].verdict = decide[e].verdict
                              /\ decide'[e].todo = decide[e].todo
                              /\ decide'[e].seen = decide[e].seen
                              /\ e # d => decide'[e] = decide[e]
      /\ "set_level" \in DecidePhases
  <2>1. "set_level" \in DecidePhases
    BY PhaseSets DEF DecidePhases
  <2> QED
    BY <1>1, <2>1, ContinueFact DEF IInv
<1>5. Task(d, id) \in Tasks /\ Task(d, id).urgent /\ Task(d, id).run = r /\ Task(d, id).id = id
      /\ Task(d, id).level = decide[d].seen[id]
  BY <1>2 DEF Task, Tasks
<1>6. tasks' \subseteq Tasks
  BY <1>1, <1>5 DEF IInv, Typed
<1>7. RequestOK(d)'
  <2>1. Overdue(r)' = Overdue(r) /\ (Escalates(r)' <=> Escalates(r))
    BY <1>1, <1>4 DEF Overdue, Escalates
  <2> QED
    BY <1>1, <1>2, <1>3, <1>4, <2>1 DEF RequestOK, At
<1>8. Typed' /\ PassInv' /\ RunInv' /\ RequestInv' /\ ApartInv' /\ SnapshotInv'
  <2>1. /\ "create_task" \in InFlight \cap Notifying \cap Afterwards
        /\ "set_level" \in Afterwards /\ InLoop(d)
    BY <1>1, PhaseSets DEF Afterwards, At, InLoop
  <2>2. mail \in [Runs -> MailStates] /\ mailed \subseteq Runs
    BY DEF IInv, Typed
  <2> QED
    BY <1>1, <1>4, <1>6, <1>7, <2>1, <2>2, Advance DEF At
<1>9. EffectInv'
  <2>1. \A e \in Decisions : Marked(e) => Marked(e)'
    BY <1>4 DEF Marked
  <2>2. \A e \in Decisions : \A x : Made(e, x) => Made(e, x)'
    BY <1>4 DEF Made, Task
  <2>3. Made(d, Task(d, id))'
    BY <1>3, <1>4, <1>5 DEF Made, Task
  <2>4. \A s : Approved(s) => Approved(s)'
    BY <1>4 DEF Approved
  <2>5. \A s : (Escalates(s)' <=> Escalates(s)) /\ Overdue(s)' = Overdue(s)
    BY <1>1 DEF Escalates, Overdue
  <2>6. ASSUME NEW x \in tasks', x.urgent
        PROVE  /\ \E e \in Decisions : Made(e, x)'
               /\ Escalates(x.run)' /\ x.id \in Overdue(x.run)'
    <3>1. CASE x \in tasks
      BY <2>2, <2>5, <2>6, <3>1 DEF IInv, EffectInv
    <3>2. CASE x = Task(d, id)
      BY <1>3, <1>4, <1>5, <2>3, <2>5, <3>2 DEF Task
    <3> QED
      BY <1>1, <2>6, <3>1, <3>2
  <2>7. ASSUME NEW s \in mailed' PROVE Approved(s)' /\ ~Escalates(s)'
    BY <1>1, <2>4, <2>5 DEF IInv, EffectInv
  <2>8. ASSUME NEW s \in Runs
        PROVE  /\ mail'[s] = "sent" => s \in mailed'
               /\ mail'[s] = "rejected" =>
                    \E e \in Decisions :
                      Marked(e)' /\ decide'[e].run = s /\ decide'[e].verdict = "rejected"
    BY <1>1, <1>4, <2>1 DEF IInv, EffectInv
  <2> QED
    BY <2>6, <2>7, <2>8 DEF EffectInv
<1>10. \A m : UrgentTasks(m)' = IF m = id THEN UrgentTasks(m) \cup {Task(d, id)} ELSE UrgentTasks(m)
  BY <1>1, <1>5 DEF UrgentTasks
<1>11. \A e \in Decisions : InLoop(e)' <=> InLoop(e)
  BY <1>1, <1>4 DEF InLoop, At
<1>12. LevelInv'
  <2>1. \A m, n : Told(m, n) => Told(m, n)'
    BY <1>10 DEF Told
  <2> QED
    BY <1>1, <1>4, <1>11, <2>1 DEF IInv, LevelInv
<1>13. CountInv'
  <2> SUFFICES ASSUME orderly PROVE CountInv'
    BY DEF CountInv
  <2>1. \A e \in Decisions : InLoop(e)' =>
          \A m \in decide'[e].todo : level'[m] = decide'[e].seen[m]
    BY <1>1, <1>4, <1>11 DEF IInv, CountInv
  <2>2. \A x : Unwritten(x)' <=> Unwritten(x)
    BY <1>4 DEF Unwritten
  <2>3. Unwritten(Task(d, id))
    BY <1>5 DEF Unwritten
  <2>4. \A m : {x \in UrgentTasks(m)' : ~Unwritten(x)'} = {x \in UrgentTasks(m) : ~Unwritten(x)}
    BY <1>10, <2>2, <2>3
  <2>5. EscalationCounted'
    BY <1>1, <2>4 DEF IInv, CountInv, EscalationCounted
  <2> QED
    BY <2>1, <2>5 DEF CountInv
<1> QED
  BY <1>8, <1>9, <1>12, <1>13 DEF IInv

\* Where no decision overlaps another, a milestone is in one loop of notify at a time.
LEMMA OneLoop ==
    ASSUME IInv, orderly, NEW d \in Decisions, NEW e \in Decisions, InLoop(d), InLoop(e),
           NEW id \in decide[d].todo, id \in decide[e].todo
    PROVE  d = e
<1>1. /\ decide[d].run \in Runs /\ RequestOK(d) /\ thread[decide[d].run] \in Threads
      /\ decide[e].run \in Runs /\ RequestOK(e) /\ thread[decide[e].run] \in Threads
  BY RequestRun DEF IInv, InLoop, At
<1>2. id \in Overdue(decide[d].run) /\ id \in Overdue(decide[e].run)
  BY <1>1 DEF RequestOK
<1>3. decide[d].run[2] = decide[e].run[2]
  BY <1>1, <1>2, RunPair, MilestoneAssumption DEF Overdue, Threads
<1>4. Escalating(decide[d].run) /\ Escalating(decide[e].run)
  BY <1>1, PhaseSets DEF Escalating, RequestOK, InLoop
<1>5. decide[d].run = decide[e].run
  BY <1>1, <1>3, <1>4 DEF IInv, SnapshotInv
<1> QED
  BY <1>5 DEF IInv, ApartInv, Marked, InLoop

LEMMA SetLevelIInv ==
    ASSUME IInv, NEW d \in Decisions, SetLevel(d), UNCHANGED <<orderly, active>>
    PROVE  IInv'
<1> DEFINE r == decide[d].run
           q(id) == IF decide[d].todo = {id} THEN "done" ELSE "create_task"
<1>1. PICK id \in decide[d].todo :
        /\ At(d, "set_level") /\ Task(d, id) \in tasks
        /\ level' = [level EXCEPT ![id] = decide[d].seen[id] + 1]
        /\ decide' = [decide EXCEPT ![d].todo = @ \ {id}, ![d].phase = q(id)]
        /\ thread' = IF decide[d].todo = {id}
                     THEN [thread EXCEPT ![r].phase = "ended"] ELSE thread
        /\ UNCHANGED <<today, pass, inbox, tasks, mail, mailed>>
  BY DEF SetLevel, NextMilestone, outside
<1>2. /\ q(id) \in {"done", "create_task"} /\ q(id) \in DecidePhases
      /\ q(id) = "done" <=> decide[d].todo = {id}
  BY PhaseSets DEF DecidePhases
<1> HIDE DEF q
<1>3. /\ r \in Runs /\ RequestOK(d) /\ inbox[r].status \notin {"absent", "pending"}
      /\ id \in Milestones /\ decide[d].seen \in [Milestones -> Nat]
      /\ InLoop(d) /\ decide[d].todo \subseteq Overdue(r)
      /\ Escalates(r) /\ decide[d].verdict = "approved"
  BY <1>1, RequestRun, PhaseSets DEF IInv, At, Typed, Requests, RequestOK, Marked, InLoop
<1>4. /\ decide' \in [Decisions -> Requests]
      /\ decide'[d].phase = q(id) /\ decide'[d].todo = decide[d].todo \ {id}
      /\ \A e \in Decisions : /\ decide'[e].run = decide[e].run
                              /\ decide'[e].verdict = decide[e].verdict
                              /\ decide'[e].seen = decide[e].seen
                              /\ e # d => decide'[e] = decide[e]
  BY ZenonT(60), <1>1, <1>2 DEF IInv, Typed, Requests
<1>5. thread' \in [Runs -> Threads] /\ ThreadsKept /\ GatesKept
  <2>1. CASE thread' = thread
    BY <1>1, <2>1 DEF ThreadsKept, GatesKept, IInv, Typed
  <2>2. CASE thread' = [thread EXCEPT ![r].phase = "ended"]
    <3>1. thread[r].phase \in {"paused", "ended"}
      BY <1>3 DEF IInv, RunInv, RunOK
    <3>2. /\ thread' \in [Runs -> Threads]
          /\ thread'[r].phase = "ended"
          /\ thread'[r].suppress = thread[r].suppress /\ thread'[r].day = thread[r].day
          /\ \A s \in Runs : s # r => thread'[s] = thread[s]
      BY <1>3, <2>2 DEF IInv, Typed, Threads, RunPhases
    <3> QED
      BY <1>1, <1>3, <3>1, <3>2 DEF ThreadsKept, GatesKept
  <2> QED
    BY <1>1, <2>1, <2>2
<1>6. /\ level' \in [Milestones -> Nat]
      /\ \A m \in Milestones : level'[m] = IF m = id THEN decide[d].seen[m] + 1 ELSE level[m]
  BY <1>1, <1>3 DEF IInv, Typed
<1>7. Typed'
  BY <1>1, <1>4, <1>5, <1>6 DEF IInv, Typed
<1>8. \A e \in Decisions : /\ Marked(e)' <=> Marked(e)
                           /\ At(e, "checked")' <=> At(e, "checked")
                           /\ decide'[e].phase \in InFlight => decide[e].phase \in InFlight
                           /\ decide'[e].phase \in {"marked"} \cup Notifying =>
                                decide[e].phase \in {"marked"} \cup Notifying
                           /\ InLoop(e)' => InLoop(e)
                           /\ decide'[e].todo \subseteq decide[e].todo
  BY <1>1, <1>2, <1>4, PhaseSets DEF Marked, At, InLoop
<1>9. PassInv' /\ RunInv' /\ SnapshotInv'
  BY <1>1, <1>4, <1>5, <1>8, RequestKeepsRuns
<1>10. RequestInv'
  <2>1. RequestOK(d)'
    <3>1. Overdue(r)' = Overdue(r) /\ (Escalates(r)' <=> Escalates(r))
      BY <1>1, <1>3, <1>4, <1>5 DEF Overdue, Escalates, ThreadsKept
    <3> QED
      BY <1>1, <1>2, <1>3, <1>4, <3>1 DEF RequestOK, At, Notifying
  <2> QED
    BY <1>1, <1>4, <1>5, <2>1, QuietRequest DEF IInv, RequestInv
<1>11. EffectInv'
  BY <1>1, <1>2, <1>4, <1>5, <1>8, QuietEffects DEF IInv, At, ThreadsKept
<1>12. ApartInv'
  BY <1>1, <1>4, <1>8 DEF IInv, ApartInv
<1>13. /\ \A m : UrgentTasks(m)' = UrgentTasks(m)
       /\ \A m, n : Told(m, n)' <=> Told(m, n)
       /\ Task(d, id) \in UrgentTasks(id) /\ Task(d, id).level = decide[d].seen[id]
       /\ Task(d, id).run = r
  BY <1>1 DEF UrgentTasks, Told, Task
<1>14. LevelInv'
  <2>1. \A e \in Decisions : InLoop(e)' =>
          \A m \in decide'[e].todo : Told(m, decide[e].seen[m])
    BY <1>8 DEF IInv, LevelInv
  <2>2. Told(id, decide[d].seen[id] + 1)
    <3> SUFFICES ASSUME NEW k \in 0 .. (decide[d].seen[id] + 1) - 1
                 PROVE  \E x \in UrgentTasks(id) : x.level = k
      BY DEF Told
    <3>1. CASE k = decide[d].seen[id]
      BY <1>13, <3>1
    <3>2. CASE k # decide[d].seen[id]
      <4>1. k \in 0 .. decide[d].seen[id] - 1
        BY <1>3, <3>2
      <4>2. Told(id, decide[d].seen[id])
        BY <1>3 DEF IInv, LevelInv
      <4> QED
        BY <4>1, <4>2 DEF Told
    <3> QED
      BY <3>1, <3>2
  <2>3. \A m \in Milestones : Told(m, level'[m])
    BY <1>6, <2>2 DEF IInv, LevelInv
  <2> QED
    BY <1>4, <1>13, <2>1, <2>3 DEF LevelInv
<1>15. CountInv'
  <2> SUFFICES ASSUME orderly PROVE CountInv'
    BY DEF CountInv
  <2> DEFINE W(m) == {x \in UrgentTasks(m) : ~Unwritten(x)}
             n == decide[d].seen[id]
  <2>1. level[id] = n /\ n \in Nat
    BY <1>3 DEF IInv, CountInv
  <2>2. ASSUME NEW e \in Decisions, InLoop(e)', NEW m \in decide'[e].todo
        PROVE  level'[m] = decide'[e].seen[m]
    <3>1. m \in decide[e].todo /\ InLoop(e) /\ m \in Milestones
      BY <1>4, <1>8, <2>2 DEF Requests
    <3>2. m # id
      <4>1. ASSUME m = id PROVE FALSE
        <5>1. e = d
          BY <1>3, <3>1, <4>1, OneLoop
        <5> QED
          BY <1>4, <2>2, <4>1, <5>1
      <4> QED
        BY <4>1
    <3> QED
      BY <1>4, <1>6, <3>1, <3>2 DEF IInv, CountInv
  \* d alone made tasks for the run, and alone has its loop.
  <2>3. \A e \in Decisions : Marked(e) /\ decide[e].run = r => e = d
    BY <1>3 DEF IInv, ApartInv, Marked, InLoop
  <2>4. \A x \in tasks : x.urgent /\ x.run = r => x = Task(d, x.id)
    <3>1. \A e \in Decisions : \A x : Made(e, x) /\ x.run = r => e = d
      BY <2>3 DEF Made, Marked, Task
    <3> QED
      BY <3>1 DEF IInv, EffectInv, Made
  <2>5. \A e \in Decisions : decide[e].run = r /\ decide[e].todo # {} => e = d
    BY <2>3 DEF IInv, RequestInv, RequestOK, Marked
  <2>6. \A m : \A x \in UrgentTasks(m) :
          Unwritten(x)' <=> Unwritten(x) /\ x # Task(d, id)
    <3> SUFFICES ASSUME NEW m, NEW x \in UrgentTasks(m)
                 PROVE  Unwritten(x)' <=> Unwritten(x) /\ x # Task(d, id)
      OBVIOUS
    <3>0. x \in tasks /\ x.urgent
      BY DEF UrgentTasks
    <3>1. CASE x.run # r
      <4>1. x # Task(d, id)
        BY <1>13, <3>1
      <4> QED
        BY <1>4, <3>1, <4>1 DEF Unwritten
    <3>2. CASE x.run = r
      <4>1. x = Task(d, x.id)
        BY <2>4, <3>0, <3>2
      <4>2. x = Task(d, id) <=> x.id = id
        BY <4>1 DEF Task
      <4>3. Unwritten(x) <=> x.id \in decide[d].todo
        BY <2>5, <3>2 DEF Unwritten
      <4>4. Unwritten(x)' <=> x.id \in decide[d].todo \ {id}
        BY <1>4, <2>5, <3>2 DEF Unwritten
      <4> QED
        BY <4>2, <4>3, <4>4
    <3> QED
      BY <3>1, <3>2
  <2>7. ASSUME NEW m \in Milestones, m # id PROVE W(m)' = W(m) /\ level'[m] = level[m]
    <3>1. \A x \in UrgentTasks(m) : x # Task(d, id)
      BY <2>7 DEF UrgentTasks, Task
    <3> QED
      BY <1>6, <1>13, <2>6, <2>7, <3>1
  <2>8. W(id)' = W(id) \cup {Task(d, id)} /\ level'[id] = n + 1
    BY <1>3, <1>6, <1>13, <2>6
  <2>9. \A m \in Milestones : /\ {x.level : x \in W(m)} = 0 .. level[m] - 1
                              /\ \A x, y \in W(m) : x.level = y.level => x = y
    BY DEF IInv, CountInv, EscalationCounted
  <2>10. ASSUME NEW m \in Milestones
         PROVE  /\ {x.level : x \in W(m)'} = 0 .. level'[m] - 1
                /\ \A x, y \in W(m)' : x.level = y.level => x = y
    <3>1. CASE m # id
      BY <2>7, <2>9, <3>1
    <3>2. CASE m = id
      <4> HIDE DEF W, n
      <4>1. {x.level : x \in W(id)} = 0 .. n - 1
        BY <1>3, <2>1, <2>9
      <4>2. \A x \in W(id) : x.level \in 0 .. n - 1
        BY <4>1
      <4>3. Task(d, id).level = n
        BY <1>13 DEF n
      <4>4. {x.level : x \in W(id)'} = {x.level : x \in W(id)} \cup {n}
        BY <2>8, <4>3
      <4>5. (0 .. n - 1) \cup {n} = 0 .. (n + 1) - 1
        BY <2>1
      <4>6. \A x, y \in W(id)' : x.level = y.level => x = y
        BY <1>3, <2>1, <2>8, <2>9, <4>2, <4>3
      <4> QED
        BY <2>8, <3>2, <4>1, <4>4, <4>5, <4>6
    <3> QED
      BY <3>1, <3>2
  <2>11. EscalationCounted'
    <3>1. Milestones' = Milestones
      OBVIOUS
    <3> QED
      BY <2>10, <3>1 DEF EscalationCounted
  <2> QED
    BY <2>2, <2>11 DEF CountInv
<1> QED
  BY <1>7, <1>9, <1>10, <1>11, <1>12, <1>14, <1>15 DEF IInv

-----------------------------------------------------------------------------
\* The process goes down, which happens only without orderliness.
LEMMA CrashIInv ==
    ASSUME IInv, Crash, UNCHANGED <<orderly, active>>
    PROVE  IInv'
<1>1. /\ ~orderly
      /\ pass' = [p \in Passes |-> IF pass[p].phase = "running"
                                   THEN [pass[p] EXCEPT !.phase = "dead"] ELSE pass[p]]
      /\ thread' = [r \in Runs |-> IF thread[r].phase \in Starting
                                   THEN [thread[r] EXCEPT !.phase = "dead"]
                                   ELSE thread[r]]
      /\ decide' = [d \in Decisions |->
           IF decide[d].phase \in InFlight
           THEN [decide[d] EXCEPT !.phase = IF At(d, "checked") THEN "lost" ELSE "dead"]
           ELSE decide[d]]
      /\ UNCHANGED <<today, level, inbox, tasks, mail, mailed>>
  BY DEF Crash, outside
<1>2. /\ pass' \in [Passes -> PassRecords]
      /\ \A q \in Passes :
           /\ pass'[q].phase = IF pass[q].phase = "running" THEN "dead" ELSE pass[q].phase
           /\ pass'[q].awaiting_escalation = pass[q].awaiting_escalation
           /\ pass'[q].awaiting_email = pass[q].awaiting_email
           /\ pass'[q].todo = pass[q].todo
  BY <1>1 DEF IInv, Typed, PassRecords, PassPhases
<1>3. /\ thread' \in [Runs -> Threads]
      /\ \A r \in Runs :
           /\ thread'[r].phase = IF thread[r].phase \in Starting THEN "dead" ELSE thread[r].phase
           /\ thread'[r].day = thread[r].day
  BY ZenonT(60), <1>1 DEF IInv, Typed, Threads, RunPhases
<1>4. /\ decide' \in [Decisions -> Requests]
      /\ \A d \in Decisions :
           /\ decide'[d].phase = IF decide[d].phase \in InFlight
                                 THEN IF At(d, "checked") THEN "lost" ELSE "dead"
                                 ELSE decide[d].phase
           /\ decide'[d].run = decide[d].run /\ decide'[d].verdict = decide[d].verdict
           /\ decide'[d].todo = decide[d].todo /\ decide'[d].seen = decide[d].seen
  <2> DEFINE p(d) == IF At(d, "checked") THEN "lost" ELSE "dead"
  <2>1. \A d \in Decisions : p(d) \in DecidePhases
    BY DEF DecidePhases
  <2>2. decide' = [d \in Decisions |-> IF decide[d].phase \in InFlight
                                       THEN [decide[d] EXCEPT !.phase = p(d)] ELSE decide[d]]
    BY <1>1
  <2> HIDE DEF p
  <2>3. /\ decide' \in [Decisions -> Requests]
        /\ \A d \in Decisions :
             /\ decide'[d].phase = IF decide[d].phase \in InFlight THEN p(d) ELSE decide[d].phase
             /\ decide'[d].run = decide[d].run /\ decide'[d].verdict = decide[d].verdict
             /\ decide'[d].todo = decide[d].todo /\ decide'[d].seen = decide[d].seen
    BY ZenonT(60), <2>1, <2>2 DEF IInv, Typed, Requests
  <2> QED
    BY <2>3 DEF p
<1>5. Typed'
  BY <1>1, <1>2, <1>3, <1>4 DEF IInv, Typed
<1>6. PassInv'
  BY SMTT(30), <1>2, <1>3, RunPair, PhaseSets DEF IInv, PassInv
<1>7. RunInv'
  <2> SUFFICES ASSUME NEW r \in Runs PROVE RunOK(r)'
    BY DEF RunInv
  <2>1. RunOK(r) /\ (thread[r].phase \in Starting => pass[r[1]].phase = "running")
    BY DEF IInv, RunInv, PassInv
  <2>2. /\ r[1] \in Passes
        /\ Escalates(r)' <=> Escalates(r)
        /\ Overdue(r)' = Overdue(r)
        /\ inbox'[r] = inbox[r]
    BY <1>1, <1>3, RunPair DEF Escalates, Overdue
  <2> QED
    BY <1>2, <1>3, <2>1, <2>2, PhaseSets DEF RunOK
<1>8. \A d \in Decisions :
        /\ Marked(d)' <=> Marked(d)
        /\ decide[d].phase \in Afterwards => decide'[d].phase \in Afterwards
        /\ decide'[d].phase \notin InFlight
        /\ ~InLoop(d)'
  <2>1. {"create_task", "set_level", "checked"} \subseteq InFlight
    BY PhaseSets
  <2> QED
    BY <1>4, <2>1, PhaseSets DEF Marked, Afterwards, At, InLoop
<1>9. RequestInv'
  <2> SUFFICES ASSUME NEW d \in Decisions PROVE RequestOK(d)'
    BY DEF RequestInv
  <2>1. RequestOK(d)
    BY DEF IInv, RequestInv
  <2>2. CASE At(d, "idle")
    BY <1>4, <2>1, <2>2, PhaseSets DEF RequestOK, At, Marked
  <2>3. CASE ~At(d, "idle")
    <3>1. /\ decide[d].run \in Runs /\ decide'[d].run = decide[d].run
          /\ inbox'[decide[d].run] = inbox[decide[d].run]
          /\ thread'[decide[d].run].day = thread[decide[d].run].day
      BY <1>1, <1>3, <1>4, <2>1, <2>3 DEF RequestOK
    <3>2. /\ ~At(d, "idle")' /\ ~At(d, "save_sent")'
          /\ decide'[d].phase \notin Notifying \cup Mailing
      BY <1>4, <1>8, <2>3, PhaseSets DEF At, InFlight
    <3>3. decide[d].todo # {} => /\ decide'[d].phase \in {"create_task", "set_level", "raised", "dead"}
                                 /\ decide[d].todo \subseteq Overdue(decide[d].run)
      BY <1>4, <2>1 DEF RequestOK, At
    <3> QED
      BY <1>4, <1>8, <2>1, <2>3, <3>1, <3>2, <3>3 DEF RequestOK, Overdue, Mailing, At
  <2> QED
    BY <2>2, <2>3
<1>10. EffectInv'
  BY <1>1, <1>3, <1>4, <1>8, QuietEffects DEF IInv, Afterwards
<1>11. LevelInv' /\ CountInv'
  BY <1>1, <1>4, <1>8, QuietLevels DEF IInv
<1>12. SnapshotInv' /\ ApartInv'
  BY <1>1 DEF SnapshotInv, ApartInv
<1> QED
  BY <1>5, <1>6, <1>7, <1>9, <1>10, <1>11, <1>12 DEF IInv

-----------------------------------------------------------------------------
LEMMA InitIInv ==
    ASSUME Init
    PROVE  IInv
<1> DEFINE t0 == [phase |-> "idle", suppress |-> FALSE, day |-> 0, todo |-> {}]
           g0 == [kind |-> "approve_escalation", status |-> "absent"]
           p0 == [phase |-> "idle", awaiting_escalation |-> {}, awaiting_email |-> {},
                  todo |-> {}]
           d0 == [run |-> NoRun, verdict |-> "rejected", phase |-> "idle", todo |-> {},
                  seen |-> level]
<1>1. /\ orderly \in BOOLEAN /\ active \subseteq Txns /\ today \in 0 .. LastDay
      /\ level \in [Milestones -> Nat] /\ \A id \in Milestones : level[id] = 0
  BY CoordinationAssumptions DEF Init
<1>2. /\ \A r \in Runs : thread[r] = t0 /\ inbox[r] = g0 /\ mail[r] = "none"
      /\ \A p \in Passes : pass[p] = p0
      /\ \A d \in Decisions : decide[d] = d0
      /\ tasks = {} /\ mailed = {}
  BY DEF Init
<1>3. t0 \in Threads /\ d0 \in Requests /\ g0 \in Gates /\ p0 \in PassRecords
  BY <1>1, CoordinationAssumptions
  DEF Threads, RunPhases, Requests, DecidePhases, Verdicts, Gates, PassRecords, PassPhases
<1>4. Typed
  BY <1>1, <1>3 DEF Init, Typed, MailStates
<1>5. PassInv
  BY <1>2, RunPair, PhaseSets DEF PassInv
<1>6. RunInv
  BY <1>2, PhaseSets DEF RunInv, RunOK
<1>7. RequestInv /\ \A d \in Decisions : ~Marked(d) /\ ~InLoop(d) /\ ~At(d, "checked")
  BY <1>2, PhaseSets DEF RequestInv, RequestOK, At, Marked, InLoop
<1>8. EffectInv /\ ApartInv
  BY <1>2, <1>7 DEF EffectInv, ApartInv
<1>9. SnapshotInv
  <2>1. \A r \in Runs : ~Escalating(r) /\ ~Emailing(r)
    BY <1>2, PhaseSets DEF Escalating, Emailing
  <2> QED
    BY <1>2, <2>1, PhaseSets DEF SnapshotInv
<1>10. LevelInv
  BY <1>1, <1>7 DEF LevelInv, Told
<1>11. CountInv
  <2>1. \A id : UrgentTasks(id) = {}
    BY <1>2 DEF UrgentTasks
  <2> QED
    BY <1>1, <1>7, <2>1 DEF CountInv, EscalationCounted
<1> QED
  BY <1>4, <1>5, <1>6, <1>7, <1>8, <1>9, <1>10, <1>11 DEF IInv

LEMMA StutterIInv ==
    ASSUME IInv, UNCHANGED vars
    PROVE  IInv'
<1>1. UNCHANGED <<orderly, active, today, level, pass, thread, inbox, decide, tasks, mail, mailed>>
  BY DEF vars
<1>2. Typed' /\ PassInv' /\ RunInv'
  BY <1>1, QuietPass, QuietRun DEF IInv, RunInv, Typed
<1>3. SnapshotInv'
  BY <1>1, QuietSnapshot DEF IInv, Escalating, Emailing, Escalates
<1>4. RequestInv' /\ EffectInv' /\ LevelInv' /\ ApartInv' /\ CountInv'
  BY <1>1, QuietDecisions DEF RowsKept
<1> QED
  BY <1>2, <1>3, <1>4 DEF IInv

LEMMA DecideIInv ==
    ASSUME IInv, NEW d \in Decisions, Decide(d), UNCHANGED <<orderly, active>>
    PROVE  IInv'
<1>1. CASE MailAccepted(d)
  <2>1. /\ At(d, "sending") /\ Continue(d, "save_sent")
        /\ mailed' = mailed \cup {decide[d].run}
        /\ UNCHANGED <<today, level, pass, thread, inbox, tasks, mail>>
    BY <1>1 DEF MailAccepted
  <2> QED
    BY <2>1, SendingIInv
<1>2. CASE MailRaises(d)
  <2>1. /\ At(d, "sending") /\ Continue(d, "save_failed")
        /\ mailed' \in {mailed, mailed \cup {decide[d].run}}
        /\ UNCHANGED <<today, level, pass, thread, inbox, tasks, mail>>
    BY <1>2 DEF MailRaises
  <2> QED
    BY <2>1, SendingIInv
<1>3. CASE \E r \in Runs, verdict \in Verdicts : CheckApproval(d, r, verdict)
  BY <1>3, CheckApprovalIInv
<1> QED
  BY <1>1, <1>2, <1>3, MarkDecidedIInv, ResumeIInv, NotifyReadIInv, NotifyTaskIInv,
     SetLevelIInv, ReadMailIInv, SaveMailIInv, DecideRaisesIInv DEF Decide

LEMMA NextIInv ==
    ASSUME IInv, [Next]_vars
    PROVE  IInv'
<1>1. CASE Next
  <2>1. UNCHANGED <<orderly, active>>
    BY <1>1 DEF Next
  <2>2. CASE Tick \/ Crash
    BY <2>1, <2>2, TickIInv, CrashIInv
  <2>3. CASE \E p \in Passes : StartPass(p) \/ PassStep(p)
    BY <2>1, <2>3, StartPassIInv, SkipTransactionIInv, StartRunIInv, FinishPassIInv
    DEF PassStep
  <2>4. CASE \E r \in Runs : RunStep(r)
    BY <2>1, <2>4, EvaluateMilestonesIInv, SendReminderIInv, DraftReminderEmailIInv,
       RaiseGateIInv, RunRaisesIInv
    DEF RunStep
  <2>5. CASE \E d \in Decisions : Decide(d)
    BY <2>1, <2>5, DecideIInv
  <2> QED
    BY <1>1, <2>2, <2>3, <2>4, <2>5 DEF Next
<1> QED
  BY <1>1, StutterIInv

\* Throughout: a run's row and where it is agree; what went out went by a request that
\* had recorded an approval; a pass awaits one run at a time; and without overlap a run
\* has one verdict and a pass's snapshots stay true of what it has not reached.
THEOREM CoordinationInvariant == Spec => []IInv
<1>1. Init => IInv
  BY InitIInv
<1>2. IInv /\ [Next]_vars => IInv'
  BY NextIInv
<1> QED
  BY <1>1, <1>2, PTL DEF Spec

\* Type correctness.
THEOREM CoordinationTyped == Spec => []TypeOK
<1>1. IInv => TypeOK
  BY DEF IInv, Typed, TypeOK, PassRecords, PassPhases, Threads, RunPhases, Gates, Requests,
         DecidePhases, Tasks, MailStates
<1> QED
  BY <1>1, CoordinationInvariant, PTL

\* notify creates an URGENT task, and send_approved hands an email to the provider, only
\* after a request recorded an approval of that run's own gate, in any overlap, failure
\* or crash, and the task only for a milestone that was overdue when the human was
\* asked; where decisions do not overlap, the rows agree with what went out.
THEOREM OutwardStepsAreApprovedCorrect == Spec => []OutwardStepsAreApproved
<1>1. IInv => OutwardStepsAreApproved
  <2> SUFFICES ASSUME IInv PROVE OutwardStepsAreApproved
    OBVIOUS
  <2>1. ASSUME orderly, NEW r \in Runs, Approved(r)
        PROVE  inbox[r].status = "approved" /\ mail[r] # "rejected"
    <3>1. PICK d \in Decisions : /\ Marked(d) /\ decide[d].run = r
                                 /\ decide[d].verdict = "approved"
      BY <2>1 DEF Approved, Marked
    <3>2. inbox[r].status = "approved"
      BY <2>1, <3>1 DEF IInv, ApartInv
    <3>3. \A e \in Decisions : Marked(e) /\ decide[e].run = r => e = d
      BY <2>1, <3>1 DEF IInv, ApartInv
    <3>4. mail[r] # "rejected"
      BY <3>1, <3>3 DEF IInv, EffectInv
    <3> QED
      BY <3>2, <3>4
  <2>2. ASSUME NEW x \in tasks, x.urgent
        PROVE  /\ Approved(x.run) /\ inbox[x.run].kind = "approve_escalation"
               /\ x.id \in _milestones_by_class(x.run[2], thread[x.run].day, "overdue")
               /\ orderly => inbox[x.run].status = "approved"
    <3>1. PICK d \in Decisions : Made(d, x)
      BY <2>2 DEF IInv, EffectInv
    <3>2. Approved(x.run) /\ x.run \in Runs
      BY <3>1 DEF Made, Task, Approved, IInv, Typed, Tasks
    <3>3. Escalates(x.run) /\ x.id \in Overdue(x.run)
      BY <2>2 DEF IInv, EffectInv
    <3> QED
      BY <2>1, <3>2, <3>3 DEF Escalates, Overdue, _milestones_by_class
  <2>3. ASSUME NEW r \in mailed
        PROVE  /\ Approved(r) /\ inbox[r].kind = "approve_outbound_message"
               /\ orderly => inbox[r].status = "approved" /\ mail[r] # "rejected"
    <3>1. /\ r \in Runs /\ inbox[r] \in Gates
          /\ Approved(r) /\ ~Escalates(r)
      BY <2>3 DEF IInv, EffectInv, Typed
    <3> QED
      BY <2>1, <3>1 DEF Escalates, Gates
  <2>4. \A r \in Runs : mail[r] = "sent" => r \in mailed
    BY DEF IInv, EffectInv
  <2> QED
    BY <2>2, <2>3, <2>4 DEF OutwardStepsAreApproved
<1> QED
  BY <1>1, CoordinationInvariant, PTL

\* A pass recorded as a success has asked a human about every transaction that was
\* overdue when it got there, or found the question already waiting.
THEOREM SuccessMeansOverdueAskedCorrect == Spec => []SuccessMeansOverdueAsked
<1>1. IInv => SuccessMeansOverdueAsked
  <2> SUFFICES ASSUME IInv, NEW p \in Passes, NEW t \in active, pass[p].phase = "success",
                      t \notin pass[p].awaiting_escalation
               PROVE  LET r == <<p, t>> IN
                      /\ thread[r].phase \in {"paused", "ended"}
                      /\ _milestones_by_class(t, thread[r].day, "overdue") # {} =>
                           /\ inbox[r].status # "absent"
                           /\ inbox[r].kind = "approve_escalation"
    BY DEF SuccessMeansOverdueAsked
  <2> DEFINE r == <<p, t>>
  <2>1. r \in Runs /\ r[1] = p /\ r[2] = t
    BY RunPair DEF IInv, Typed
  <2> HIDE DEF r
  <2>2. thread[r].phase \notin Starting \cup {"idle", "raised", "dead"}
    BY <2>1 DEF IInv, PassInv
  <2>3. thread[r].phase \in {"paused", "ended"}
    BY <2>1, <2>2 DEF IInv, Typed, Threads, RunPhases
  <2>4. Overdue(r) # {} => Escalates(r) /\ inbox[r].status # "absent"
    BY <2>1, <2>2, <2>3 DEF IInv, RunInv, RunOK
  <2> QED
    BY <2>1, <2>3, <2>4 DEF Overdue, Escalates, _milestones_by_class, r
<1> QED
  BY <1>1, CoordinationInvariant, PTL

\* A set with no two members has at most one.
LEMMA AtMostOne ==
    ASSUME NEW S, \A x, y \in S : x = y
    PROVE  Cardinality(S) <= 1
<1>1. CASE S = {}
  BY <1>1, FS_EmptySet
<1>2. CASE S # {}
  <2>1. PICK x : S = {x}
    BY <1>2
  <2> QED
    BY <2>1, FS_Singleton
<1> QED
  BY <1>1, <1>2

\* docs/ARCHITECTURE.md's "gates never stack" holds where no pass overlaps another pass
\* or an escalation being carried out and no decision another, for any number of passes,
\* decisions and transactions.
THEOREM OrderlyGatesNeverStackCorrect == Spec => []OrderlyGatesNeverStack
<1>1. IInv => OrderlyGatesNeverStack
  <2> SUFFICES ASSUME IInv, orderly, NEW t \in Txns,
                      NEW kind \in {"approve_escalation", "approve_outbound_message"}
               PROVE  Cardinality(Pending(t, kind)) <= 1
    BY DEF OrderlyGatesNeverStack, GatesNeverStack
  <2>1. \A r \in Pending(t, kind) :
          /\ r \in Runs /\ r[2] = t
          /\ IF kind = "approve_escalation" THEN Escalating(r) ELSE Emailing(r)
    BY DEF Pending, Escalating, Emailing, Escalates
  <2>2. \A r, s \in Pending(t, kind) : r = s
    BY <2>1 DEF IInv, SnapshotInv
  <2> QED
    BY <2>2, AtMostOne
<1> QED
  BY <1>1, CoordinationInvariant, PTL

\* Every level below a milestone's is told by an URGENT task in the CRM, whatever
\* overlaps, fails or dies; and where nothing overlaps the tasks tell them once each, but
\* for the writes that are still to come.
THEOREM LevelsTellEscalationsCorrect == Spec => []LevelsTellEscalations
<1>1. IInv => LevelsTellEscalations
  BY DEF IInv, LevelInv, Told, CountInv, LevelsTellEscalations, LevelIsBacked,
         OrderlyEscalationCounted
<1> QED
  BY <1>1, CoordinationInvariant, PTL

-----------------------------------------------------------------------------
(***************************************************************************)
(* The deadline rules (Worklist).                                          *)
(***************************************************************************)
\* Every nonempty set of naturals has a least element: the form of induction that
\* needs no operator parameter.
LEMMA LeastNatural ==
    ASSUME NEW T, T \subseteq Nat, T # {}
    PROVE  \E n \in T : \A m \in T : n <= m
<1> DEFINE R == OpToRel(<, Nat)
<1>1. IsWellFoundedOn(R, Nat)
  BY NatLessThanWellFounded
<1>2. PICK n \in T : \A m \in T : ~ (<<m, n>> \in R)
  <2> HIDE DEF R
  <2> QED
    BY <1>1, WFMin
<1>3. \A m \in T : ~ (m < n)
  BY <1>2 DEF OpToRel
<1> QED
  BY <1>3

\* What opening an escrow under today's contract comes to.
LEMMA OpensWhenItFits ==
    ASSUME date \in Int, close_date \in Int
    PROVE  OpensWhenTimelineFits
<1> SUFFICES ASSUME NEW length \in 1 .. LISTING_KEY_MAX_LENGTH + 1
             PROVE  LET opened == build_open_transaction(length, date, close_date,
                                                         DEFAULT_TIMELINE)
                    IN /\ opened # ValueError <=>
                            /\ length <= 36
                            /\ close_date # NoDate /\ close_date - date >= 21
                       /\ \A dues \in opened :
                            \A i \in DOMAIN dues : dues[i] \in date .. close_date
  BY DEF OpensWhenTimelineFits
<1> DEFINE T == DEFAULT_TIMELINE
           dues == [i \in DOMAIN T |-> _due_date(date, close_date, T[i])]
           made == generate_milestones(date, close_date, T)
           opened == build_open_transaction(length, date, close_date, T)
<1>1. /\ DOMAIN T = 1..5
      /\ T[1] = [rule |-> "after_contract", days |-> 10]
      /\ T[2] = [rule |-> "after_contract", days |-> 17]
      /\ T[3] = [rule |-> "after_contract", days |-> 21]
      /\ T[4] = [rule |-> "before_close", days |-> 1]
      /\ T[5] = [rule |-> "before_close", days |-> 0]
  BY DEF DEFAULT_TIMELINE
<1>2. T[4] \in Range(T) /\ T[4].rule = "before_close"
  BY <1>1 DEF Range
<1> HIDE DEF T
<1>3. /\ DOMAIN dues = 1..5 /\ dues[1] = date + 10 /\ dues[2] = date + 17
      /\ dues[3] = date + 21 /\ dues[4] = close_date - 1 /\ dues[5] = close_date - 0
  BY <1>1 DEF _due_date
<1>4. made = IF close_date = NoDate THEN {} ELSE {dues}
  BY <1>2 DEF generate_milestones, ValueError
<1> HIDE DEF dues
<1>5. \A due \in Range(dues) : due \in {date + 10, date + 17, date + 21, close_date - 1, close_date}
  BY <1>3 DEF Range
<1>6. /\ date + 21 \in Range(dues) /\ close_date - 1 \in Range(dues)
  BY <1>3 DEF Range
<1>7. (\A due \in Range(dues) : due >= date /\ due <= close_date) <=> close_date - date >= 21
  BY <1>5, <1>6
<1>8. CASE close_date = NoDate
  <2>1. made = {}
    BY <1>4, <1>8
  <2> HIDE DEF made
  <2>2. opened = {}
    BY <1>8, <2>1 DEF build_open_transaction, ValueError, made
  <2> QED
    BY <1>8, <2>2 DEF ValueError, T
<1>9. CASE close_date # NoDate
  <2>1. opened = IF length > 36 \/ close_date < date THEN {}
                 ELSE {d \in {dues} : \A due \in Range(d) : due >= date /\ due <= close_date}
    BY <1>4, <1>9 DEF build_open_transaction, ValueError, LISTING_KEY_MAX_LENGTH
  <2>2. opened = IF length <= 36 /\ close_date - date >= 21 THEN {dues} ELSE {}
    BY <1>7, <2>1
  <2>3. close_date - date >= 21 => \A i \in DOMAIN dues : dues[i] \in date .. close_date
    BY <1>3
  <2> HIDE DEF opened
  <2>4. /\ opened # {} <=> length <= 36 /\ close_date # NoDate /\ close_date - date >= 21
        /\ \A d \in opened : \A i \in DOMAIN d : d[i] \in date .. close_date
    BY <1>9, <2>2, <2>3
  <2> QED
    BY <2>4 DEF opened, ValueError, T
<1> QED
  BY <1>8, <1>9

-----------------------------------------------------------------------------
(***************************************************************************)
(* Sorting.  A finite set with a strict total order has one listing in     *)
(* that order: an element's place is the number of those before it.        *)
(***************************************************************************)
Orders(R, S) ==
    /\ \A a \in S : <<a, a>> \notin R
    /\ \A a, b, c \in S : <<a, b>> \in R /\ <<b, c>> \in R => <<a, c>> \in R
    /\ \A a, b \in S : a = b \/ <<a, b>> \in R \/ <<b, a>> \in R

Sorted(q, R) == \A i, j \in DOMAIN q : i < j => <<q[i], q[j]>> \in R

Earlier(a, R, S) == {b \in S : <<b, a>> \in R}

LEMMA RankGrows ==
    ASSUME NEW S, IsFiniteSet(S), NEW R, Orders(R, S), NEW a \in S, NEW b \in S, <<a, b>> \in R
    PROVE  Cardinality(Earlier(a, R, S)) < Cardinality(Earlier(b, R, S))
<1> DEFINE A == Earlier(a, R, S)
           B == Earlier(b, R, S)
<1>1. A \in SUBSET S /\ B \in SUBSET S /\ a \in B /\ A \in SUBSET (B \ {a})
  BY DEF Earlier, Orders
<1> HIDE DEF A, B
<1>2. IsFiniteSet(B) /\ IsFiniteSet(B \ {a}) /\ Cardinality(B \ {a}) = Cardinality(B) - 1
  BY <1>1, FS_Subset, FS_RemoveElement
<1>3. Cardinality(A) <= Cardinality(B \ {a}) /\ IsFiniteSet(A)
  BY <1>1, <1>2, FS_Subset
<1>4. Cardinality(A) \in Nat /\ Cardinality(B) \in Nat
  BY <1>2, <1>3, FS_CardinalityType
<1>5. Cardinality(A) < Cardinality(B)
  BY <1>2, <1>3, <1>4
<1> QED
  BY <1>5 DEF A, B

LEMMA RankRange ==
    ASSUME NEW S, IsFiniteSet(S), NEW R, Orders(R, S), NEW a \in S
    PROVE  Cardinality(Earlier(a, R, S)) + 1 \in 1..Cardinality(S)
<1> DEFINE A == Earlier(a, R, S)
<1>1. A \in SUBSET (S \ {a})
  BY DEF Earlier, Orders
<1> HIDE DEF A
<1>2. IsFiniteSet(S \ {a}) /\ Cardinality(S \ {a}) = Cardinality(S) - 1
  BY FS_RemoveElement
<1>3. Cardinality(A) <= Cardinality(S \ {a}) /\ IsFiniteSet(A)
  BY <1>1, <1>2, FS_Subset
<1>4. Cardinality(A) \in Nat /\ Cardinality(S) \in Nat
  BY <1>3, FS_CardinalityType
<1>5. Cardinality(A) + 1 \in 1..Cardinality(S)
  BY <1>2, <1>3, <1>4
<1> QED
  BY <1>5 DEF A

LEMMA SortedExists ==
    ASSUME NEW S, IsFiniteSet(S), NEW R, Orders(R, S)
    PROVE  \E q \in [1..Cardinality(S) -> S] : Sorted(q, R)
<1> DEFINE n == Cardinality(S)
           f == [a \in S |-> Cardinality(Earlier(a, R, S)) + 1]
           q == [i \in 1..n |-> CHOOSE a \in S : f[a] = i]
<1>1. n \in Nat
  BY FS_CardinalityType
<1>2. f \in [S -> 1..n]
  BY RankRange
<1>3. \A a \in S : f[a] = Cardinality(Earlier(a, R, S)) + 1
  OBVIOUS
<1>4. ASSUME NEW a \in S, NEW b \in S, <<a, b>> \in R PROVE f[a] < f[b]
  <2>1. Cardinality(Earlier(a, R, S)) < Cardinality(Earlier(b, R, S))
    BY <1>4, RankGrows
  <2>2. f[a] \in 1..n /\ f[b] \in 1..n
    BY <1>2
  <2>3. ASSUME NEW x \in S PROVE Cardinality(Earlier(x, R, S)) \in Nat
    <3>1. Earlier(x, R, S) \in SUBSET S
      BY DEF Earlier
    <3>2. IsFiniteSet(Earlier(x, R, S))
      BY <3>1, FS_Subset
    <3> QED
      BY <3>2, FS_CardinalityType
  <2>4. Cardinality(Earlier(a, R, S)) \in Nat /\ Cardinality(Earlier(b, R, S)) \in Nat
    BY <2>3
  <2> HIDE DEF f
  <2> QED
    BY <1>3, <2>1, <2>4
<1> HIDE DEF f
<1>5. ASSUME NEW a \in S, NEW b \in S, f[a] = f[b] PROVE a = b
  <2>1. f[a] \in Nat /\ f[b] \in Nat
    BY <1>2
  <2>2. ~(<<a, b>> \in R) /\ ~(<<b, a>> \in R)
    BY <1>4, <1>5, <2>1
  <2> QED
    BY <2>2 DEF Orders
<1>6. f \in Injection(S, 1..n)
  BY <1>2, <1>5 DEF Injection, IsInjective
<1>7. IsFiniteSet(1..n) /\ Cardinality(1..n) = n
  BY <1>1, FS_Interval
<1>8. f \in Surjection(S, 1..n)
  <2>1. Cardinality(S) = Cardinality(1..n)
    BY <1>7
  <2> HIDE DEF n
  <2> QED
    BY <1>6, <1>7, <2>1, FS_Injection
<1>9. \A i \in 1..n : q[i] \in S /\ f[q[i]] = i
  <2> SUFFICES ASSUME NEW i \in 1..n PROVE q[i] \in S /\ f[q[i]] = i
    OBVIOUS
  <2>1. \E a \in S : f[a] = i
    BY <1>8 DEF Surjection
  <2> QED
    BY <2>1
<1>10. DOMAIN q = 1..n /\ q \in [1..n -> S]
  BY <1>9
<1> HIDE DEF q
<1>11. Sorted(q, R)
  <2> SUFFICES ASSUME NEW i \in 1..n, NEW j \in 1..n, i < j PROVE <<q[i], q[j]>> \in R
    BY <1>10 DEF Sorted
  <2>1. q[i] \in S /\ q[j] \in S /\ f[q[i]] = i /\ f[q[j]] = j
    BY <1>9
  <2>2. q[i] # q[j]
    BY <1>1, <2>1
  <2>3. ~(<<q[j], q[i]>> \in R)
    BY <1>1, <1>4, <2>1
  <2> QED
    BY <2>1, <2>2, <2>3 DEF Orders
<1> QED
  BY <1>10, <1>11

LEMMA SortedIsComplete ==
    ASSUME NEW S, IsFiniteSet(S), NEW R, Orders(R, S),
           NEW q \in [1..Cardinality(S) -> S], Sorted(q, R), NEW a \in S
    PROVE  \E i \in 1..Cardinality(S) : q[i] = a
<1> DEFINE n == Cardinality(S)
<1>1. n \in Nat
  BY FS_CardinalityType
<1>2. ASSUME NEW i \in 1..n, NEW j \in 1..n, q[i] = q[j] PROVE i = j
  <2>1. q[i] \in S /\ DOMAIN q = 1..n
    OBVIOUS
  <2>2. ~(i < j) /\ ~(j < i)
    BY <1>2, <2>1 DEF Sorted, Orders
  <2> QED
    BY <1>1, <2>2
<1>3. q \in Injection(1..n, S)
  BY <1>2 DEF Injection, IsInjective
<1>4. Cardinality(1..n) = n
  BY <1>1, FS_Interval
<1>5. Cardinality(1..n) = Cardinality(S)
  BY <1>4
<1> HIDE DEF n
<1>6. q \in Surjection(1..n, S)
  BY <1>3, <1>5, FS_Injection
<1> QED
  BY <1>6 DEF Surjection, n

LEMMA SortedHasFirst ==
    ASSUME NEW S, IsFiniteSet(S), S # {}, NEW R, Orders(R, S)
    PROVE  \E a \in S : \A b \in S : <<a, b>> \in R \/ a = b
<1> DEFINE n == Cardinality(S)
<1>1. PICK q \in [1..n -> S] : Sorted(q, R)
  BY SortedExists
<1>2. n \in Nat /\ n # 0
  BY FS_CardinalityType, FS_EmptySet
<1>3. 1 \in 1..n /\ q[1] \in S
  BY <1>2
<1>4. ASSUME NEW b \in S PROVE <<q[1], b>> \in R \/ q[1] = b
  <2>1. PICK i \in 1..n : q[i] = b
    BY <1>1, SortedIsComplete
  <2>2. i = 1 \/ 1 < i
    BY <1>2
  <2>3. DOMAIN q = 1..n
    OBVIOUS
  <2> QED
    BY <1>1, <1>3, <2>1, <2>2, <2>3 DEF Sorted
<1> QED
  BY <1>3, <1>4

-----------------------------------------------------------------------------
\* Tuples of integers compare lexicographically.
LEMMA PairBefore ==
    ASSUME NEW a \in Int, NEW b \in Int, NEW c \in Int, NEW d \in Int
    PROVE  Before(<<a, b>>, <<c, d>>) <=> a < c \/ (a = c /\ b < d)
<1> DEFINE k == <<a, b>>
           l == <<c, d>>
<1>1. /\ DOMAIN k = 1..2 /\ k[1] = a /\ k[2] = b /\ l[1] = c /\ l[2] = d
  OBVIOUS
<1> HIDE DEF k, l
<1>2. Before(k, l) <=> \E i \in 1..2 : k[i] < l[i] /\ \A j \in 1..(i - 1) : k[j] = l[j]
  BY <1>1 DEF Before
<1>3. Before(k, l) <=> k[1] < l[1] \/ (k[1] = l[1] /\ k[2] < l[2])
  <2>1. (\A j \in 1..(1 - 1) : k[j] = l[j]) /\ ((\A j \in 1..(2 - 1) : k[j] = l[j]) <=> k[1] = l[1])
    OBVIOUS
  <2>2. \A i \in 1..2 : i = 1 \/ i = 2
    OBVIOUS
  <2> QED
    BY <1>2, <2>1, <2>2
<1> QED
  BY <1>1, <1>3 DEF k, l

\* The loop over the parties: the first of that name with an email, if there is one.
LEMMA PartyFound ==
    ASSUME NEW P, Contacts \in Seq(P), NEW owner
    PROVE  LET p == PartyOf(Contacts, owner)
               Fits(c) == c.name # "" /\ c.name = owner /\ c.email # ""
           IN  \/ p = NoParty /\ \A c \in Range(Contacts) : ~Fits(c)
               \/ p # NoParty /\ p \in Range(Contacts) /\ Fits(p)
<1> DEFINE found == {i \in DOMAIN Contacts : /\ Contacts[i].name # "" /\ Contacts[i].name = owner
                                             /\ Contacts[i].email # ""}
           first == CHOOSE i \in found : \A j \in found : i <= j
<1>1. found \subseteq Nat
  <2>1. DOMAIN Contacts = 1..Len(Contacts) /\ Len(Contacts) \in Nat
    OBVIOUS
  <2>2. found \subseteq DOMAIN Contacts
    OBVIOUS
  <2> HIDE DEF found
  <2> QED
    BY <2>1, <2>2
<1>2. CASE found = {}
  BY <1>2 DEF PartyOf, Range
<1>3. CASE found # {}
  <2>1. \E i \in found : \A j \in found : i <= j
    <3> HIDE DEF found
    <3> QED
      BY <1>1, <1>3, LeastNatural
  <2>2. first \in found
    <3> HIDE DEF found
    <3> QED
      BY <2>1
  <2>3. PartyOf(Contacts, owner) = Contacts[first]
    BY <1>3 DEF PartyOf
  <2> HIDE DEF first
  <2>4. /\ Contacts[first].name # "" /\ Contacts[first].name = owner
        /\ Contacts[first].email # "" /\ first \in DOMAIN Contacts
    BY <2>2
  <2>5. NoParty.email = ""
    BY DEF NoParty
  <2>6. Contacts[first] # NoParty /\ Contacts[first] \in Range(Contacts)
    BY <2>4, <2>5 DEF Range
  <2> QED
    BY <2>3, <2>4, <2>6
<1> QED
  BY <1>2, <1>3

LEMMA EmailsTheMostUrgent ==
    ASSUME Contacts \in Seq([name : STRING, email : STRING]),
           portfolio \in Seq(Milestone), date \in Int
    PROVE  EmailIsMostUrgentReachable
<1> DEFINE D == DueSoon
           Party(i) == PartyOf(Contacts, D[i].owner)
           S == {i \in DOMAIN D : Party(i) # NoParty}
           plan == plan_reminder_email(Contacts, D)
<1>1. /\ DOMAIN D \subseteq 1..Len(portfolio) /\ \A i \in DOMAIN D : D[i] = portfolio[i]
  BY DEF DueSoon, Restrict
<1>2. Len(portfolio) \in Nat /\ \A i \in 1..Len(portfolio) : portfolio[i].due \in Int
  <2>1. Len(portfolio) \in Nat /\ \A i \in 1..Len(portfolio) : portfolio[i] \in Milestone
    OBVIOUS
  <2> QED
    BY <2>1 DEF Milestone
<1> HIDE DEF D
<1>3. \A i \in DOMAIN D : i \in Int /\ D[i].due \in Int
  BY <1>1, <1>2
<1>4. IsFiniteSet(S)
  <2>1. S \in SUBSET (1..Len(portfolio))
    BY <1>1
  <2>2. IsFiniteSet(1..Len(portfolio))
    BY <1>2, FS_Interval
  <2> HIDE DEF S
  <2> QED
    BY <2>1, <2>2, FS_Subset
<1>5. ASSUME NEW i \in DOMAIN D
      PROVE  /\ i \in S <=> Reachable(D[i])
             /\ i \in S => OnFile(D[i], Party(i).email)
  <2>1. \/ /\ Party(i) = NoParty
           /\ \A c \in Range(Contacts) : ~(c.name # "" /\ c.name = D[i].owner /\ c.email # "")
        \/ /\ Party(i) # NoParty /\ Party(i) \in Range(Contacts)
           /\ Party(i).name # "" /\ Party(i).name = D[i].owner /\ Party(i).email # ""
    BY PartyFound
  <2> QED
    BY <2>1 DEF Reachable, OnFile
<1>6. CASE S = {}
  <2>1. plan = {}
    BY <1>6 DEF plan_reminder_email
  <2>2. \A m \in Range(D) : ~Reachable(m)
    BY <1>5, <1>6 DEF Range
  <2> QED
    BY <2>1, <2>2 DEF EmailIsMostUrgentReachable, D
<1>7. CASE S # {}
  <2> DEFINE Ahead(i, j) == Before(<<D[i].due, i>>, <<D[j].due, j>>)
             R == {e \in S \X S : Ahead(e[1], e[2])}
             first == CHOOSE i \in S : \A j \in S : Ahead(i, j) \/ i = j
  <2>1. S \subseteq DOMAIN D
    OBVIOUS
  <2>2. plan = {[recipient |-> Party(first).email, milestone_id |-> D[first].id]}
    BY <1>7 DEF plan_reminder_email
  <2> HIDE DEF S
  <2>3. \A i, j \in S : Ahead(i, j) <=> D[i].due < D[j].due \/ (D[i].due = D[j].due /\ i < j)
    BY <1>3, <2>1, PairBefore
  <2>4. \A i, j \in S : <<i, j>> \in R <=> Ahead(i, j)
    OBVIOUS
  <2> HIDE DEF Ahead, R
  <2>5. \A i \in S : i \in Int /\ D[i].due \in Int
    BY <1>3, <2>1
  <2>6. Orders(R, S)
    BY <2>3, <2>4, <2>5 DEF Orders
  <2>7. \E i \in S : \A j \in S : Ahead(i, j) \/ i = j
    <3>1. \E i \in S : \A j \in S : <<i, j>> \in R \/ i = j
      BY <1>4, <1>7, <2>6, SortedHasFirst
    <3> QED
      BY <2>4, <3>1
  <2>8. first \in S /\ \A j \in S : Ahead(first, j) \/ first = j
    BY <2>7
  <2> HIDE DEF first
  <2>9. first \in DOMAIN D /\ Reachable(D[first]) /\ OnFile(D[first], Party(first).email)
    BY <1>5, <2>1, <2>8
  <2>10. \A j \in S : D[first].due <= D[j].due
    BY <2>3, <2>5, <2>8
  <2>11. D[first] \in Range(D)
    BY <2>9 DEF Range
  <2>12. \A n \in Range(D) : Reachable(n) => D[first].due <= n.due
    BY <1>5, <2>10 DEF Range
  <2> DEFINE p == [recipient |-> Party(first).email, milestone_id |-> D[first].id]
  <2>13. plan = {p} /\ p.recipient = Party(first).email /\ p.milestone_id = D[first].id
    BY <2>2
  <2> HIDE DEF p, plan
  <2>14. /\ ~(plan = {}) /\ ~(\A m \in Range(D) : ~Reachable(m))
         /\ \A x \in plan : /\ D[first].id = x.milestone_id
                            /\ OnFile(D[first], x.recipient)
    BY <2>9, <2>11, <2>13
  <2> QED
    BY <2>11, <2>12, <2>14 DEF EmailIsMostUrgentReachable, D, plan
<1> QED
  BY <1>6, <1>7

-----------------------------------------------------------------------------
LEMMA QuadBefore ==
    ASSUME NEW a \in Int, NEW b \in Int, NEW c \in Int, NEW d \in Int,
           NEW e \in Int, NEW f \in Int, NEW g \in Int, NEW h \in Int
    PROVE  Before(<<a, b, c, d>>, <<e, f, g, h>>) <=>
             \/ a < e
             \/ a = e /\ b < f
             \/ a = e /\ b = f /\ c < g
             \/ a = e /\ b = f /\ c = g /\ d < h
<1> DEFINE k == <<a, b, c, d>>
           l == <<e, f, g, h>>
<1>1. /\ DOMAIN k = 1..4 /\ k[1] = a /\ k[2] = b /\ k[3] = c /\ k[4] = d
      /\ l[1] = e /\ l[2] = f /\ l[3] = g /\ l[4] = h
  OBVIOUS
<1> HIDE DEF k, l
<1>2. Before(k, l) <=> \E i \in 1..4 : k[i] < l[i] /\ \A j \in 1..(i - 1) : k[j] = l[j]
  BY <1>1 DEF Before
<1>3. Before(k, l) <=>
             \/ k[1] < l[1]
             \/ k[1] = l[1] /\ k[2] < l[2]
             \/ k[1] = l[1] /\ k[2] = l[2] /\ k[3] < l[3]
             \/ k[1] = l[1] /\ k[2] = l[2] /\ k[3] = l[3] /\ k[4] < l[4]
  <2> DEFINE Agree(i) == \A j \in 1..(i - 1) : k[j] = l[j]
  <2>1. /\ Agree(1)
        /\ Agree(2) <=> k[1] = l[1]
        /\ Agree(3) <=> k[1] = l[1] /\ k[2] = l[2]
        /\ Agree(4) <=> k[1] = l[1] /\ k[2] = l[2] /\ k[3] = l[3]
    <3>1. \A j \in Int : /\ j \notin 1..(1 - 1)
                         /\ j \in 1..(2 - 1) <=> j = 1
                         /\ j \in 1..(3 - 1) <=> j = 1 \/ j = 2
                         /\ j \in 1..(4 - 1) <=> j = 1 \/ j = 2 \/ j = 3
      OBVIOUS
    <3> QED
      BY <3>1
  <2>2. Before(k, l) <=> \E i \in 1..4 : k[i] < l[i] /\ Agree(i)
    BY <1>2
  <2>3. \A i \in Int : i \in 1..4 <=> i = 1 \/ i = 2 \/ i = 3 \/ i = 4
    OBVIOUS
  <2> HIDE DEF Agree
  <2> QED
    BY <2>1, <2>2, <2>3
<1> QED
  BY <1>1, <1>3 DEF k, l

LEMMA BoardRanks ==
    /\ _SEVERITY_RANK["overdue"] = 1 /\ _SEVERITY_RANK["due_soon"] = 2
    /\ _SEVERITY_RANK["blocked_external"] = 3 /\ _SEVERITY_RANK["on_track"] = 4
<1> DEFINE O == SEVERITY_ORDER
<1>1. /\ DOMAIN O = 1..4 /\ O[1] = "overdue" /\ O[2] = "due_soon"
      /\ O[3] = "blocked_external" /\ O[4] = "on_track"
  BY DEF SEVERITY_ORDER
<1> HIDE DEF O
<1>2. \A c \in Range(O) : _SEVERITY_RANK[c] = CHOOSE i \in DOMAIN O : O[i] = c
  BY DEF _SEVERITY_RANK, O
<1>3. \A i \in 1..4 : O[i] \in Range(O)
  BY <1>1 DEF Range
<1>4. ASSUME NEW i \in 1..4 PROVE _SEVERITY_RANK[O[i]] = i
  <2>1. \A j \in DOMAIN O : O[j] = O[i] => j = i
    BY <1>1
  <2>2. (CHOOSE j \in DOMAIN O : O[j] = O[i]) = i
    BY <1>1, <2>1
  <2>3. _SEVERITY_RANK[O[i]] = CHOOSE j \in DOMAIN O : O[j] = O[i]
    BY <1>2, <1>3, Zenon
  <2> QED
    BY <2>2, <2>3, Zenon
<1> QED
  BY <1>1, <1>4

\* What one assessment says.
LEMMA AssessedAs ==
    ASSUME NEW m \in Milestone, date \in Int
    PROVE  LET a == assess_milestone(m, date)
               days == m.due - date
           IN  /\ a.milestone_id = m.id /\ a.days_until_due = days /\ days \in Int
               /\ a.classification \in {"overdue", "due_soon", "blocked_external", "on_track"}
               /\ a.classification = "on_track" <=> ~(m.blocked \/ days <= DUE_SOON_DAYS)
<1> DEFINE a == assess_milestone(m, date)
           days == m.due - date
<1>1. m.due \in Int /\ m.blocked \in BOOLEAN
  BY DEF Milestone
<1>2. a.milestone_id = m.id /\ a.days_until_due = days /\ days \in Int
  BY <1>1 DEF assess_milestone
<1>3. a.classification = CASE m.blocked -> "blocked_external"
                           [] ~m.blocked /\ days < 0 -> "overdue"
                           [] ~m.blocked /\ days \in 0 .. 3 -> "due_soon"
                           [] OTHER -> "on_track"
  BY DEF assess_milestone, DUE_SOON_DAYS
<1> DEFINE Goal == /\ a.classification \in {"overdue", "due_soon", "blocked_external", "on_track"}
                   /\ a.classification = "on_track" <=> ~(m.blocked \/ days <= 3)
<1> HIDE DEF a, days
<1>4. days \in 0 .. 3 <=> days >= 0 /\ days <= 3
  BY <1>2
<1>5. ASSUME m.blocked PROVE Goal
  BY <1>3, <1>5
<1>6. ASSUME ~m.blocked, days < 0 PROVE Goal
  BY <1>2, <1>3, <1>6
<1>7. ASSUME ~m.blocked, days >= 0, days <= 3 PROVE Goal
  BY <1>2, <1>3, <1>4, <1>7
<1>8. ASSUME ~m.blocked, days > 3 PROVE Goal
  BY <1>2, <1>3, <1>4, <1>8
<1>9. Goal
  <2> HIDE DEF Goal
  <2> QED
    BY <1>1, <1>2, <1>5, <1>6, <1>7, <1>8
<1> QED
  BY <1>2, <1>9 DEF a, days, DUE_SOON_DAYS

\* The places of the milestones that need attention, and the worklist entry of each.
Needing == {i \in DOMAIN portfolio :
              /\ portfolio[i].status = "pending"
              /\ assess_milestone(portfolio[i], date).classification \in QUEUE_CLASSES}

Item(a) == [transaction_id |-> (CHOOSE m \in Range(portfolio) : m.id = a.milestone_id).txn,
            milestone_id |-> a.milestone_id,
            classification |-> a.classification,
            days_until_due |-> a.days_until_due]
Entry(i) == Item(assess_milestone(portfolio[i], date))
Entries == {Entry(i) : i \in Needing}

Sound == /\ portfolio \in Seq(Milestone) /\ date \in Int
         /\ \A i, j \in DOMAIN portfolio : portfolio[i].id = portfolio[j].id => i = j

LEMMA PortfolioFacts ==
    ASSUME Sound
    PROVE  /\ DOMAIN portfolio = 1..Len(portfolio) /\ Len(portfolio) \in Nat
           /\ \A i \in DOMAIN portfolio : /\ portfolio[i] \in Milestone
                                          /\ portfolio[i].id \in Int /\ portfolio[i].txn \in Int
                                          /\ portfolio[i].due \in Int
                                          /\ portfolio[i].blocked \in BOOLEAN
<1>1. /\ DOMAIN portfolio = 1..Len(portfolio) /\ Len(portfolio) \in Nat
      /\ \A i \in DOMAIN portfolio : portfolio[i] \in Milestone
  BY DEF Sound
<1> QED
  BY <1>1 DEF Milestone

LEMMA EntryFacts ==
    ASSUME Sound, NEW i \in Needing
    PROVE  /\ Entry(i).milestone_id = portfolio[i].id
           /\ Entry(i).days_until_due = portfolio[i].due - date
           /\ Entry(i).classification = assess_milestone(portfolio[i], date).classification
           /\ Entry(i).classification \in {"overdue", "due_soon", "blocked_external"}
           /\ Entry(i).milestone_id \in Int /\ Entry(i).days_until_due \in Int
           /\ Entry(i).transaction_id \in Int
<1> DEFINE a == assess_milestone(portfolio[i], date)
           m == CHOOSE n \in Range(portfolio) : n.id = a.milestone_id
<1>1. i \in DOMAIN portfolio /\ a.classification \in {"overdue", "due_soon", "blocked_external"}
  BY DEF Needing, QUEUE_CLASSES
<1>2. portfolio[i] \in Milestone /\ portfolio[i].id \in Int /\ portfolio[i].due \in Int
  BY <1>1, PortfolioFacts
<1>3. /\ a.milestone_id = portfolio[i].id /\ a.days_until_due = portfolio[i].due - date
      /\ portfolio[i].due - date \in Int
  <2>1. date \in Int
    BY DEF Sound
  <2> QED
    BY <1>2, <2>1, AssessedAs
<1> HIDE DEF a
<1>4. m \in Range(portfolio)
  <2>1. portfolio[i] \in Range(portfolio) /\ portfolio[i].id = a.milestone_id
    BY <1>1, <1>3 DEF Range
  <2> QED
    BY <2>1
<1>5. m.txn \in Int
  <2>1. \A n \in Range(portfolio) : n.txn \in Int
    BY PortfolioFacts DEF Range
  <2> HIDE DEF m
  <2> QED
    BY <1>4, <2>1
<1>6. Entry(i) = [transaction_id |-> m.txn, milestone_id |-> a.milestone_id,
                  classification |-> a.classification, days_until_due |-> a.days_until_due]
  BY DEF Entry, Item, a
<1> HIDE DEF m
<1> QED
  BY <1>1, <1>2, <1>3, <1>5, <1>6 DEF a

LEMMA EntriesFinite == ASSUME Sound PROVE IsFiniteSet(Entries)
<1> DEFINE f == [i \in Needing |-> Entry(i)]
<1>1. Needing \in SUBSET (1..Len(portfolio)) /\ Len(portfolio) \in Nat
  BY PortfolioFacts DEF Needing
<1>2. IsFiniteSet(1..Len(portfolio))
  BY <1>1, FS_Interval
<1>3. IsFiniteSet(Needing)
  BY <1>1, <1>2, FS_Subset
<1>4. f \in Surjection(Needing, Entries)
  BY DEF Surjection, Entries
<1> HIDE DEF f
<1> QED
  BY <1>3, <1>4, FS_Surjection

\* An entry is known by its milestone.
LEMMA EntryById ==
    ASSUME Sound, NEW x \in Entries, NEW y \in Entries, x.milestone_id = y.milestone_id
    PROVE  x = y
<1>1. PICK i \in Needing : x = Entry(i)
  BY DEF Entries
<1>2. PICK j \in Needing : y = Entry(j)
  BY DEF Entries
<1>3. portfolio[i].id = portfolio[j].id
  BY <1>1, <1>2, EntryFacts
<1>4. i \in DOMAIN portfolio /\ j \in DOMAIN portfolio
  BY DEF Needing
<1> QED
  BY <1>1, <1>2, <1>3, <1>4 DEF Sound

Urgent(x, y) == Before(_urgency_key(x), _urgency_key(y))
Rank(x) == _SEVERITY_RANK[x.classification]

LEMMA EntryTypes ==
    ASSUME Sound, NEW x \in Entries
    PROVE  /\ Rank(x) \in Int /\ x.days_until_due \in Int /\ x.transaction_id \in Int
           /\ x.milestone_id \in Int
           /\ x.classification \in {"overdue", "due_soon", "blocked_external"}
           /\ Rank(x) \in 1..3
<1>1. PICK i \in Needing : x = Entry(i)
  BY DEF Entries
<1>2. /\ x.classification \in {"overdue", "due_soon", "blocked_external"}
      /\ x.days_until_due \in Int /\ x.transaction_id \in Int /\ x.milestone_id \in Int
  BY <1>1, EntryFacts
<1> QED
  BY <1>2, BoardRanks DEF Rank

LEMMA UrgentMeans ==
    ASSUME Sound, NEW x \in Entries, NEW y \in Entries
    PROVE  Urgent(x, y) <=>
             \/ Rank(x) < Rank(y)
             \/ Rank(x) = Rank(y) /\ x.days_until_due < y.days_until_due
             \/ /\ Rank(x) = Rank(y) /\ x.days_until_due = y.days_until_due
                /\ x.transaction_id < y.transaction_id
             \/ /\ Rank(x) = Rank(y) /\ x.days_until_due = y.days_until_due
                /\ x.transaction_id = y.transaction_id /\ x.milestone_id < y.milestone_id
<1>1. /\ _urgency_key(x) = <<Rank(x), x.days_until_due, x.transaction_id, x.milestone_id>>
      /\ _urgency_key(y) = <<Rank(y), y.days_until_due, y.transaction_id, y.milestone_id>>
  BY DEF _urgency_key, Rank
<1>2. /\ Rank(x) \in Int /\ x.days_until_due \in Int /\ x.transaction_id \in Int
      /\ x.milestone_id \in Int
  BY EntryTypes
<1>3. /\ Rank(y) \in Int /\ y.days_until_due \in Int /\ y.transaction_id \in Int
      /\ y.milestone_id \in Int
  BY EntryTypes
<1>4. Urgent(x, y) <=>
        Before(<<Rank(x), x.days_until_due, x.transaction_id, x.milestone_id>>,
                     <<Rank(y), y.days_until_due, y.transaction_id, y.milestone_id>>)
  BY <1>1, Zenon DEF Urgent
<1> DEFINE a == Rank(x)
           b == x.days_until_due
           c == x.transaction_id
           d == x.milestone_id
           e == Rank(y)
           f == y.days_until_due
           g == y.transaction_id
           h == y.milestone_id
<1>5. /\ a \in Int /\ b \in Int /\ c \in Int /\ d \in Int
      /\ e \in Int /\ f \in Int /\ g \in Int /\ h \in Int
      /\ Urgent(x, y) <=> Before(<<a, b, c, d>>, <<e, f, g, h>>)
  BY <1>2, <1>3, <1>4
<1> HIDE DEF a, b, c, d, e, f, g, h
<1>6. Urgent(x, y) <=> \/ a < e
                       \/ a = e /\ b < f
                       \/ a = e /\ b = f /\ c < g
                       \/ a = e /\ b = f /\ c = g /\ d < h
  BY <1>5, QuadBefore, SMTT(60)
<1> QED
  BY <1>6 DEF a, b, c, d, e, f, g, h

Urgency == {e \in Entries \X Entries : Urgent(e[1], e[2])}

LEMMA UrgencyOrders == ASSUME Sound PROVE Orders(Urgency, Entries)
<1>1. \A x, y \in Entries : <<x, y>> \in Urgency <=> Urgent(x, y)
  BY DEF Urgency
<1>2. \A x \in Entries : /\ Rank(x) \in Int /\ x.days_until_due \in Int
                         /\ x.transaction_id \in Int /\ x.milestone_id \in Int
  BY EntryTypes
<1>3. ASSUME NEW x \in Entries PROVE ~Urgent(x, x)
  BY <1>2, UrgentMeans
<1>4. ASSUME NEW x \in Entries, NEW y \in Entries, NEW z \in Entries, Urgent(x, y), Urgent(y, z)
      PROVE  Urgent(x, z)
  BY <1>2, <1>4, UrgentMeans
<1>5. ASSUME NEW x \in Entries, NEW y \in Entries, ~Urgent(x, y), ~Urgent(y, x) PROVE x = y
  <2>1. x.milestone_id = y.milestone_id
    BY <1>2, <1>5, UrgentMeans
  <2> QED
    BY <2>1, EntryById
<1> QED
  BY <1>1, <1>3, <1>4, <1>5 DEF Orders

\* build_deadline_queue lists every entry, in the order of _urgency_key.
LEMMA QueueFacts ==
    ASSUME Sound
    PROVE  /\ queue \in [1..Cardinality(Entries) -> Entries]
           /\ Cardinality(Entries) \in Nat
           /\ \A i, j \in 1..Cardinality(Entries) : i < j => Urgent(queue[i], queue[j])
           /\ \A x \in Entries : \E i \in 1..Cardinality(Entries) : queue[i] = x
<1> DEFINE n == Cardinality(Entries)
           Good(q) == \A i, j \in DOMAIN q : i < j => Urgent(q[i], q[j])
<1>1. queue = CHOOSE q \in [1..n -> Entries] : Good(q)
  <2> DEFINE A == assess_milestones(portfolio, date)
  <2>1. Entries = {Item(a) : a \in {b \in Range(A) : b.classification \in QUEUE_CLASSES}}
    <3>1. Range(A) = {assess_milestone(portfolio[i], date) :
                              i \in {j \in DOMAIN portfolio : portfolio[j].status = "pending"}}
      BY DEF assess_milestones, Range
    <3> QED
      BY <3>1 DEF Entries, Entry, Needing
  <2> QED
    BY <2>1, Zenon DEF queue, build_deadline_queue, Item, Urgent
<1>2. IsFiniteSet(Entries) /\ Orders(Urgency, Entries)
  BY EntriesFinite, UrgencyOrders
<1>3. n \in Nat
  BY <1>2, FS_CardinalityType
<1>4. \A x, y \in Entries : <<x, y>> \in Urgency <=> Urgent(x, y)
  BY DEF Urgency
<1>5. ASSUME NEW q \in [1..n -> Entries] PROVE Good(q) <=> Sorted(q, Urgency)
  BY <1>4 DEF Sorted
<1>6. \E q \in [1..n -> Entries] : Good(q)
  <2>1. \E q \in [1..n -> Entries] : Sorted(q, Urgency)
    BY <1>2, SortedExists
  <2> QED
    BY <1>5, <2>1
<1> DEFINE Q == queue
<1> HIDE DEF Q, n
<1>7. Q \in [1..n -> Entries] /\ Good(Q)
  <2> HIDE DEF Good
  <2> QED
    BY <1>1, <1>6 DEF Q
<1>8. Sorted(Q, Urgency)
  BY <1>5, <1>7
<1>9. \A x \in Entries : \E i \in 1..n : Q[i] = x
  BY <1>2, <1>7, <1>8, SortedIsComplete DEF n
<1>10. \A i, j \in 1..n : i < j => Urgent(Q[i], Q[j])
  BY <1>7
<1> QED
  BY <1>3, <1>7, <1>9, <1>10 DEF n, Q

\* Who is on the list, and the class its head has.
LEMMA ListedOnce ==
    ASSUME Sound
    PROVE  {queue[i].milestone_id : i \in DOMAIN queue} =
             {m.id : m \in {n \in Range(portfolio) :
                              /\ n.status = "pending"
                              /\ n.blocked \/ n.due - date <= DUE_SOON_DAYS}}
<1> DEFINE N == Cardinality(Entries)
           Q == queue
           Attention(n) == n.status = "pending" /\ (n.blocked \/ n.due - date <= DUE_SOON_DAYS)
<1>1. /\ Q \in [1..N -> Entries] /\ DOMAIN Q = 1..N
      /\ \A x \in Entries : \E i \in 1..N : Q[i] = x
  BY QueueFacts
<1> HIDE DEF N, Q
<1>2. ASSUME NEW i \in DOMAIN portfolio PROVE i \in Needing <=> Attention(portfolio[i])
  <2> DEFINE c == assess_milestone(portfolio[i], date).classification
  <2>1. /\ c \in {"overdue", "due_soon", "blocked_external", "on_track"}
        /\ c = "on_track" <=>
             ~(portfolio[i].blocked \/ portfolio[i].due - date <= DUE_SOON_DAYS)
    <3>1. portfolio[i] \in Milestone /\ date \in Int
      BY PortfolioFacts DEF Sound
    <3> QED
      BY <3>1, AssessedAs
  <2>2. i \in Needing <=> portfolio[i].status = "pending" /\ c \in QUEUE_CLASSES
    BY DEF Needing
  <2> HIDE DEF c
  <2>3. c \in QUEUE_CLASSES <=> c # "on_track"
    BY <2>1 DEF QUEUE_CLASSES
  <2> QED
    BY <2>1, <2>2, <2>3
<1>3. ASSUME NEW i \in 1..N PROVE \E m \in Range(portfolio) : Attention(m) /\ m.id = Q[i].milestone_id
  <2>1. PICK j \in Needing : Q[i] = Entry(j)
    BY <1>1 DEF Entries
  <2>2. j \in DOMAIN portfolio /\ Q[i].milestone_id = portfolio[j].id
    BY <2>1, EntryFacts DEF Needing
  <2>3. portfolio[j] \in Range(portfolio)
    BY <2>2 DEF Range
  <2> HIDE DEF Attention
  <2> QED
    BY <1>2, <2>2, <2>3
<1>4. ASSUME NEW m \in Range(portfolio), Attention(m) PROVE \E i \in 1..N : Q[i].milestone_id = m.id
  <2>1. PICK j \in DOMAIN portfolio : m = portfolio[j]
    BY DEF Range
  <2>2. j \in Needing
    BY <1>2, <1>4, <2>1
  <2>3. Entry(j) \in Entries /\ Entry(j).milestone_id = m.id
    BY <2>1, <2>2, EntryFacts DEF Entries
  <2> QED
    BY <1>1, <2>3
<1>5. {Q[i].milestone_id : i \in DOMAIN Q} = {m.id : m \in {n \in Range(portfolio) : Attention(n)}}
  <2> HIDE DEF Attention
  <2> DEFINE L == {Q[i].milestone_id : i \in DOMAIN Q}
             M == {m.id : m \in {n \in Range(portfolio) : Attention(n)}}
  <2>1. ASSUME NEW x \in L PROVE x \in M
    <3>1. PICK i \in 1..N : x = Q[i].milestone_id
      BY <1>1
    <3>2. PICK m \in Range(portfolio) : Attention(m) /\ m.id = x
      BY <1>3, <3>1
    <3> QED
      BY <3>2
  <2>2. ASSUME NEW x \in M PROVE x \in L
    <3>1. PICK m \in Range(portfolio) : Attention(m) /\ m.id = x
      OBVIOUS
    <3>2. PICK i \in 1..N : Q[i].milestone_id = x
      BY <1>4, <3>1
    <3> QED
      BY <1>1, <3>2
  <2> HIDE DEF L, M
  <2>3. L = M
    BY <2>1, <2>2
  <2> QED
    BY <2>3 DEF L, M
<1> QED
  BY <1>5 DEF Q

LEMMA HeadIsWorst ==
    ASSUME Sound
    PROVE  worst_classification(assess_milestones(portfolio, date)) =
             IF queue = <<>> THEN "on_track" ELSE Head(queue).classification
<1> DEFINE N == Cardinality(Entries)
           Q == queue
           A == assess_milestones(portfolio, date)
           present == {a.classification : a \in Range(A)}
           R(c) == _SEVERITY_RANK[c]
           Least(c) == \A d \in present : R(c) <= R(d)
           All == {"overdue", "due_soon", "blocked_external", "on_track"}
<1>1. /\ Q \in [1..N -> Entries] /\ N \in Nat
      /\ \A i, j \in 1..N : i < j => Urgent(Q[i], Q[j])
      /\ \A x \in Entries : \E i \in 1..N : Q[i] = x
  BY QueueFacts
<1>2. worst_classification(A) = IF present = {} THEN "on_track"
                                      ELSE CHOOSE c \in present : Least(c)
  BY DEF worst_classification
<1>3. present = {assess_milestone(portfolio[i], date).classification :
                   i \in {j \in DOMAIN portfolio : portfolio[j].status = "pending"}}
  BY DEF assess_milestones, Range
<1> HIDE DEF N, Q, A, present
<1>4. present \subseteq All
  <2>1. \A i \in DOMAIN portfolio : portfolio[i] \in Milestone
    BY PortfolioFacts
  <2>2. \A i \in DOMAIN portfolio : assess_milestone(portfolio[i], date).classification \in All
    BY <2>1, AssessedAs DEF Sound
  <2> QED
    BY <1>3, <2>2
<1>5. \A c, d \in All : R(c) \in Nat /\ (R(c) = R(d) => c = d) /\ R(c) <= 4 /\ R("on_track") = 4
  BY BoardRanks
<1>6. ASSUME NEW d \in present, d # "on_track" PROVE \E x \in Entries : x.classification = d
  <2>1. PICK i \in DOMAIN portfolio :
           portfolio[i].status = "pending" /\ d = assess_milestone(portfolio[i], date).classification
    BY <1>3
  <2>2. d \in QUEUE_CLASSES
    BY <1>4, <1>6 DEF QUEUE_CLASSES
  <2>3. i \in Needing
    BY <2>1, <2>2 DEF Needing
  <2> QED
    BY <2>1, <2>3, EntryFacts DEF Entries
<1>7. ASSUME NEW x \in Entries PROVE x.classification \in present
  <2>1. PICK i \in Needing : x = Entry(i)
    BY DEF Entries
  <2>2. x.classification = assess_milestone(portfolio[i], date).classification
    BY <2>1, EntryFacts
  <2> QED
    BY <1>3, <2>2 DEF Needing
<1>8. CASE Entries = {}
  <2>1. \A d \in present : d = "on_track"
    BY <1>6, <1>8
  <2>2. worst_classification(A) = "on_track"
    <3>1. CASE present = {}
      BY <1>2, <3>1
    <3>2. CASE present # {}
      <4>1. "on_track" \in present /\ Least("on_track")
        BY <1>5, <2>1, <3>2
      <4>2. (CHOOSE c \in present : Least(c)) \in present
        <5> HIDE DEF Least
        <5> QED
          BY <4>1
      <4> QED
        BY <1>2, <2>1, <3>2, <4>2
    <3> QED
      BY <3>1, <3>2
  <2>3. N = 0
    BY <1>8, FS_EmptySet DEF N
  <2>4. Q = <<>>
    BY <1>1, <2>3
  <2> QED
    BY <2>2, <2>4 DEF Q, A
<1>9. CASE Entries # {}
  <2>1. 1 \in 1..N
    BY <1>1, <1>9
  <2>2. Q \in Seq(Entries) /\ Len(Q) = N /\ Q # <<>> /\ Head(Q) = Q[1] /\ Q[1] \in Entries
    <3>1. Q \in Seq(Entries) /\ Len(Q) = N
      BY <1>1
    <3> QED
      BY <2>1, <3>1
  <2> DEFINE c == Q[1].classification
  <2>3. c \in present
    BY <1>7, <2>2
  <2>4. ASSUME NEW x \in Entries PROVE R(c) <= R(x.classification)
    <3>1. PICK i \in 1..N : Q[i] = x
      BY <1>1
    <3>2. i = 1 \/ Urgent(Q[1], x)
      BY <1>1, <2>1, <3>1
    <3>3. Rank(Q[1]) \in Int /\ Rank(x) \in Int
      BY <2>2, EntryTypes
    <3>4. Rank(Q[1]) <= Rank(x)
      BY <2>2, <3>1, <3>2, <3>3, UrgentMeans
    <3> QED
      BY <3>4 DEF Rank
  <2> HIDE DEF c
  <2>5. Least(c)
    <3> SUFFICES ASSUME NEW d \in present PROVE R(c) <= R(d)
      OBVIOUS
    <3>1. c \in All /\ d \in All
      BY <1>4, <2>3
    <3>2. CASE d = "on_track"
      BY <1>5, <3>1, <3>2
    <3>3. CASE d # "on_track"
      BY <1>6, <2>4, <3>3
    <3> QED
      BY <3>2, <3>3
  <2>6. \A d \in present : Least(d) => d = c
    <3> SUFFICES ASSUME NEW d \in present, Least(d) PROVE d = c
      OBVIOUS
    <3>1. R(d) <= R(c) /\ R(c) <= R(d) /\ c \in All /\ d \in All
      BY <1>4, <2>3, <2>5
    <3> HIDE DEF R
    <3> QED
      BY <1>5, <3>1
  <2>7. worst_classification(A) = c
    <3> HIDE DEF Least
    <3> QED
      BY <1>2, <2>3, <2>5, <2>6
  <2> QED
    BY <2>2, <2>7 DEF c, Q, A
<1> QED
  BY <1>8, <1>9

LEMMA QueueIsOrdered == ASSUME Sound PROVE WorklistOrdered
<1> DEFINE N == Cardinality(Entries)
           Q == queue
<1>1. /\ Q \in [1..N -> Entries] /\ DOMAIN Q = 1..N
      /\ \A i, j \in 1..N : i < j => Urgent(Q[i], Q[j])
  BY QueueFacts
<1>2. ASSUME NEW i \in DOMAIN Q, NEW j \in DOMAIN Q, i < j
      PROVE  /\ Q[i].milestone_id # Q[j].milestone_id
             /\ Q[j].classification = "overdue" => Q[i].days_until_due <= Q[j].days_until_due
             /\ Q[i].classification = Q[j].classification =>
                  Q[i].days_until_due <= Q[j].days_until_due
  <2> HIDE DEF N, Q
  <2>1. Q[i] \in Entries /\ Q[j] \in Entries /\ Urgent(Q[i], Q[j])
    BY <1>1, <1>2
  <2>2. PICK x \in Entries, y \in Entries : x = Q[i] /\ y = Q[j] /\ Urgent(x, y)
    BY <2>1
  <2>3. /\ Rank(x) \in 1..3 /\ x.days_until_due \in Int /\ x.milestone_id \in Int
        /\ Rank(y) \in 1..3 /\ y.days_until_due \in Int /\ y.milestone_id \in Int
        /\ x.transaction_id \in Int
    BY EntryTypes
  <2>4. x.milestone_id # y.milestone_id
    <3>1. ~Urgent(x, x)
      BY <2>3, UrgentMeans
    <3> QED
      BY <2>2, <3>1, EntryById
  <2>5. Rank(x) = Rank(y) => x.days_until_due <= y.days_until_due
    BY <2>2, <2>3, UrgentMeans
  <2>6. Rank(x) <= Rank(y)
    BY <2>2, <2>3, UrgentMeans
  <2>7. y.classification = "overdue" => Rank(y) = 1
    BY BoardRanks DEF Rank
  <2>8. x.classification = y.classification => Rank(x) = Rank(y)
    BY DEF Rank
  <2>9. y.classification = "overdue" => Rank(x) = Rank(y)
    BY <2>3, <2>6, <2>7
  <2> QED
    BY <2>2, <2>4, <2>5, <2>8, <2>9
<1> QED
  BY <1>2, ListedOnce, HeadIsWorst DEF WorklistOrdered

-----------------------------------------------------------------------------
\* Days go by, the tables stay.
LEMMA BoardState ==
    WorklistSpec => [](portfolio \in Portfolios /\ date \in Int
                       /\ close_date \in Closes \cup {NoDate})
<1> DEFINE State == portfolio \in Portfolios /\ date \in Int /\ close_date \in Closes \cup {NoDate}
<1>1. WorklistInit => State
  BY WorklistAssumptions DEF WorklistInit, WorklistFits
<1>2. State /\ [NextDay]_worklist_vars => State'
  BY DEF NextDay, worklist_vars
<1> QED
  BY <1>1, <1>2, PTL DEF WorklistSpec

\* build_deadline_queue and worst_classification, for every portfolio of every length
\* and every day: the worklist is complete, without repetition, in order of severity
\* and date, and its head has the class the workflow routes on.
THEOREM WorklistOrderedCorrect == WorklistSpec => []WorklistOrdered
<1>1. portfolio \in Portfolios /\ date \in Int /\ close_date \in Closes \cup {NoDate}
        => WorklistOrdered
  BY WorklistAssumptions, QueueIsOrdered DEF Sound, WorklistFits
<1> QED
  BY <1>1, BoardState, PTL

\* plan_reminder_email, for every portfolio and every list of parties.
THEOREM EmailIsMostUrgentReachableCorrect == WorklistSpec => []EmailIsMostUrgentReachable
<1>1. portfolio \in Portfolios /\ date \in Int /\ close_date \in Closes \cup {NoDate}
        => EmailIsMostUrgentReachable
  BY WorklistAssumptions, EmailsTheMostUrgent DEF WorklistFits
<1> QED
  BY <1>1, BoardState, PTL

\* build_open_transaction with the default timeline, for every pair of dates.
THEOREM OpensWhenTimelineFitsCorrect == WorklistSpec => []OpensWhenTimelineFits
<1>1. portfolio \in Portfolios /\ date \in Int /\ close_date \in Closes \cup {NoDate}
        => OpensWhenTimelineFits
  <2>1. NoDate \in Int
    BY DEF NoDate
  <2> QED
    BY <2>1, WorklistAssumptions, OpensWhenItFits DEF WorklistFits
<1> QED
  BY <1>1, BoardState, PTL
=============================================================================
