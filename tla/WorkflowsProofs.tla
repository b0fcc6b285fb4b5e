--------------------------- MODULE WorkflowsProofs ---------------------------
(***************************************************************************)
(* For any number of runs, decide requests and calls, any transcripts and  *)
(* listings, however the runs interleave with each other, with the MLS and *)
(* with the people who decide, with nodes that fail and decisions that     *)
(* overlap.                                                                *)
(*                                                                         *)
(* RunInv says what a run has done by the node it is at and DecideInv what *)
(* a decide request may do at its own; SoloInv adds what holds where no    *)
(* two decisions on one approval overlap.  CallInv is about the call       *)
(* record the runs of one call share: every run wipes its extraction when  *)
(* it ingests the call, and owes it one until it saves.                    *)
(***************************************************************************)
EXTENDS Workflows, SequenceTheorems, TLAPS

MarketingTasks == {"publish_copy", "flyer", "open_house", "notify_luxury"}
Effects == MarketingTasks \cup {"note", "call_log", "hot_task", "email"}
Outcomes == COMPLETED_VALUES \cup
    {"", "no_transcript", "hot_signal_dismissed", "followup_dismissed", "not_found",
     "not_eligible", "rejected"}
Rows == {"none", "pending", "sent", "failed", "rejected"}
GateStates == {"none", "pending"} \cup Verdicts

RunRecords ==
    [node : Nodes, call : Calls \cup {None}, transcript : Transcripts \cup {<<>>},
     extracted : Extracted \cup {None}, record : CallRecord \cup {None},
     draft : BOOLEAN, plan : Seq(MarketingTasks), outcome : Outcomes]

DecideRecords ==
    [of : Runs \cup {None}, verdict : Verdicts, node : InFlight \cup Over \cup {"lost"},
     plan : Seq(MarketingTasks), left : Seq(MarketingTasks)]

\* The types of what the invariant speaks of.
Typed ==
    /\ call \in [Calls -> [state : {"none", "placed", "ended"}, said : Transcripts \cup {<<>>}]]
    /\ records \in [Calls -> CallRecord \cup {None}]
    /\ feedback \in [Calls -> Extracted \cup {None}]
    /\ effects \in [Runs -> SUBSET Effects]
    /\ email \in [Runs -> Rows]
    /\ gate \in [Runs -> GateStates]
    /\ run \in [Runs -> RunRecords]
    /\ decide \in [Decisions -> DecideRecords]

\* The nodes between the record's wipe and its save, those of a run that has done
\* nothing outward, and those before any gate.
Owing == {"extract_structured", "upsert_feedback", "get_record", "save_record"}
Clean == Owing \cup {"idle", "ingest_call", "sync_crm", "intake", "make_draft"}
Ungated == Clean \cup {"log_call", "draft_followup_email", "finish_synced"}

\* The nodes of a decide request that an approval alone leads to, and by gate.
Allowed == {"create_hot_task", "send_followup_email", "port_send", "save_sent",
            "publish_tasks", "create_task"}
Heating == {"create_hot_task", "dismiss_hot"}
Mailing == {"send_followup_email", "port_send", "save_sent", "dismiss_followup_email",
            "save_rejected"}
Publishing == {"publish_tasks", "create_task", "handle_rejection"}

\* What may have been done outward behind each gate, and in which state the email's
\* row is then.
Hot(row, did) ==
    row = "none" /\ {"note", "call_log"} \subseteq did /\ did \subseteq {"note", "call_log", "hot_task"}
Mail(row, did) ==
    row # "none" /\ {"note", "call_log"} \subseteq did /\ did \subseteq {"note", "call_log", "email"}
Marketing(row, did) ==
    row = "none" /\ did \subseteq MarketingTasks

\* What a run has done by the node it is at.
NodeFits(p, did, row, verdict) ==
    /\ p.node \in Clean => did = {}
    /\ p.node = "log_call" => did = {"note"}
    /\ p.node \in {"draft_followup_email", "finish_synced"} => did = {"note", "call_log"}
    /\ p.node \in Ungated => verdict = "none" /\ row = "none"
    /\ p.node = "notify_agent" => Hot(row, did)
    /\ p.node = "approve_outbound_message" => Mail(row, did)
    /\ p.node = "approve_marketing" => Marketing(row, did) /\ (verdict # "none" => p.draft)
    /\ verdict = "none" => did \cap Gated = {} /\ row \in {"none", "pending"}
    /\ verdict # "none" => p.node \in Gates \cup {"end"}

\* What a run that has ended under an outcome has done.
OutcomeFits(p, did, row, verdict) ==
    /\ p.outcome # "" => p.node = "end"
    /\ p.outcome = "published" => p.draft /\ p.plan # <<>> /\ Range(p.plan) \subseteq did
    /\ p.outcome = "agent_notified" => did = {"note", "call_log", "hot_task"}
    /\ p.outcome = "synced" => verdict = "none" /\ row = "none" /\ did = {"note", "call_log"}
    /\ p.outcome \in {"not_eligible", "no_transcript"} => verdict = "none" /\ did = {}

\* What a decide request may do at its node to the run it is on.
DecideFits(q, p, did, row) ==
    /\ q.node \in Allowed => q.verdict = "approved"
    /\ q.node \in Heating => Hot(row, did)
    /\ q.node \in Mailing => Mail(row, did)
    /\ q.node \in Publishing => Marketing(row, did) /\ p.draft
    /\ q.node = "save_sent" => "email" \in did
    /\ q.node = "create_task" => /\ q.plan # <<>> /\ q.left # <<>>
                                 /\ Range(q.plan) \subseteq did \cup Range(q.left)

RunOK(r) == /\ NodeFits(run[r], effects[r], email[r], gate[r])
            /\ OutcomeFits(run[r], effects[r], email[r], gate[r])

RunInv == \A r \in Runs : RunOK(r) /\ (effects[r] \cap Gated # {} => Approved(r))

DecideOK(d) ==
    decide[d].node # "idle" =>
        LET r == decide[d].of IN
        r \in Runs /\ gate[r] # "none" /\ DecideFits(decide[d], run[r], effects[r], email[r])

DecideInv == \A d \in Decisions : DecideOK(d)

\* Where decisions do not overlap: what the row of an approval tells of its run.
RowFits(p, did, row, verdict) ==
    /\ verdict = "pending" =>
         p.node \in Gates /\ did \cap Gated = {} /\ row \in {"none", "pending"}
    /\ did \cap Gated # {} => verdict = "approved" /\ row # "rejected"
    /\ p.outcome = "published" => did = Range(p.plan)
    /\ p.outcome = "followup_sent" => row = "sent" /\ did = {"note", "call_log", "email"}
    /\ p.outcome \in {"rejected", "not_found"} => did = {}

\* And what a decide request finds at its node: the run at its gate, the row as it
\* marked it, and until its own first effect nothing done yet.
SoloFits(q, p, did, row, verdict) ==
    /\ p.node \in Gates
    /\ q.node = "checked" => verdict = "pending"
    /\ q.node # "checked" => verdict = q.verdict
    /\ q.node \notin {"create_task", "save_sent"} =>
         did \cap Gated = {} /\ row \in {"none", "pending"}
    /\ q.node = "save_sent" => row = "pending"
    /\ q.node = "create_task" => did \cup Range(q.left) = Range(q.plan)

RowOK(r) == RowFits(run[r], effects[r], email[r], gate[r])
SoloOK(d) ==
    decide[d].node \in InFlight =>
        LET r == decide[d].of IN SoloFits(decide[d], run[r], effects[r], email[r], gate[r])

SoloInv ==
    /\ \A r \in Runs : RowOK(r)
    /\ \A d \in Decisions : SoloOK(d)
    /\ \A d, e \in Decisions :
         /\ decide[d].node \in InFlight /\ decide[e].node \in InFlight
         /\ decide[d].of = decide[e].of
         => d = e

\* The run has wiped the record of its call and not saved it since.
Owes(r) == run[r].node \in Owing \/ (run[r].node = "raised" /\ "note" \notin effects[r])

\* The run has read its call's transcript.
Ingested(r) == run[r].node \in Owing \cup {"sync_crm", "log_call"} \/ "note" \in effects[r]

\* What a run knows of its call.
ReportOK(r) ==
    LET k == run[r].call IN
    /\ run[r].node = "idle" => k = None
    /\ k \in Calls =>
         /\ call[k].state = "ended"
         /\ run[r].transcript \in {call[k].said, <<>>}
    /\ Ingested(r) => k \in Calls /\ records[k] # None
    /\ run[r].node = "ingest_call" => k \in Calls
    /\ run[r].node \in Owing => run[r].transcript = call[k].said
    /\ run[r].node \in Owing \ {"extract_structured"} =>
         /\ run[r].extracted # None
         /\ ~llm => run[r].extracted = extract_feedback(call[k].said)
    /\ run[r].node \in {"get_record", "save_record"} => feedback[k] # None
    /\ run[r].node = "save_record" => /\ run[r].record # None
                                      /\ run[r].record.transcript = call[k].said

\* What is stored of a call.
RecordOK(k) ==
    /\ call[k].state # "ended" => records[k] = None /\ feedback[k] = None
    /\ ~llm => feedback[k] \in {None, extract_feedback(call[k].said)}
    /\ records[k] # None =>
         /\ records[k].transcript = call[k].said
         /\ records[k].extracted = None => \E r \in Runs : run[r].call = k /\ Owes(r)
         /\ records[k].extracted # None =>
              /\ feedback[k] # None
              /\ ~llm => records[k].extracted = extract_feedback(call[k].said)

CallInv == (\A r \in Runs : ReportOK(r)) /\ (\A k \in Calls : RecordOK(k))

IInv == Typed /\ RunInv /\ DecideInv /\ (~overlap => SoloInv) /\ CallInv

-----------------------------------------------------------------------------
\* Helpers.

LEMMA ExtractFact ==
    ASSUME NEW t
    PROVE  extract_feedback(t) \in Extracted
<1> DEFINE score == FoldLeft(LAMBDA acc, s : acc + (IF s.positive THEN 1 ELSE 0)
                                                 - (IF s.negative THEN 1 ELSE 0),
                             0, t)
           mood == IF score > 0 THEN "positive" ELSE IF score < 0 THEN "negative" ELSE "neutral"
           hot == \E i \in DOMAIN t : t[i].hot
<1>1. mood \in {"positive", "neutral", "negative"}
  <2> HIDE DEF score
  <2> QED OBVIOUS
<1>2. hot \in BOOLEAN
  OBVIOUS
<1>3. extract_feedback(t) = [sentiment |-> mood, hot_signal |-> hot]
  BY DEF extract_feedback
<1> HIDE DEF mood, hot
<1> QED
  BY <1>1, <1>2, <1>3 DEF Extracted

\* A list of tasks: its first and the rest.
LEMMA HeadTail ==
    ASSUME NEW s \in Seq(MarketingTasks), s # <<>>
    PROVE  /\ Head(s) \in MarketingTasks /\ Tail(s) \in Seq(MarketingTasks)
           /\ Range(s) = {Head(s)} \cup Range(Tail(s))
           /\ Len(s) = 1 => Range(Tail(s)) = {}
           /\ Len(s) # 1 => Tail(s) # <<>>
<1>1. Len(s) \in Nat \ {0} /\ DOMAIN s = 1 .. Len(s)
  OBVIOUS
<1>2. /\ Tail(s) \in Seq(MarketingTasks) /\ Len(Tail(s)) = Len(s) - 1
      /\ DOMAIN Tail(s) = 1 .. (Len(s) - 1)
      /\ \A i \in 1 .. (Len(s) - 1) : Tail(s)[i] = s[i + 1]
  BY <1>1
<1>3. Head(s) = s[1] /\ Head(s) \in MarketingTasks
  BY <1>1
<1>4. Range(s) \subseteq {Head(s)} \cup Range(Tail(s))
  <2> SUFFICES ASSUME NEW i \in 1 .. Len(s), i # 1
               PROVE  s[i] \in Range(Tail(s))
    BY <1>1, <1>3 DEF Range
  <2>1. i - 1 \in 1 .. (Len(s) - 1) /\ Tail(s)[i - 1] = s[(i - 1) + 1] /\ (i - 1) + 1 = i
    BY <1>1, <1>2
  <2>2. \E j \in DOMAIN Tail(s) : Tail(s)[j] = s[i]
    BY <1>2, <2>1
  <2> QED
    BY <2>2 DEF Range
<1>5. {Head(s)} \cup Range(Tail(s)) \subseteq Range(s)
  BY <1>1, <1>2, <1>3 DEF Range
<1>6. Len(s) = 1 => Range(Tail(s)) = {}
  BY <1>2 DEF Range
<1>7. Len(s) # 1 => Tail(s) # <<>>
  <2> DEFINE t == Tail(s)
  <2>1. Len(t) = Len(s) - 1 /\ Len(<<>>) = 0
    BY <1>2
  <2> HIDE DEF t
  <2>2. Len(s) # 1 => t # <<>>
    BY <1>1, <2>1
  <2> QED
    BY <2>2 DEF t
<1> QED
  BY <1>2, <1>3, <1>4, <1>5, <1>6, <1>7

LEMMA PlanFact ==
    ASSUME NEW l
    PROVE  plan_marketing_tasks(l) \in Seq(MarketingTasks) /\ plan_marketing_tasks(l) # <<>>
<1> DEFINE base == <<"publish_copy", "flyer", "open_house">>
           luxury == l.price # None /\ l.price >= LuxuryPrice
           more == IF luxury THEN <<"notify_luxury">> ELSE <<>>
<1>1. base \in Seq(MarketingTasks) /\ Len(base) = 3
  BY DEF MarketingTasks
<1>2. more \in Seq(MarketingTasks) /\ Len(more) \in Nat
  <2> HIDE DEF luxury
  <2>1. <<"notify_luxury">> \in Seq(MarketingTasks) /\ <<>> \in Seq(MarketingTasks)
    BY DEF MarketingTasks
  <2>2. more \in Seq(MarketingTasks)
    BY <2>1
  <2> HIDE DEF more
  <2> QED
    BY <2>2
<1>3. plan_marketing_tasks(l) = base \o more
  BY DEF plan_marketing_tasks
<1> HIDE DEF base, more
<1>4. base \o more \in Seq(MarketingTasks) /\ Len(base \o more) = Len(base) + Len(more)
  BY <1>1, <1>2, ConcatProperties
<1>5. Len(<<>>) = 0
  OBVIOUS
<1> QED
  BY <1>1, <1>2, <1>3, <1>4, <1>5

LEMMA EmptyTasks == <<>> \in Seq(MarketingTasks)
OBVIOUS

\* A run's record, or a decide request's, is replaced.
LEMMA Becomes ==
    ASSUME Typed, NEW r \in Runs, NEW new \in RunRecords, run' = [run EXCEPT ![r] = new]
    PROVE  /\ run' \in [Runs -> RunRecords] /\ run'[r] = new
           /\ \A s \in Runs : s # r => run'[s] = run[s]
BY DEF Typed

LEMMA DecideBecomes ==
    ASSUME Typed, NEW d \in Decisions, NEW new \in DecideRecords,
           decide' = [decide EXCEPT ![d] = new]
    PROVE  /\ decide' \in [Decisions -> DecideRecords] /\ decide'[d] = new
           /\ \A e \in Decisions : e # d => decide'[e] = decide[e]
BY DEF Typed

LEMMA GotoFact ==
    ASSUME Typed, NEW r \in Runs, NEW n \in Nodes, Goto(r, n)
    PROVE  /\ run' \in [Runs -> RunRecords]
           /\ run'[r].node = n
           /\ run'[r].call = run[r].call /\ run'[r].transcript = run[r].transcript
           /\ run'[r].extracted = run[r].extracted /\ run'[r].record = run[r].record
           /\ run'[r].draft = run[r].draft /\ run'[r].plan = run[r].plan
           /\ run'[r].outcome = run[r].outcome
           /\ \A s \in Runs : s # r => run'[s] = run[s]
BY ZenonT(60) DEF Typed, Goto, RunRecords

LEMMA EndFact ==
    ASSUME Typed, NEW r \in Runs, NEW o \in Outcomes, End(r, o)
    PROVE  /\ run' \in [Runs -> RunRecords]
           /\ run'[r].node = "end" /\ run'[r].outcome = o
           /\ run'[r].call = run[r].call /\ run'[r].transcript = run[r].transcript
           /\ run'[r].draft = run[r].draft /\ run'[r].plan = run[r].plan
           /\ \A s \in Runs : s # r => run'[s] = run[s]
<1>1. "end" \in Nodes
  BY DEF Nodes, Over
<1>2. run \in [Runs -> RunRecords] /\ run[r] \in RunRecords
  BY DEF Typed
<1> DEFINE new == [run[r] EXCEPT !.node = "end", !.outcome = o]
<1>3. run' = [run EXCEPT ![r] = new]
  BY <1>2 DEF End
<1> HIDE DEF Nodes, Outcomes
<1>4. /\ new \in RunRecords /\ new.node = "end" /\ new.outcome = o
      /\ new.call = run[r].call /\ new.transcript = run[r].transcript
      /\ new.draft = run[r].draft /\ new.plan = run[r].plan
  BY <1>1, <1>2 DEF RunRecords
<1> HIDE DEF new
<1> QED
  BY <1>3, <1>4, Becomes

LEMMA EffectFact ==
    ASSUME Typed, NEW r \in Runs, NEW what \in Effects, Effect(r, what)
    PROVE  /\ effects' \in [Runs -> SUBSET Effects]
           /\ effects'[r] = effects[r] \cup {what}
           /\ \A s \in Runs : s # r => effects'[s] = effects[s]
BY DEF Typed, Effect

\* A decide request goes on, or ends its thread.
LEMMA FollowFact ==
    ASSUME Typed, NEW d \in Decisions, NEW n \in InFlight \cup Over \cup {"lost"}, Follow(d, n)
    PROVE  /\ decide' \in [Decisions -> DecideRecords] /\ run' = run
           /\ decide'[d].node = n /\ decide'[d].of = decide[d].of
           /\ decide'[d].verdict = decide[d].verdict
           /\ decide'[d].plan = decide[d].plan /\ decide'[d].left = decide[d].left
           /\ \A e \in Decisions : e # d => decide'[e] = decide[e]
<1> DEFINE new == [decide[d] EXCEPT !.node = n]
<1>1. decide[d] \in DecideRecords /\ decide' = [decide EXCEPT ![d] = new] /\ run' = run
  BY DEF Typed, Follow
<1> HIDE DEF InFlight, Over, Verdicts
<1>2. /\ new \in DecideRecords /\ new.node = n /\ new.of = decide[d].of
      /\ new.verdict = decide[d].verdict /\ new.plan = decide[d].plan
      /\ new.left = decide[d].left
  BY <1>1 DEF DecideRecords
<1> HIDE DEF new
<1> QED
  BY <1>1, <1>2, DecideBecomes

LEMMA FinishFact ==
    ASSUME Typed, NEW d \in Decisions, NEW o \in Outcomes, decide[d].of \in Runs, Finish(d, o)
    PROVE  LET r == decide[d].of IN
           /\ decide' \in [Decisions -> DecideRecords] /\ run' \in [Runs -> RunRecords]
           /\ decide'[d].node = "end" /\ decide'[d].of = decide[d].of
           /\ decide'[d].verdict = decide[d].verdict
           /\ decide'[d].plan = decide[d].plan /\ decide'[d].left = decide[d].left
           /\ \A e \in Decisions : e # d => decide'[e] = decide[e]
           /\ run'[r].node = "end" /\ run'[r].outcome = o /\ run'[r].plan = decide[d].plan
           /\ run'[r].call = run[r].call /\ run'[r].transcript = run[r].transcript
           /\ run'[r].extracted = run[r].extracted /\ run'[r].record = run[r].record
           /\ run'[r].draft = run[r].draft
           /\ \A s \in Runs : s # r => run'[s] = run[s]
<1> DEFINE r == decide[d].of
           new == [decide[d] EXCEPT !.node = "end"]
           ended == [run[r] EXCEPT !.node = "end", !.outcome = o, !.plan = decide[d].plan]
<1>1. /\ decide[d] \in DecideRecords /\ run[r] \in RunRecords
      /\ decide' = [decide EXCEPT ![d] = new]
      /\ run' = [run EXCEPT ![r] = ended]
  BY DEF Typed, Finish
<1>2. "end" \in Over /\ "end" \in Nodes /\ decide[d].plan \in Seq(MarketingTasks)
  BY <1>1 DEF Over, Nodes, DecideRecords
<1> HIDE DEF InFlight, Over, Verdicts, Nodes, Outcomes, MarketingTasks
<1>3. /\ new \in DecideRecords /\ new.node = "end" /\ new.of = decide[d].of
      /\ new.verdict = decide[d].verdict /\ new.plan = decide[d].plan
      /\ new.left = decide[d].left
  BY <1>1, <1>2 DEF DecideRecords
<1>4. /\ ended \in RunRecords /\ ended.node = "end" /\ ended.outcome = o
      /\ ended.plan = decide[d].plan /\ ended.call = run[r].call
      /\ ended.transcript = run[r].transcript /\ ended.extracted = run[r].extracted
      /\ ended.record = run[r].record /\ ended.draft = run[r].draft
  BY ZenonT(60), <1>1, <1>2 DEF RunRecords
<1> HIDE DEF new, ended
<1> QED
  BY <1>1, <1>3, <1>4, Becomes, DecideBecomes

-----------------------------------------------------------------------------
\* The parts of the invariant.

NodeOK(r) == NodeFits(run[r], effects[r], email[r], gate[r])
OutcomeOK(r) == OutcomeFits(run[r], effects[r], email[r], gate[r])

\* The parts of the invariant that concern one run.
LEMMA OfRun ==
    ASSUME IInv, NEW r \in Runs
    PROVE  /\ Typed /\ NodeOK(r) /\ OutcomeOK(r) /\ ReportOK(r)
           /\ effects[r] \cap Gated # {} => Approved(r)
           /\ run[r] \in RunRecords /\ effects[r] \subseteq Effects
           /\ email[r] \in Rows /\ gate[r] \in GateStates
           /\ run[r].outcome # "" => run[r].node = "end"
           /\ effects \in [Runs -> SUBSET Effects] /\ email \in [Runs -> Rows]
           /\ gate \in [Runs -> GateStates] /\ run \in [Runs -> RunRecords]
BY DEF IInv, RunInv, RunOK, NodeOK, CallInv, Typed, OutcomeOK, OutcomeFits

LEMMA OfDecision ==
    ASSUME IInv, NEW d \in Decisions, decide[d].node # "idle"
    PROVE  LET r == decide[d].of IN
           /\ r \in Runs /\ gate[r] # "none" /\ decide[d] \in DecideRecords
           /\ DecideFits(decide[d], run[r], effects[r], email[r])
           /\ decide[d].verdict \in Verdicts
           /\ run[r].node \in Gates \cup {"end"}
           /\ NodeOK(r) /\ OutcomeOK(r) /\ run[r] \in RunRecords
           /\ ~overlap => RowOK(r)
           /\ ~overlap /\ decide[d].node \in InFlight =>
                SoloFits(decide[d], run[r], effects[r], email[r], gate[r])
<1>1. decide[d].of \in Runs /\ gate[decide[d].of] # "none" /\ decide[d] \in DecideRecords
      /\ DecideFits(decide[d], run[decide[d].of], effects[decide[d].of], email[decide[d].of])
  BY DEF IInv, DecideInv, DecideOK, Typed
<1>2. ~overlap => RowOK(decide[d].of) /\ SoloOK(d)
  BY <1>1 DEF IInv, SoloInv
<1>3. NodeOK(decide[d].of) /\ OutcomeOK(decide[d].of) /\ run[decide[d].of] \in RunRecords
  BY <1>1, OfRun
<1> QED
  BY <1>1, <1>2, <1>3 DEF NodeOK, NodeFits, SoloOK, DecideRecords

\* A run that no human is asked about or has been asked about just now.
Early(r) ==
    /\ gate[r] \in {"none", "pending"} /\ (gate[r] = "pending" => run[r].node \in Gates)
    /\ email[r] \in {"none", "pending"} /\ effects[r] \cap Gated = {}
    /\ run[r].outcome \notin {"published", "followup_sent", "rejected"}
    /\ run[r].outcome = "not_found" => effects[r] = {}

\* Its steps concern no decide request.
LEMMA EarlyStep ==
    ASSUME IInv, NEW r \in Runs, gate[r] = "none", UNCHANGED <<overlap, decide>>,
           \A s \in Runs : s # r => /\ run'[s] = run[s] /\ effects'[s] = effects[s]
                                    /\ email'[s] = email[s] /\ gate'[s] = gate[s],
           NodeOK(r)', OutcomeOK(r)', Early(r)'
    PROVE  RunInv' /\ DecideInv' /\ (~overlap => SoloInv)'
<1>1. RunInv'
  <2> SUFFICES ASSUME NEW s \in Runs
               PROVE  (RunOK(s) /\ (effects[s] \cap Gated # {} => Approved(s)))'
    BY DEF RunInv
  <2>1. CASE s = r
    BY <2>1 DEF RunOK, NodeOK, OutcomeOK, Early
  <2>2. CASE s # r
    <3>1. RunOK(s) /\ (effects[s] \cap Gated # {} => Approved(s))
      BY DEF IInv, RunInv
    <3> QED
      BY <2>2, <3>1 DEF RunOK, Approved
  <2> QED
    BY <2>1, <2>2
<1>2. \A d \in Decisions : decide[d].node # "idle" => decide[d].of # r /\ decide[d].of \in Runs
  BY OfDecision
<1>3. DecideInv'
  BY <1>2 DEF IInv, DecideInv, DecideOK
<1>4. ASSUME ~overlap'
      PROVE  SoloInv'
  <2>1. SoloInv
    BY <1>4 DEF IInv
  <2>2. RowOK(r)'
    BY DEF Early, RowOK, RowFits
  <2>3. ASSUME NEW s \in Runs, s # r
        PROVE  RowOK(s)'
    BY <2>1, <2>3 DEF SoloInv, RowOK
  <2>4. ASSUME NEW d \in Decisions
        PROVE  SoloOK(d)'
    <3>1. SoloOK(d)
      BY <2>1 DEF SoloInv
    <3>2. decide[d].node \in InFlight => decide[d].node # "idle"
      BY DEF InFlight
    <3> QED
      BY <1>2, <3>1, <3>2 DEF SoloOK
  <2> QED
    BY <2>1, <2>2, <2>3, <2>4 DEF SoloInv
<1> QED
  BY <1>1, <1>3, <1>4

\* What a run knows of its call survives what others do to the call's rows.
LEMMA ReportKept ==
    ASSUME NEW s \in Runs, ReportOK(s), run'[s] = run[s], effects'[s] = effects[s], llm' = llm,
           \A k \in Calls : /\ records[k] # None => records'[k] # None
                            /\ feedback[k] # None => feedback'[k] # None
                            /\ call[k].state = "ended" => call'[k] = call[k]
    PROVE  ReportOK(s)'
BY DEF ReportOK, Ingested, Owing

\* A step that stores nothing about its call.
LEMMA OwnStep ==
    ASSUME IInv, NEW r \in Runs, gate[r] = "none",
           UNCHANGED <<call, records, feedback, llm, overlap, decide>>,
           run' \in [Runs -> RunRecords], effects' \in [Runs -> SUBSET Effects],
           email' \in [Runs -> Rows], gate' \in [Runs -> GateStates],
           \A s \in Runs : s # r => /\ run'[s] = run[s] /\ effects'[s] = effects[s]
                                    /\ email'[s] = email[s] /\ gate'[s] = gate[s],
           NodeOK(r)', OutcomeOK(r)', Early(r)', ReportOK(r)',
           run'[r].call = run[r].call \/ run[r].call = None,
           Owes(r) => Owes(r)'
    PROVE  IInv'
<1>1. Typed'
  BY DEF IInv, Typed
<1>2. RunInv' /\ DecideInv' /\ (~overlap => SoloInv)'
  BY EarlyStep
<1>3. \A s \in Runs : ReportOK(s)'
  BY ReportKept DEF IInv, CallInv
<1>4. \A k \in Calls : RecordOK(k)'
  <2> SUFFICES ASSUME NEW k \in Calls PROVE RecordOK(k)'
    OBVIOUS
  <2>1. RecordOK(k)
    BY DEF IInv, CallInv
  <2>2. \A s \in Runs : run[s].call = k /\ Owes(s) => run'[s].call = k /\ Owes(s)'
    BY WorkflowsAssumptions DEF Owes
  <2> QED
    BY <2>1, <2>2 DEF RecordOK
<1> QED
  BY <1>1, <1>2, <1>3, <1>4 DEF IInv, CallInv

\* A run that is past its call's record takes no new interest in it.
LEMMA ReportMoves ==
    ASSUME NEW r \in Runs, ReportOK(r), UNCHANGED <<call, records, feedback, llm>>,
           run'[r].call = run[r].call, run'[r].transcript = run[r].transcript,
           run'[r].node \notin Owing \cup {"idle", "ingest_call"},
           Ingested(r)' => Ingested(r)
    PROVE  ReportOK(r)'
BY DEF ReportOK, Owing

\* What the steps that follow have in common: one run moves on, past the record.
LEMMA Forward ==
    ASSUME IInv, NEW r \in Runs, gate[r] = "none",
           UNCHANGED <<call, records, feedback, llm, overlap, decide>>,
           run' \in [Runs -> RunRecords], effects' \in [Runs -> SUBSET Effects],
           email' \in [Runs -> Rows], gate' \in [Runs -> GateStates],
           \A s \in Runs : s # r => /\ run'[s] = run[s] /\ effects'[s] = effects[s]
                                    /\ email'[s] = email[s] /\ gate'[s] = gate[s],
           run'[r].call = run[r].call, run'[r].transcript = run[r].transcript,
           run'[r].node \notin Owing \cup {"idle", "ingest_call"},
           Ingested(r)' => Ingested(r),
           Owes(r) => Owes(r)',
           NodeOK(r)', OutcomeOK(r)', Early(r)'
    PROVE  IInv'
<1>1. ReportOK(r)
  BY DEF IInv, CallInv
<1>2. ReportOK(r)'
  BY <1>1, ReportMoves
<1> QED
  BY <1>2, OwnStep

-----------------------------------------------------------------------------
\* The nodes of a run up to its gate.

LEMMA SyncStep ==
    ASSUME IInv, NEW r \in Runs, sync_crm(r), UNCHANGED <<llm, overlap>>
    PROVE  IInv'
<1> USE OfRun
<1>0. UNCHANGED <<call, records, feedback, llm, overlap, email, gate, decide>>
  BY DEF sync_crm, world, filed
<1>1. CASE At(r, "sync_crm") /\ Effect(r, "note") /\ Goto(r, "log_call")
  <2>1. "note" \in Effects /\ "log_call" \in Nodes
    BY DEF Effects, Nodes
  <2>2. effects' \in [Runs -> SUBSET Effects] /\ effects'[r] = effects[r] \cup {"note"}
        /\ \A s \in Runs : s # r => effects'[s] = effects[s]
    BY <1>1, <2>1, EffectFact
  <2>3. /\ run' \in [Runs -> RunRecords]
        /\ run'[r].node = "log_call" /\ run'[r].outcome = run[r].outcome
        /\ run'[r].call = run[r].call /\ run'[r].transcript = run[r].transcript
        /\ \A s \in Runs : s # r => run'[s] = run[s]
    BY <1>1, <2>1, GotoFact
  <2>4. effects[r] = {} /\ gate[r] = "none" /\ email[r] = "none" /\ run[r].outcome = ""
    BY <1>1 DEF At, NodeOK, NodeFits, Clean, Ungated
  <2>5. effects'[r] = {"note"} /\ gate'[r] = "none" /\ email'[r] = "none"
        /\ run'[r].outcome = ""
    BY <1>0, <2>2, <2>3, <2>4
  <2>6. NodeOK(r)' /\ OutcomeOK(r)' /\ Early(r)'
    BY <2>3, <2>5 DEF NodeOK, NodeFits, OutcomeOK, OutcomeFits, Early, Clean, Owing, Gated
  <2>7. Ingested(r) /\ ~Owes(r) /\ run'[r].node \notin Owing \cup {"idle", "ingest_call"}
    BY <1>1, <2>3 DEF Ingested, Owes, Owing, At
  <2> QED
    BY <1>0, <2>2, <2>3, <2>4, <2>6, <2>7, Forward
<1>2. CASE At(r, "log_call") /\ Effect(r, "call_log") /\ Goto(r, route_after_sync(run[r].extracted))
  <2> DEFINE n == route_after_sync(run[r].extracted)
  <2>1. "call_log" \in Effects /\ n \in {"notify_agent", "draft_followup_email"} /\ n \in Nodes
    BY DEF Effects, Nodes, Gates, route_after_sync
  <2> HIDE DEF n
  <2>2. effects' \in [Runs -> SUBSET Effects] /\ effects'[r] = effects[r] \cup {"call_log"}
        /\ \A s \in Runs : s # r => effects'[s] = effects[s]
    BY <1>2, <2>1, EffectFact
  <2>3. /\ run' \in [Runs -> RunRecords]
        /\ run'[r].node = n /\ run'[r].outcome = run[r].outcome
        /\ run'[r].call = run[r].call /\ run'[r].transcript = run[r].transcript
        /\ \A s \in Runs : s # r => run'[s] = run[s]
    BY <1>2, <2>1, GotoFact DEF n
  <2>4. effects[r] = {"note"} /\ gate[r] = "none" /\ email[r] = "none" /\ run[r].outcome = ""
    BY <1>2 DEF At, NodeOK, NodeFits, Ungated
  <2>5. effects'[r] = {"note", "call_log"} /\ gate'[r] = "none" /\ email'[r] = "none"
        /\ run'[r].outcome = ""
    BY <1>0, <2>2, <2>3, <2>4
  <2>6. NodeOK(r)' /\ OutcomeOK(r)' /\ Early(r)'
    BY <2>1, <2>3, <2>5
    DEF NodeOK, NodeFits, OutcomeOK, OutcomeFits, Early, Clean, Owing, Gated, Hot
  <2>7. Ingested(r) /\ ~Owes(r) /\ run'[r].node \notin Owing \cup {"idle", "ingest_call"}
    BY <1>2, <2>1, <2>3 DEF Ingested, Owes, Owing, At
  <2> QED
    BY <1>0, <2>2, <2>3, <2>4, <2>6, <2>7, Forward
<1> QED
  BY <1>1, <1>2 DEF sync_crm

\* A run ends before any gate under an outcome that its effects allow.
LEMMA EndStep ==
    ASSUME IInv, NEW r \in Runs, NEW o \in Outcomes, End(r, o), gate[r] = "none",
           email[r] = "none",
           UNCHANGED <<call, records, feedback, llm, overlap, effects, email, gate, decide>>,
           ~Owes(r),
           o = "synced" => effects[r] = {"note", "call_log"},
           o \in {"not_found", "not_eligible", "no_transcript"} => effects[r] = {},
           o \in {"synced", "not_found", "not_eligible", "no_transcript"}
    PROVE  IInv'
<1> USE OfRun
<1>1. /\ run' \in [Runs -> RunRecords]
      /\ run'[r].node = "end" /\ run'[r].outcome = o
      /\ run'[r].call = run[r].call /\ run'[r].transcript = run[r].transcript
      /\ \A s \in Runs : s # r => run'[s] = run[s]
  BY EndFact
<1>2. effects[r] \cap Gated = {}
  BY DEF NodeOK, NodeFits
<1>3. NodeOK(r)' /\ OutcomeOK(r)' /\ Early(r)'
  BY <1>1, <1>2 DEF NodeOK, NodeFits, OutcomeOK, OutcomeFits, Early, Clean, Owing, Ungated, Gates
<1>4. (Ingested(r)' => Ingested(r)) /\ run'[r].node \notin Owing \cup {"idle", "ingest_call"}
  BY <1>1 DEF Ingested, Owing
<1> QED
  BY <1>1, <1>3, <1>4, Forward

\* A run goes to a later node and nothing else changes but its email's row.
LEMMA MoveStep ==
    ASSUME IInv, NEW r \in Runs, NEW n \in Nodes, Goto(r, n), run[r].node # "end",
           UNCHANGED <<call, records, feedback, llm, overlap, effects, gate, decide>>,
           email' \in [Runs -> Rows], \A s \in Runs : s # r => email'[s] = email[s],
           email'[r] \in {"none", "pending"}, gate[r] = "none",
           n \notin Owing \cup {"idle", "ingest_call", "sync_crm", "log_call", "end"},
           Owes(r) => n = "raised" /\ "note" \notin effects[r],
           n \in Clean => effects[r] = {} /\ email'[r] = "none",
           n \in {"draft_followup_email", "finish_synced"} =>
               effects[r] = {"note", "call_log"} /\ email'[r] = "none",
           n = "notify_agent" => Hot(email'[r], effects[r]),
           n = "approve_outbound_message" => Mail(email'[r], effects[r]),
           n = "approve_marketing" => Marketing(email'[r], effects[r])
    PROVE  IInv'
<1> USE OfRun
<1>1. /\ run' \in [Runs -> RunRecords]
      /\ run'[r].node = n
      /\ run'[r].outcome = run[r].outcome
      /\ run'[r].call = run[r].call /\ run'[r].transcript = run[r].transcript
      /\ \A s \in Runs : s # r => run'[s] = run[s]
  BY GotoFact
<1>2. run[r].outcome = "" /\ effects[r] \cap Gated = {}
  BY DEF NodeOK, NodeFits
<1>3. NodeOK(r)'
  BY <1>1, <1>2 DEF NodeOK, NodeFits, Ungated
<1>4. OutcomeOK(r)' /\ Early(r)'
  BY <1>1, <1>2 DEF OutcomeOK, OutcomeFits, Early
<1>5. (Ingested(r)' => Ingested(r)) /\ (Owes(r) => Owes(r)')
      /\ run'[r].node \notin Owing \cup {"idle", "ingest_call"}
  BY <1>1 DEF Ingested, Owing, Owes
<1> QED
  BY <1>1, <1>3, <1>4, <1>5, Forward

LEMMA DraftEmailStep ==
    ASSUME IInv, NEW r \in Runs, draft_followup_email(r), UNCHANGED <<llm, overlap>>
    PROVE  IInv'
<1> USE OfRun
<1>0. UNCHANGED <<call, records, feedback, llm, overlap, effects, gate, decide>>
      /\ run[r].node \in {"draft_followup_email", "finish_synced"}
  BY DEF draft_followup_email, world, filed, At
<1>1. /\ effects[r] = {"note", "call_log"} /\ gate[r] = "none" /\ email[r] = "none"
      /\ run[r].outcome = "" /\ ~Owes(r) /\ run[r].node # "end"
  BY <1>0 DEF NodeOK, NodeFits, Ungated, Owes, Owing
<1>2. CASE UNCHANGED email /\ Goto(r, "finish_synced")
  <2>1. "finish_synced" \in Nodes
    BY DEF Nodes
  <2> QED
    BY <1>0, <1>1, <1>2, <2>1, MoveStep DEF Clean, Owing
<1>3. CASE email' = [email EXCEPT ![r] = "pending"] /\ Goto(r, "approve_outbound_message")
  <2>1. "approve_outbound_message" \in Nodes
    BY DEF Nodes, Gates
  <2>2. /\ email' \in [Runs -> Rows] /\ email'[r] = "pending"
        /\ \A s \in Runs : s # r => email'[s] = email[s]
    BY <1>3 DEF Rows
  <2>3. Mail(email'[r], effects[r])
    BY <1>1, <2>2 DEF Mail
  <2> QED
    BY <1>0, <1>1, <1>3, <2>1, <2>2, <2>3, MoveStep DEF Clean, Owing
<1>4. CASE UNCHANGED email /\ End(r, "synced")
  <2>1. "synced" \in Outcomes
    BY DEF Outcomes, COMPLETED_VALUES
  <2> QED
    BY <1>0, <1>1, <1>4, <2>1, EndStep
<1> QED
  BY <1>2, <1>3, <1>4 DEF draft_followup_email

LEMMA IntakeStep ==
    ASSUME IInv, NEW r \in Runs, intake(r), UNCHANGED <<llm, overlap>>
    PROVE  IInv'
<1> USE OfRun
<1>0. UNCHANGED <<call, records, feedback, llm, overlap, effects, email, gate, decide>>
      /\ run[r].node = "intake"
  BY DEF intake, world, filed, At
<1>1. effects[r] = {} /\ gate[r] = "none" /\ email[r] = "none" /\ ~Owes(r)
  BY <1>0 DEF NodeOK, NodeFits, Clean, Ungated, Owes, Owing
<1>2. CASE \E o \in {"not_found", "not_eligible"} : End(r, o)
  <2>1. PICK o \in {"not_found", "not_eligible"} : End(r, o)
    BY <1>2
  <2>2. o \in Outcomes
    BY DEF Outcomes
  <2> QED
    BY <1>0, <1>1, <2>1, <2>2, EndStep
<1>3. CASE Goto(r, "make_draft")
  <2>1. "make_draft" \in Nodes
    BY DEF Nodes
  <2> QED
    BY <1>0, <1>1, <1>3, <2>1, MoveStep DEF Owing
<1> QED
  BY <1>2, <1>3 DEF intake

LEMMA MakeDraftStep ==
    ASSUME IInv, NEW r \in Runs, make_draft(r), UNCHANGED <<llm, overlap>>
    PROVE  IInv'
<1> USE OfRun
<1>0. UNCHANGED <<call, records, feedback, llm, overlap, effects, email, gate, decide>>
      /\ run[r].node = "make_draft"
  BY DEF make_draft, world, filed, At
<1>1. /\ effects[r] = {} /\ gate[r] = "none" /\ email[r] = "none"
      /\ run[r].outcome = "" /\ ~Owes(r)
  BY <1>0 DEF NodeOK, NodeFits, Clean, Ungated, Owes, Owing
<1> DEFINE d == mls # Gone
           new == [run[r] EXCEPT !.node = "approve_marketing", !.draft = d]
<1>2. d \in BOOLEAN /\ run' = [run EXCEPT ![r] = new]
  BY DEF make_draft
<1>3. "approve_marketing" \in Nodes
  BY DEF Nodes, Gates
<1> HIDE DEF d
<1>4. /\ new \in RunRecords /\ new.node = "approve_marketing"
      /\ new.call = run[r].call /\ new.transcript = run[r].transcript
      /\ new.outcome = run[r].outcome
  BY ZenonT(60), <1>2, <1>3 DEF RunRecords
<1> HIDE DEF new
<1>5. run' \in [Runs -> RunRecords] /\ run'[r] = new
      /\ \A s \in Runs : s # r => run'[s] = run[s]
  BY <1>2, <1>4, Becomes
<1>6. NodeOK(r)'
  BY <1>0, <1>1, <1>4, <1>5 DEF NodeOK, NodeFits, Marketing, Clean, Owing, Ungated
<1>7. OutcomeOK(r)' /\ Early(r)'
  BY <1>0, <1>1, <1>4, <1>5 DEF OutcomeOK, OutcomeFits, Early
<1>8. ~Ingested(r)' /\ run'[r].node \notin Owing \cup {"idle", "ingest_call"}
  BY <1>0, <1>1, <1>4, <1>5 DEF Ingested, Owing
<1> QED
  BY <1>0, <1>1, <1>4, <1>5, <1>6, <1>7, <1>8, Forward

LEMMA RaisesStep ==
    ASSUME IInv, NEW r \in Runs, Raises(r), UNCHANGED <<llm, overlap>>
    PROVE  IInv'
<1> USE OfRun
<1>1. /\ UNCHANGED <<call, records, feedback, llm, overlap, effects, email, gate, decide>>
      /\ Goto(r, "raised") /\ gate[r] = "none" /\ run[r].node \notin {"idle", "end", "raised"}
  BY DEF Raises, world, filed, Over
<1>2. "raised" \in Nodes /\ (Owes(r) => "note" \notin effects[r])
      /\ email[r] \in {"none", "pending"}
  BY <1>1 DEF Nodes, Over, Owes, NodeOK, NodeFits, Clean
<1> QED
  BY <1>1, <1>2, MoveStep DEF Clean, Owing

LEMMA InterruptStep ==
    ASSUME IInv, NEW r \in Runs, Interrupt(r), UNCHANGED <<llm, overlap>>
    PROVE  IInv'
<1> USE OfRun
<1>0. /\ UNCHANGED <<call, records, feedback, llm, overlap, effects, email, decide>>
      /\ run[r].node \in Gates /\ gate[r] = "none"
  BY DEF Interrupt, world, filed
<1>1. ~Owes(r) /\ run[r].node # "end" /\ email[r] \in {"none", "pending"} /\ run[r].outcome = ""
      /\ effects[r] \cap Gated = {}
  BY <1>0 DEF Owes, Owing, Gates, NodeOK, NodeFits
<1>2. CASE Goto(r, "raised") /\ UNCHANGED gate
  <2>1. "raised" \in Nodes
    BY <1>0 DEF Nodes, Over
  <2> QED
    BY <1>0, <1>1, <1>2, <2>1, MoveStep DEF Clean, Owing
<1>3. CASE /\ gate' = [gate EXCEPT ![r] = "pending"] /\ UNCHANGED run
           /\ run[r].node = "approve_marketing" => run[r].draft
  <2>1. /\ gate' \in [Runs -> GateStates]
        /\ gate'[r] = "pending" /\ \A s \in Runs : s # r => gate'[s] = gate[s]
    BY <1>3 DEF GateStates
  <2>2. NodeOK(r)'
    BY <1>0, <1>3, <2>1 DEF NodeOK, NodeFits, Ungated, Clean, Owing, Gates
  <2>3. OutcomeOK(r)' /\ Early(r)' /\ (Owes(r) => Owes(r)')
    BY <1>0, <1>1, <1>3, <2>1 DEF OutcomeOK, OutcomeFits, Early, Owes
  <2>4. ReportOK(r)'
    BY <1>0, <1>3, ReportKept
  <2> QED
    BY <1>0, <1>3, <2>1, <2>2, <2>3, <2>4, OwnStep
<1> QED
  BY <1>2, <1>3 DEF Interrupt, At

LEMMA NewRunFact ==
    /\ NewRun \in RunRecords /\ NewRun.node = "idle" /\ NewRun.call = None
    /\ NewRun.outcome = ""
<1>1. "idle" \in Nodes /\ "" \in Outcomes
  BY DEF Nodes, Over, Outcomes
<1> HIDE DEF Nodes, Outcomes
<1> QED
  BY <1>1, EmptyTasks DEF NewRun, RunRecords

LEMMA StartListingStep ==
    ASSUME IInv, NEW r \in Runs, start_listing_to_contract(r), UNCHANGED <<llm, overlap>>
    PROVE  IInv'
<1> USE OfRun
<1>0. UNCHANGED <<call, records, feedback, llm, overlap, effects, email, gate, decide>>
      /\ run[r].node = "idle"
  BY DEF start_listing_to_contract, world, filed, At
<1>1. effects[r] = {} /\ gate[r] = "none" /\ email[r] = "none" /\ run[r].call = None /\ ~Owes(r)
  BY <1>0 DEF NodeOK, NodeFits, Clean, Ungated, ReportOK, Owes, Owing
<1> DEFINE new == [NewRun EXCEPT !.node = "intake"]
<1>2. "intake" \in Nodes /\ "" \in Outcomes
  BY DEF Nodes, Outcomes
<1>3. /\ new \in RunRecords /\ new.node = "intake"
      /\ new.call = None /\ new.outcome = ""
  <2> HIDE DEF Nodes, Outcomes
  <2> QED
    BY <1>2, EmptyTasks DEF RunRecords, NewRun
<1>4. run' = [run EXCEPT ![r] = new]
  BY DEF start_listing_to_contract
<1> HIDE DEF new
<1>5. run' \in [Runs -> RunRecords] /\ run'[r] = new
      /\ \A s \in Runs : s # r => run'[s] = run[s]
  BY <1>3, <1>4, Becomes
<1>6. NodeOK(r)'
  BY <1>0, <1>1, <1>3, <1>5 DEF NodeOK, NodeFits
<1>7. OutcomeOK(r)' /\ Early(r)'
  BY <1>0, <1>1, <1>3, <1>5 DEF OutcomeOK, OutcomeFits, Early
<1>8. ReportOK(r)'
  BY <1>0, <1>1, <1>3, <1>5, WorkflowsAssumptions DEF ReportOK, Ingested, Owing
<1> QED
  BY <1>0, <1>1, <1>5, <1>6, <1>7, <1>8, OwnStep

LEMMA WebhookStep ==
    ASSUME IInv, NEW r \in Runs, NEW k \in Calls, NEW artifact \in Transcripts \cup {<<>>},
           vapi_webhook(r, k, artifact), UNCHANGED <<llm, overlap>>
    PROVE  IInv'
<1> USE OfRun
<1>0. UNCHANGED <<call, records, feedback, llm, overlap, effects, email, gate, decide>>
      /\ run[r].node = "idle"
      /\ call[k].state = "ended" /\ artifact \in {call[k].said, <<>>}
  BY DEF vapi_webhook, world, filed, At
<1>1. effects[r] = {} /\ gate[r] = "none" /\ email[r] = "none" /\ run[r].call = None /\ ~Owes(r)
  BY <1>0 DEF NodeOK, NodeFits, Clean, Ungated, ReportOK, Owes, Owing
<1> DEFINE new == [NewRun EXCEPT !.node = "ingest_call", !.call = k, !.transcript = artifact]
<1>2. "ingest_call" \in Nodes /\ "" \in Outcomes
  BY DEF Nodes, Outcomes
<1>3. /\ new \in RunRecords /\ new.node = "ingest_call"
      /\ new.call = k /\ new.outcome = "" /\ new.transcript = artifact
  <2> HIDE DEF Nodes, Outcomes
  <2> QED
    BY <1>2, EmptyTasks DEF RunRecords, NewRun
<1>4. run' = [run EXCEPT ![r] = new]
  BY DEF vapi_webhook
<1> HIDE DEF new
<1>5. run' \in [Runs -> RunRecords] /\ run'[r] = new
      /\ \A s \in Runs : s # r => run'[s] = run[s]
  BY <1>3, <1>4, Becomes
<1>6. NodeOK(r)'
  BY <1>0, <1>1, <1>3, <1>5 DEF NodeOK, NodeFits
<1>7. OutcomeOK(r)' /\ Early(r)'
  BY <1>0, <1>1, <1>3, <1>5 DEF OutcomeOK, OutcomeFits, Early
<1>8. ReportOK(r)'
  BY <1>0, <1>1, <1>3, <1>5 DEF ReportOK, Ingested, Owing
<1> QED
  BY <1>0, <1>1, <1>5, <1>6, <1>7, <1>8, OwnStep

\* A run that has nothing outward to show and asks for nothing.
LEMMA CleanRun ==
    ASSUME NEW r \in Runs, run'[r].node \in Clean, run'[r].outcome = "",
           effects[r] = {}, gate[r] = "none", email[r] = "none",
           UNCHANGED <<effects, email, gate>>
    PROVE  NodeOK(r)' /\ OutcomeOK(r)' /\ Early(r)'
BY DEF NodeOK, NodeFits, OutcomeOK, OutcomeFits, Early, Clean, Owing

LEMMA ExtractStep ==
    ASSUME IInv, NEW r \in Runs, extract_structured(r), UNCHANGED <<llm, overlap>>
    PROVE  IInv'
<1> USE OfRun
<1>0. UNCHANGED <<call, records, feedback, llm, overlap, effects, email, gate, decide>>
      /\ run[r].node = "extract_structured"
  BY DEF extract_structured, world, filed, At
<1>1. /\ effects[r] = {} /\ gate[r] = "none" /\ email[r] = "none" /\ run[r].outcome = ""
      /\ run[r].call \in Calls /\ records[run[r].call] # None
      /\ run[r].transcript = call[run[r].call].said
  BY <1>0 DEF NodeOK, NodeFits, Clean, Ungated, Owing, ReportOK, Ingested
<1>a. ~llm' => ~llm
  OBVIOUS
<1>2. PICK e \in IF llm THEN Extracted ELSE {extract_feedback(run[r].transcript)} :
         run' = [run EXCEPT ![r].node = "upsert_feedback", ![r].extracted = e]
  BY DEF extract_structured
<1>3. /\ e \in Extracted /\ e # None
      /\ ~llm => e = extract_feedback(call[run[r].call].said)
  <2>1. extract_feedback(run[r].transcript) \in Extracted
    BY ExtractFact
  <2>2. CASE llm
    BY <1>2, <2>2, WorkflowsAssumptions
  <2>3. CASE ~llm
    <3>1. e = extract_feedback(run[r].transcript)
      BY <1>2, <2>3
    <3> QED
      BY <1>1, <2>1, <3>1, WorkflowsAssumptions
  <2> QED
    BY <2>2, <2>3
<1> DEFINE new == [run[r] EXCEPT !.node = "upsert_feedback", !.extracted = e]
<1>4. "upsert_feedback" \in Nodes /\ run' = [run EXCEPT ![r] = new]
  BY <1>2 DEF Nodes
<1>5. /\ new \in RunRecords /\ new.node = "upsert_feedback" /\ new.extracted = e
      /\ new.call = run[r].call /\ new.transcript = run[r].transcript
      /\ new.outcome = run[r].outcome
  <2> HIDE DEF Nodes, Extracted
  <2> QED
    BY ZenonT(60), <1>3, <1>4 DEF RunRecords
<1> HIDE DEF new
<1>6. run' \in [Runs -> RunRecords] /\ run'[r] = new
      /\ \A s \in Runs : s # r => run'[s] = run[s]
  BY <1>4, <1>5, Becomes
<1>7. /\ run'[r].node \in Clean /\ run'[r].outcome = "" /\ run'[r].call = run[r].call
      /\ Owes(r)'
  BY <1>1, <1>5, <1>6 DEF Clean, Owes, Owing
<1>8. NodeOK(r)' /\ OutcomeOK(r)' /\ Early(r)'
  BY <1>0, <1>1, <1>7, CleanRun
<1>9. ReportOK(r)'
  <2>1. call[run[r].call].state = "ended"
    BY <1>1 DEF ReportOK
  <2>2. run'[r].extracted = e /\ run'[r].call = run[r].call
        /\ run'[r].transcript = run[r].transcript /\ run'[r].node = "upsert_feedback"
    BY <1>5, <1>6
  <2>3. ~llm' => run'[r].extracted = extract_feedback(call'[run'[r].call].said)
    <3>1. llm' = llm /\ call'[run'[r].call] = call[run[r].call]
      BY <1>0, <2>2
    <3>2. call'[run'[r].call].said = call[run[r].call].said
      BY <3>1
    <3>3. extract_feedback(call'[run'[r].call].said) = extract_feedback(call[run[r].call].said)
      BY <3>2
    <3> QED
      BY <1>3, <1>a, <2>2, <3>3
  <2> QED
    BY <1>0, <1>1, <1>3, <2>1, <2>2, <2>3 DEF ReportOK, Ingested, Owing
<1> QED
  BY <1>0, <1>1, <1>6, <1>7, <1>8, <1>9, OwnStep

\* One run stores something about its call.
LEMMA StoreStep ==
    ASSUME IInv, NEW r \in Runs, NEW k \in Calls, run[r].call = k, run'[r].call = k,
           UNCHANGED <<call, llm, overlap, effects, email, gate, decide>>, Typed',
           \A s \in Runs : s # r => run'[s] = run[s],
           \A j \in Calls : j # k => records'[j] = records[j] /\ feedback'[j] = feedback[j],
           records[k] # None => records'[k] # None,
           feedback[k] # None => feedback'[k] # None,
           gate[r] = "none",
           NodeOK(r)', OutcomeOK(r)', Early(r)', ReportOK(r)', RecordOK(k)'
    PROVE  IInv'
<1>1. RunInv' /\ DecideInv' /\ (~overlap => SoloInv)'
  BY EarlyStep
<1>2. \A s \in Runs : ReportOK(s)'
  <2> SUFFICES ASSUME NEW s \in Runs, s # r PROVE ReportOK(s)'
    OBVIOUS
  <2>1. ReportOK(s)
    BY OfRun
  <2> QED
    BY <2>1, ReportKept
<1>3. \A j \in Calls : RecordOK(j)'
  <2> SUFFICES ASSUME NEW j \in Calls, j # k PROVE RecordOK(j)'
    OBVIOUS
  <2>1. RecordOK(j)
    BY DEF IInv, CallInv
  <2>2. \A s \in Runs : run[s].call = j /\ Owes(s) => run'[s].call = j /\ Owes(s)'
    BY DEF Owes
  <2>3. records'[j] = records[j] /\ feedback'[j] = feedback[j] /\ call'[j] = call[j]
    OBVIOUS
  <2> QED
    BY <2>1, <2>2, <2>3 DEF RecordOK
<1> QED
  BY <1>1, <1>2, <1>3 DEF IInv, CallInv

LEMMA IngestStep ==
    ASSUME IInv, NEW r \in Runs, ingest_call(r), UNCHANGED <<llm, overlap>>
    PROVE  IInv'
<1> USE OfRun
<1>0. /\ UNCHANGED <<call, feedback, llm, overlap, effects, email, gate, decide>>
      /\ run[r].node = "ingest_call"
  BY DEF ingest_call, world, At
<1>k. PICK k \in Calls : run[r].call = k
  BY <1>0 DEF ReportOK
<1>1. /\ call[k].state = "ended" /\ run[r].transcript \in {call[k].said, <<>>}
      /\ effects[r] = {} /\ gate[r] = "none" /\ email[r] = "none" /\ run[r].outcome = ""
      /\ ~Owes(r)
  BY <1>0, <1>k DEF ReportOK, NodeOK, NodeFits, Clean, Ungated, Owes, Owing
<1>a. ~llm' => ~llm
  OBVIOUS
<1>2. CASE End(r, "no_transcript") /\ UNCHANGED records
  <2>1. "no_transcript" \in Outcomes
    BY DEF Outcomes
  <2> QED
    BY <1>0, <1>1, <1>2, <2>1, EndStep
<1>3. CASE \E transcript \in {run[r].transcript, call[k].said} \ {<<>>} :
             /\ records' = [records EXCEPT ![k] =
                              [transcript |-> transcript, extracted |-> None]]
             /\ run' = [run EXCEPT ![r].node = "extract_structured",
                                   ![r].transcript = transcript]
  <2>0. PICK transcript \in {run[r].transcript, call[k].said} \ {<<>>} :
             /\ records' = [records EXCEPT ![k] =
                              [transcript |-> transcript, extracted |-> None]]
             /\ run' = [run EXCEPT ![r].node = "extract_structured",
                                   ![r].transcript = transcript]
    BY <1>3
  <2> DEFINE new == [run[r] EXCEPT !.node = "extract_structured", !.transcript = transcript]
             row == [transcript |-> transcript, extracted |-> None]
  <2>1. transcript = call[k].said /\ transcript \in Transcripts
    <3>1. transcript = call[k].said /\ transcript # <<>>
      BY <1>1, <2>0
    <3>2. call[k].said \in Transcripts \cup {<<>>}
      BY DEF Typed
    <3> QED
      BY <3>1, <3>2
  <2>2. "extract_structured" \in Nodes /\ run' = [run EXCEPT ![r] = new]
    BY <2>0 DEF Nodes
  <2>3. /\ new \in RunRecords /\ new.node = "extract_structured" /\ new.transcript = transcript
        /\ new.call = run[r].call /\ new.outcome = run[r].outcome
    <3> HIDE DEF Nodes, Outcomes
    <3> QED
      BY ZenonT(60), <2>1, <2>2 DEF RunRecords
  <2>4. row \in CallRecord /\ row # None /\ row.transcript = transcript /\ row.extracted = None
    <3>1. row \in CallRecord
      BY <2>1 DEF CallRecord
    <3>2. None \notin CallRecord
      BY WorkflowsAssumptions
    <3> QED
      BY <3>1, <3>2
  <2> HIDE DEF new, row
  <2>5. run' \in [Runs -> RunRecords] /\ run'[r] = new
        /\ \A s \in Runs : s # r => run'[s] = run[s]
    BY <2>2, <2>3, Becomes
  <2>6. /\ records' \in [Calls -> CallRecord \cup {None}] /\ records'[k] = row
        /\ \A j \in Calls : j # k => records'[j] = records[j]
    BY <2>0, <2>4 DEF Typed, row
  <2>7. Typed'
    BY <1>0, <2>5, <2>6 DEF Typed
  <2>8. run'[r].node \in Clean /\ run'[r].outcome = "" /\ Owes(r)'
    BY <1>1, <2>3, <2>5 DEF Clean, Owes, Owing
  <2>9. NodeOK(r)' /\ OutcomeOK(r)' /\ Early(r)'
    BY <1>0, <1>1, <2>8, CleanRun
  <2>10. ReportOK(r)'
    <3>1. /\ run'[r].call = k /\ k \in Calls /\ run'[r].node = "extract_structured"
          /\ call'[k].state = "ended" /\ run'[r].transcript = call'[k].said
          /\ records'[k] # None
      BY <1>0, <1>1, <1>k, <2>1, <2>3, <2>4, <2>5, <2>6
    <3> QED
      BY <3>1 DEF ReportOK, Ingested, Owing
  <2>11. RecordOK(k)
    BY <1>1 DEF IInv, CallInv
  <2>12. run'[r].call = k
    BY <1>k, <2>3, <2>5
  <2>13. RecordOK(k)'
    <3>1. \E s \in Runs : run'[s].call = k /\ Owes(s)'
      BY <2>8, <2>12
    <3>2. /\ records'[k] # None /\ records'[k].transcript = call[k].said
          /\ records'[k].extracted = None
      BY <2>1, <2>4, <2>6
    <3>3. call'[k] = call[k] /\ feedback'[k] = feedback[k] /\ llm' = llm
      BY <1>0
    <3>4. call[k].state = "ended"
      BY <1>1
    <3>5. ~llm' => feedback'[k] \in {None, extract_feedback(call'[k].said)}
      BY <1>a, <2>11, <3>3 DEF RecordOK
    <3>6. records'[k].transcript = call'[k].said /\ call'[k].state = "ended"
      BY <3>2, <3>3, <3>4
    <3> QED
      BY <3>1, <3>2, <3>5, <3>6 DEF RecordOK
  <2>15. records'[k] # None /\ UNCHANGED <<call, llm, overlap, effects, email, gate, decide, feedback>>
    BY <1>0, <1>1, <2>4, <2>6
  <2>16. \A j \in Calls : j # k => records'[j] = records[j] /\ feedback'[j] = feedback[j]
    BY <2>6, <2>15
  <2>17. feedback[k] # None => feedback'[k] # None
    BY <2>15
  <2> QED
    BY <1>1, <2>5, <2>7, <2>9, <2>10, <2>12, <2>13, <1>k, <2>15, <2>16, <2>17, StoreStep
<1> QED
  BY <1>2, <1>3, <1>k DEF ingest_call

LEMMA UpsertStep ==
    ASSUME IInv, NEW r \in Runs, upsert_feedback(r), UNCHANGED <<llm, overlap>>
    PROVE  IInv'
<1> USE OfRun
<1>0. /\ UNCHANGED <<call, llm, overlap, effects, email, gate, decide>>
      /\ run[r].node \in {"upsert_feedback", "get_record", "save_record"}
  BY DEF upsert_feedback, world, At
<1>a. ~llm' => ~llm
  OBVIOUS
<1>k. PICK k \in Calls : run[r].call = k
  BY <1>0 DEF ReportOK, Ingested, Owing
<1>1. /\ call[k].state = "ended" /\ records[k] # None /\ run[r].transcript = call[k].said
      /\ run[r].extracted # None
      /\ ~llm => run[r].extracted = extract_feedback(call[k].said)
  BY <1>0, <1>k DEF ReportOK, Ingested, Owing
<1>2. effects[r] = {} /\ gate[r] = "none" /\ email[r] = "none" /\ run[r].outcome = ""
  BY <1>0 DEF NodeOK, NodeFits, Clean, Ungated, Owing
<1>3. RecordOK(k)
  BY DEF IInv, CallInv
<1>4. CASE /\ At(r, "upsert_feedback")
           /\ feedback' = [feedback EXCEPT ![k] = run[r].extracted]
           /\ Goto(r, "get_record") /\ UNCHANGED records
  <2>1. "get_record" \in Nodes
    BY DEF Nodes
  <2>2. /\ run' \in [Runs -> RunRecords]
        /\ run'[r].node = "get_record" /\ run'[r].outcome = ""
        /\ run'[r].call = k /\ run'[r].transcript = call[k].said
        /\ run'[r].extracted = run[r].extracted
        /\ \A s \in Runs : s # r => run'[s] = run[s]
    BY <1>1, <1>2, <1>4, <1>k, <2>1, GotoFact
  <2>3. /\ feedback' \in [Calls -> Extracted \cup {None}] /\ feedback'[k] = run[r].extracted
        /\ \A j \in Calls : j # k => feedback'[j] = feedback[j]
    BY <1>4 DEF Typed, RunRecords
  <2>4. Typed'
    BY <1>0, <1>4, <2>2, <2>3 DEF Typed
  <2>5. run'[r].node \in Clean /\ Owes(r)'
    BY <2>2 DEF Clean, Owes, Owing
  <2>6. NodeOK(r)' /\ OutcomeOK(r)' /\ Early(r)'
    BY <1>0, <1>2, <2>2, <2>5, CleanRun
  <2>7. ~llm' => feedback'[k] = extract_feedback(call'[k].said)
                 /\ run'[r].extracted = extract_feedback(call'[k].said)
    BY <1>0, <1>1, <1>a, <2>2, <2>3
  <2>8. ReportOK(r)'
    BY <1>0, <1>1, <1>4, <2>2, <2>3, <2>7 DEF ReportOK, Ingested, Owing
  <2>9. RecordOK(k)'
    <3>1. call'[k] = call[k] /\ records'[k] = records[k] /\ feedback'[k] # None
      BY <1>0, <1>1, <1>4, <2>3
    <3>2. ~llm' => records[k].extracted = None
                   \/ records[k].extracted = extract_feedback(call[k].said)
      BY <1>1, <1>3, <1>a DEF RecordOK
    <3> QED
      BY <1>1, <1>3, <2>2, <2>5, <2>7, <3>1, <3>2 DEF RecordOK
  <2> QED
    BY <1>0, <1>1, <1>2, <1>4, <1>k, <2>2, <2>3, <2>4, <2>6, <2>8, <2>9, StoreStep
<1>5. CASE /\ At(r, "get_record")
           /\ run' = [run EXCEPT ![r].node = "save_record", ![r].record = records[k]]
           /\ UNCHANGED <<feedback, records>>
  <2> DEFINE new == [run[r] EXCEPT !.node = "save_record", !.record = records[k]]
  <2>1. "save_record" \in Nodes /\ records[k] \in CallRecord \cup {None}
        /\ run' = [run EXCEPT ![r] = new]
    BY <1>5 DEF Nodes, Typed
  <2>2. /\ new \in RunRecords /\ new.node = "save_record" /\ new.record = records[k]
        /\ new.call = run[r].call /\ new.transcript = run[r].transcript
        /\ new.extracted = run[r].extracted
        /\ new.outcome = run[r].outcome
    <3> HIDE DEF Nodes, Outcomes
    <3> QED
      BY ZenonT(60), <2>1 DEF RunRecords
  <2> HIDE DEF new
  <2>3. run' \in [Runs -> RunRecords] /\ run'[r] = new
        /\ \A s \in Runs : s # r => run'[s] = run[s]
    BY <2>1, <2>2, Becomes
  <2>4. run'[r].node \in Clean /\ run'[r].outcome = "" /\ Owes(r)'
    BY <1>2, <2>2, <2>3 DEF Clean, Owes, Owing
  <2>5. NodeOK(r)' /\ OutcomeOK(r)' /\ Early(r)'
    BY <1>0, <1>2, <2>4, CleanRun
  <2>6. ~llm' => run'[r].extracted = extract_feedback(call'[k].said)
    BY <1>0, <1>1, <1>a, <2>2, <2>3
  <2>7. records[k].transcript = call[k].said /\ feedback[k] # None
    BY <1>1, <1>3, <1>5, <1>k DEF RecordOK, ReportOK, At
  <2>8. ReportOK(r)'
    <3>1. /\ run'[r].call = k /\ k \in Calls /\ run'[r].node = "save_record"
          /\ call'[k].state = "ended" /\ run'[r].transcript = call'[k].said
          /\ records'[k] # None /\ feedback'[k] # None /\ run'[r].extracted # None
          /\ run'[r].record # None /\ run'[r].record.transcript = call'[k].said
      BY <1>0, <1>1, <1>5, <1>k, <2>2, <2>3, <2>7
    <3> QED
      BY <2>6, <3>1 DEF ReportOK, Ingested, Owing
  <2> QED
    BY <1>0, <1>2, <1>5, <1>k, <2>2, <2>3, <2>4, <2>5, <2>8, OwnStep
<1>6. CASE /\ At(r, "save_record")
           /\ records' = [records EXCEPT ![k] =
                            [run[r].record EXCEPT !.extracted = run[r].extracted]]
           /\ Goto(r, "sync_crm") /\ UNCHANGED feedback
  <2> DEFINE row == [run[r].record EXCEPT !.extracted = run[r].extracted]
  <2>1. "sync_crm" \in Nodes
    BY DEF Nodes
  <2>2. /\ run' \in [Runs -> RunRecords]
        /\ run'[r].node = "sync_crm" /\ run'[r].outcome = ""
        /\ run'[r].call = k /\ run'[r].transcript = call[k].said
        /\ \A s \in Runs : s # r => run'[s] = run[s]
    BY <1>1, <1>2, <1>6, <1>k, <2>1, GotoFact
  <2>3. /\ run[r].record \in CallRecord /\ run[r].record.transcript = call[k].said
        /\ run[r].extracted \in Extracted /\ feedback[k] # None
    BY <1>1, <1>6, <1>k DEF ReportOK, At, RunRecords
  <2>4. /\ row \in CallRecord /\ row.transcript = call[k].said
        /\ row.extracted = run[r].extracted
    BY <2>3 DEF CallRecord
  <2>5. row # None
    BY <2>4, WorkflowsAssumptions
  <2> HIDE DEF row
  <2>6. /\ records' \in [Calls -> CallRecord \cup {None}] /\ records'[k] = row
        /\ \A j \in Calls : j # k => records'[j] = records[j]
    BY <1>6, <2>4 DEF Typed, row
  <2>7. Typed'
    BY <1>0, <1>6, <2>2, <2>6 DEF Typed
  <2>8. run'[r].node \in Clean
    BY <2>2 DEF Clean
  <2>9. NodeOK(r)' /\ OutcomeOK(r)' /\ Early(r)'
    BY <1>0, <1>2, <2>2, <2>8, CleanRun
  <2>10. ReportOK(r)'
    BY <1>0, <1>1, <2>2, <2>5, <2>6 DEF ReportOK, Ingested, Owing
  <2>11. RecordOK(k)'
    <3>1. call'[k] = call[k] /\ feedback'[k] = feedback[k]
      BY <1>0, <1>6
    <3>2. ~llm' => /\ records'[k].extracted = extract_feedback(call'[k].said)
                   /\ feedback'[k] \in {None, extract_feedback(call'[k].said)}
      BY <1>1, <1>3, <1>a, <2>4, <2>6, <3>1 DEF RecordOK
    <3>3. /\ records'[k].transcript = call'[k].said /\ records'[k].extracted # None
          /\ call'[k].state = "ended" /\ feedback'[k] # None
      BY <1>1, <2>3, <2>4, <2>6, <3>1
    <3> QED
      BY <3>2, <3>3 DEF RecordOK
  <2> QED
    BY <1>0, <1>2, <1>6, <1>k, <2>2, <2>5, <2>6, <2>7, <2>9, <2>10, <2>11, StoreStep
<1> QED
  BY <1>4, <1>5, <1>6, <1>k DEF upsert_feedback

-----------------------------------------------------------------------------
\* The decide requests.

\* A run behind its gate keeps what it knows of its call, and what it owes.
LEMMA CallKept ==
    ASSUME IInv, NEW r \in Runs, UNCHANGED <<call, records, feedback, llm>>,
           \A s \in Runs : s # r => run'[s] = run[s] /\ effects'[s] = effects[s],
           run'[r].call = run[r].call, run'[r].transcript = run[r].transcript,
           run[r].node \in Gates \cup {"end"}, run'[r].node \in Gates \cup {"end"},
           "note" \in effects'[r] <=> "note" \in effects[r]
    PROVE  CallInv'
<1>1. ASSUME NEW s \in Runs
      PROVE  ReportOK(s)'
  <2>1. ReportOK(s)
    BY OfRun
  <2>2. CASE s # r
    BY <2>1, <2>2, ReportKept
  <2>3. CASE s = r
    <3>1. Ingested(r)' => Ingested(r)
      BY DEF Ingested, Owing, Gates
    <3>2. run'[r].node \notin Owing \cup {"idle", "ingest_call"}
      BY DEF Owing, Gates
    <3> QED
      BY <2>1, <2>3, <3>1, <3>2, ReportMoves
  <2> QED
    BY <2>2, <2>3
<1>2. ASSUME NEW k \in Calls
      PROVE  RecordOK(k)'
  <2>1. RecordOK(k)
    BY DEF IInv, CallInv
  <2>2. ~Owes(r)
    BY DEF Owes, Owing, Gates
  <2>3. \A s \in Runs : run[s].call = k /\ Owes(s) => run'[s].call = k /\ Owes(s)'
    BY <2>2 DEF Owes
  <2> QED
    BY <2>1, <2>3 DEF RecordOK
<1> QED
  BY <1>1, <1>2 DEF CallInv

\* What the steps that follow have in common: one request does something to the run
\* it is on, of the kind its gate stands for.
LEMMA DecisionStep ==
    ASSUME IInv, NEW d \in Decisions, NEW r \in Runs,
           UNCHANGED <<call, records, feedback, llm, overlap>>,
           run' \in [Runs -> RunRecords], effects' \in [Runs -> SUBSET Effects],
           email' \in [Runs -> Rows], gate' \in [Runs -> GateStates],
           decide' \in [Decisions -> DecideRecords],
           \A s \in Runs : s # r => /\ run'[s] = run[s] /\ effects'[s] = effects[s]
                                    /\ email'[s] = email[s] /\ gate'[s] = gate[s],
           \A e \in Decisions : e # d => decide'[e] = decide[e],
           decide'[d].of = r, decide[d].node = "idle" \/ decide[d].of = r,
           decide'[d].node # "idle", DecideFits(decide'[d], run'[r], effects'[r], email'[r]),
           run'[r].call = run[r].call, run'[r].transcript = run[r].transcript,
           run'[r].draft = run[r].draft, run'[r].node \in {run[r].node, "end"},
           gate[r] # "none", gate'[r] # "none",
           effects[r] \subseteq effects'[r], "note" \in effects'[r] => "note" \in effects[r],
           Hot(email[r], effects[r]) => Hot(email'[r], effects'[r]),
           Mail(email[r], effects[r]) => Mail(email'[r], effects'[r]),
           Marketing(email[r], effects[r]) => Marketing(email'[r], effects'[r]),
           OutcomeOK(r)', effects'[r] \cap Gated # {} => Approved(r)',
           ~overlap => RowOK(r)' /\ SoloOK(d)',
           ~overlap => \A e \in Decisions : e # d /\ decide[e].node \in InFlight
                                              => decide[e].of # r
    PROVE  IInv'
<1>1. Typed'
  BY DEF IInv, Typed
<1>2. run[r].node \in Gates \cup {"end"} /\ run'[r].node \in Gates \cup {"end"} /\ NodeOK(r)
  BY OfRun DEF NodeOK, NodeFits
<1>3. CallInv'
  BY <1>2, CallKept
<1>4. NodeOK(r)'
  BY <1>2 DEF NodeOK, NodeFits, Gates, Clean, Owing, Ungated
<1>5. RunInv'
  <2> SUFFICES ASSUME NEW s \in Runs
               PROVE  (RunOK(s) /\ (effects[s] \cap Gated # {} => Approved(s)))'
    BY DEF RunInv
  <2>1. CASE s = r
    BY <1>4, <2>1 DEF RunOK, NodeOK, OutcomeOK
  <2>2. CASE s # r
    <3>1. RunOK(s) /\ (effects[s] \cap Gated # {} => Approved(s))
      BY DEF IInv, RunInv
    <3>2. RunOK(s)'
      BY <2>2, <3>1 DEF RunOK
    <3>3. Approved(s) => Approved(s)'
      BY <2>2 DEF Approved
    <3> QED
      BY <2>2, <3>1, <3>2, <3>3
  <2> QED
    BY <2>1, <2>2
<1>6. DecideInv'
  <2> SUFFICES ASSUME NEW e \in Decisions, decide'[e].node # "idle"
               PROVE  /\ decide'[e].of \in Runs /\ gate'[decide'[e].of] # "none"
                      /\ DecideFits(decide'[e], run'[decide'[e].of], effects'[decide'[e].of],
                                    email'[decide'[e].of])
    BY DEF DecideInv, DecideOK
  <2>1. CASE e = d
    BY <2>1
  <2>2. CASE e # d
    <3>1. decide'[e] = decide[e] /\ decide[e].of \in Runs /\ gate[decide[e].of] # "none"
          /\ DecideFits(decide[e], run[decide[e].of], effects[decide[e].of],
                        email[decide[e].of])
      BY <2>2, OfDecision
    <3>2. CASE decide[e].of # r
      BY <3>1, <3>2
    <3>3. CASE decide[e].of = r
      <4>1. DecideFits(decide[e], run[r], effects[r], email[r])
        BY <3>1, <3>3
      <4>2. DecideFits(decide[e], run'[r], effects'[r], email'[r])
        BY <4>1 DEF DecideFits
      <4> QED
        BY <3>1, <3>3, <4>2
    <3> QED
      BY <3>2, <3>3
  <2> QED
    BY <2>1, <2>2
<1>7. ASSUME ~overlap'
      PROVE  SoloInv'
  <2>1. SoloInv /\ ~overlap
    BY <1>7 DEF IInv
  <2>2. ASSUME NEW s \in Runs
        PROVE  RowOK(s)'
    <3>1. RowOK(s)
      BY <2>1 DEF SoloInv
    <3> QED
      BY <2>1, <3>1 DEF RowOK
  <2>3. ASSUME NEW e \in Decisions
        PROVE  SoloOK(e)'
    <3>1. SoloOK(e)
      BY <2>1 DEF SoloInv
    <3>2. CASE e # d
      <4>1. decide'[e] = decide[e]
        BY <3>2
      <4>2. decide[e].node \in InFlight => decide[e].of \in Runs /\ decide[e].of # r
        <5>1. decide[e].node \in InFlight => decide[e].node # "idle"
          BY DEF InFlight
        <5> QED
          BY <2>1, <3>2, <5>1, OfDecision
      <4> QED
        BY <3>1, <4>1, <4>2 DEF SoloOK
    <3> QED
      BY <2>1, <3>2
  <2>4. ASSUME NEW e \in Decisions, NEW f \in Decisions,
               decide'[e].node \in InFlight, decide'[f].node \in InFlight,
               decide'[e].of = decide'[f].of
        PROVE  e = f
    <3>1. CASE e # d /\ f # d
      <4>1. decide'[e] = decide[e] /\ decide'[f] = decide[f]
        BY <3>1
      <4> QED
        BY <2>1, <2>4, <4>1 DEF SoloInv
    <3>2. CASE e = d \/ f = d
      BY <2>1, <2>4, <3>2
    <3> QED
      BY <3>1, <3>2
  <2> QED
    BY <2>2, <2>3, <2>4 DEF SoloInv
<1> QED
  BY <1>1, <1>3, <1>5, <1>6, <1>7 DEF IInv

\* Where decisions do not overlap, a request in flight is alone on its run.
LEMMA AloneFact ==
    ASSUME IInv, NEW d \in Decisions, decide[d].node \in InFlight
    PROVE  ~overlap => \A e \in Decisions : e # d /\ decide[e].node \in InFlight
                                              => decide[e].of # decide[d].of
BY DEF IInv, SoloInv

\* A request that is past its mark keeps the run approved, or not.
LEMMA ApprovedKept ==
    ASSUME NEW d \in Decisions, NEW r \in Runs, Approved(r),
           \A e \in Decisions : e # d => decide'[e] = decide[e],
           decide'[d].of = decide[d].of, decide'[d].verdict = decide[d].verdict,
           decide[d].node \notin {"idle", "checked", "lost"} =>
             decide'[d].node \notin {"idle", "checked", "lost"}
    PROVE  Approved(r)'
BY DEF Approved

\* A request goes to its next node and touches nothing else.
LEMMA FollowStep ==
    ASSUME IInv, NEW d \in Decisions, NEW r \in Runs, decide[d].of = r,
           NEW n \in InFlight \cup Over \cup {"lost"}, Follow(d, n),
           UNCHANGED <<call, records, feedback, llm, overlap, effects, email, gate>>,
           decide[d].node \in InFlight, n \notin {"idle", "checked"},
           n = "lost" => decide[d].node = "checked",
           DecideFits([decide[d] EXCEPT !.node = n], run[r], effects[r], email[r]),
           ~overlap /\ n \in InFlight =>
             SoloFits([decide[d] EXCEPT !.node = n], run[r], effects[r], email[r], gate[r])
    PROVE  IInv'
<1>1. decide[d].node # "idle"
  BY DEF InFlight
<1>2. /\ r \in Runs /\ gate[r] # "none" /\ OutcomeOK(r) /\ (~overlap => RowOK(r))
      /\ decide[d] \in DecideRecords
  BY <1>1, OfDecision
<1>3. /\ decide' \in [Decisions -> DecideRecords] /\ run' = run
      /\ decide'[d].node = n /\ decide'[d].of = r /\ decide'[d].verdict = decide[d].verdict
      /\ \A e \in Decisions : e # d => decide'[e] = decide[e]
  BY <1>2, FollowFact, OfRun
<1>4. decide'[d] = [decide[d] EXCEPT !.node = n]
  BY DEF Follow, IInv, Typed
<1>5. DecideFits(decide'[d], run'[r], effects'[r], email'[r])
  BY <1>3, <1>4
<1>6. ~overlap => SoloOK(d)'
  BY <1>3, <1>4 DEF SoloOK
<1>7. OutcomeOK(r)' /\ (~overlap => RowOK(r)')
  BY <1>2, <1>3 DEF OutcomeOK, RowOK
<1>8. effects[r] \cap Gated # {} => Approved(r)
  BY <1>2, OfRun
<1>9. effects'[r] \cap Gated # {} => Approved(r)'
  BY <1>2, <1>3, <1>8, ApprovedKept
<1>10. /\ run' \in [Runs -> RunRecords] /\ effects' \in [Runs -> SUBSET Effects]
       /\ email' \in [Runs -> Rows] /\ gate' \in [Runs -> GateStates]
  BY <1>2, <1>3, OfRun
<1>11. ~overlap => \A e \in Decisions : e # d /\ decide[e].node \in InFlight
                                          => decide[e].of # r
  BY AloneFact
<1>12. gate'[r] # "none" /\ run'[r] = run[r] /\ effects'[r] = effects[r]
       /\ email'[r] = email[r]
  BY <1>2, <1>3
<1>13. \A s \in Runs : s # r => /\ run'[s] = run[s] /\ effects'[s] = effects[s]
                                /\ email'[s] = email[s] /\ gate'[s] = gate[s]
  BY <1>3
<1> QED
  BY <1>2, <1>3, <1>5, <1>6, <1>7, <1>9, <1>10, <1>11, <1>12, <1>13, DecisionStep


\* A request ends its thread, with a last effect perhaps.
LEMMA FinishStep ==
    ASSUME IInv, NEW d \in Decisions, NEW r \in Runs, decide[d].of = r,
           NEW o \in Outcomes, Finish(d, o),
           UNCHANGED <<call, records, feedback, llm, overlap, gate>>,
           decide[d].node \in InFlight \ {"checked"},
           effects' \in [Runs -> SUBSET Effects], email' \in [Runs -> Rows],
           \A s \in Runs : s # r => effects'[s] = effects[s] /\ email'[s] = email[s],
           effects[r] \subseteq effects'[r], "note" \in effects'[r] => "note" \in effects[r],
           Hot(email[r], effects[r]) => Hot(email'[r], effects'[r]),
           Mail(email[r], effects[r]) => Mail(email'[r], effects'[r]),
           Marketing(email[r], effects[r]) => Marketing(email'[r], effects'[r]),
           effects'[r] = effects[r] \/ decide[d].verdict = "approved",
           o \notin {"synced", "not_eligible", "no_transcript"},
           o = "published" => /\ run[r].draft /\ decide[d].plan # <<>>
                              /\ Range(decide[d].plan) \subseteq effects'[r],
           o = "agent_notified" => effects'[r] = {"note", "call_log", "hot_task"},
           ~overlap => RowFits([node |-> "end", outcome |-> o, plan |-> decide[d].plan],
                               effects'[r], email'[r], gate[r])
    PROVE  IInv'
<1>1. decide[d].node \notin {"idle", "checked", "lost"}
  BY DEF InFlight
<1>2. /\ gate[r] # "none" /\ decide[d] \in DecideRecords /\ Typed
      /\ gate \in [Runs -> GateStates]
  BY <1>1, OfDecision, OfRun
<1>3. /\ decide' \in [Decisions -> DecideRecords] /\ run' \in [Runs -> RunRecords]
      /\ decide'[d].node = "end" /\ decide'[d].of = r
      /\ decide'[d].verdict = decide[d].verdict
      /\ \A e \in Decisions : e # d => decide'[e] = decide[e]
      /\ run'[r].node = "end" /\ run'[r].outcome = o /\ run'[r].plan = decide[d].plan
      /\ run'[r].call = run[r].call /\ run'[r].transcript = run[r].transcript
      /\ run'[r].draft = run[r].draft
      /\ \A s \in Runs : s # r => run'[s] = run[s]
  BY <1>2, FinishFact
<1>4. DecideFits(decide'[d], run'[r], effects'[r], email'[r])
  BY <1>3 DEF DecideFits, Allowed, Heating, Mailing, Publishing
<1>5. OutcomeOK(r)'
  BY <1>3 DEF OutcomeOK, OutcomeFits
<1>6. effects'[r] \cap Gated # {} => Approved(r)'
  <2>1. CASE decide[d].verdict = "approved"
    BY <1>3, <2>1 DEF Approved
  <2>2. CASE effects'[r] = effects[r]
    <3>1. effects[r] \cap Gated # {} => Approved(r)
      BY OfRun
    <3>2. Approved(r) => Approved(r)'
      BY <1>3, ApprovedKept
    <3> QED
      BY <2>2, <3>1, <3>2
  <2> QED
    BY <2>1, <2>2
<1>7. ~overlap => RowOK(r)'
  BY <1>3 DEF RowOK, RowFits
<1>8. SoloOK(d)'
  BY <1>3 DEF SoloOK, InFlight
<1>9. ~overlap => \A e \in Decisions : e # d /\ decide[e].node \in InFlight
                                         => decide[e].of # r
  BY AloneFact
<1>10. /\ \A s \in Runs : s # r => /\ run'[s] = run[s] /\ effects'[s] = effects[s]
                                   /\ email'[s] = email[s] /\ gate'[s] = gate[s]
       /\ gate'[r] # "none" /\ gate' \in [Runs -> GateStates]
       /\ run'[r].node \in {run[r].node, "end"} /\ decide'[d].node # "idle"
  BY <1>2, <1>3
<1> QED
  BY <1>2, <1>3, <1>4, <1>5, <1>6, <1>7, <1>8, <1>9, <1>10, DecisionStep

\* Outcomes of a decide request, and the nodes it goes to.
LEMMA DecideWords ==
    /\ {"agent_notified", "hot_signal_dismissed", "followup_sent", "followup_dismissed",
        "not_found", "published", "rejected"} \subseteq Outcomes
    /\ InFlight \cup {"end", "raised", "lost"} \subseteq InFlight \cup Over \cup {"lost"}
BY DEF Outcomes, COMPLETED_VALUES, Over

LEMMA HotTaskStep ==
    ASSUME IInv, NEW d \in Decisions, create_hot_task(d), UNCHANGED <<llm, overlap>>
    PROVE  IInv'
<1>1. decide[d].node \in {"create_hot_task", "dismiss_hot"}
  BY DEF create_hot_task, On
<1>2. decide[d].node # "idle" /\ decide[d].node \in InFlight \ {"checked"}
  BY <1>1 DEF InFlight
<1>3. PICK r \in Runs : r = decide[d].of
  BY <1>2, OfDecision
<1>4. /\ DecideFits(decide[d], run[r], effects[r], email[r]) /\ gate[r] # "none"
      /\ ~overlap => SoloFits(decide[d], run[r], effects[r], email[r], gate[r])
      /\ decide[d].verdict \in Verdicts
  BY <1>2, <1>3, OfDecision
<1>5. /\ Typed /\ effects \in [Runs -> SUBSET Effects] /\ email \in [Runs -> Rows]
      /\ effects[r] \subseteq Effects
  BY OfRun
<1>6. UNCHANGED <<call, records, feedback, email, gate>>
  BY DEF create_hot_task, world, filed
<1>7. Hot(email[r], effects[r])
  BY <1>1, <1>4 DEF DecideFits, Heating
<1>8. CASE On(d, "create_hot_task") /\ Effect(r, "hot_task") /\ Finish(d, "agent_notified")
  <2>1. /\ effects' \in [Runs -> SUBSET Effects] /\ effects'[r] = effects[r] \cup {"hot_task"}
        /\ \A s \in Runs : s # r => effects'[s] = effects[s]
    BY <1>5, <1>8, EffectFact DEF Effects
  <2>2. decide[d].verdict = "approved"
    BY <1>4, <1>8 DEF DecideFits, Allowed, On
  <2>3. effects'[r] = {"note", "call_log", "hot_task"}
    BY <1>7, <2>1 DEF Hot
  <2>4. Hot(email'[r], effects'[r]) /\ ("note" \in effects'[r] => "note" \in effects[r])
        /\ ~Mail(email[r], effects[r]) /\ ~Marketing(email[r], effects[r])
    BY <1>6, <1>7, <2>3 DEF Hot, Mail, Marketing, MarketingTasks
  <2>5. ~overlap => RowFits([node |-> "end", outcome |-> "agent_notified",
                             plan |-> decide[d].plan], effects'[r], email'[r], gate[r])
    <3>1. ~overlap => gate[r] = "approved"
      BY <1>4, <1>8, <2>2 DEF SoloFits, On
    <3>2. email'[r] = "none"
      BY <1>6, <1>7 DEF Hot
    <3> QED
      BY <3>1, <3>2 DEF RowFits
  <2>6. /\ email' \in [Runs -> Rows] /\ effects[r] \subseteq effects'[r]
        /\ \A s \in Runs : s # r => effects'[s] = effects[s] /\ email'[s] = email[s]
    BY <1>5, <1>6, <2>1
  <2>7. "agent_notified" \in Outcomes /\ "agent_notified" # "published"
        /\ "agent_notified" \notin {"synced", "not_eligible", "no_transcript"}
    BY DecideWords
  <2>8. UNCHANGED <<call, records, feedback, llm, overlap, gate>> /\ Finish(d, "agent_notified")
    BY <1>6, <1>8
  <2> QED
    BY <1>2, <1>3, <2>1, <2>2, <2>3, <2>4, <2>5, <2>6, <2>7, <2>8, FinishStep
<1>9. CASE On(d, "dismiss_hot") /\ Finish(d, "hot_signal_dismissed") /\ UNCHANGED effects
  <2>1. ~overlap => RowFits([node |-> "end", outcome |-> "hot_signal_dismissed",
                             plan |-> decide[d].plan], effects'[r], email'[r], gate[r])
    BY <1>4, <1>6, <1>9 DEF SoloFits, On, RowFits, Verdicts
  <2>2. /\ effects' \in [Runs -> SUBSET Effects] /\ email' \in [Runs -> Rows]
        /\ \A s \in Runs : effects'[s] = effects[s] /\ email'[s] = email[s]
    BY <1>5, <1>6, <1>9
  <2> QED
    BY <1>2, <1>3, <1>6, <1>9, <2>1, <2>2, DecideWords, FinishStep
<1> QED
  BY <1>3, <1>8, <1>9 DEF create_hot_task

\* What a request in flight knows.
LEMMA InFlightFact ==
    ASSUME IInv, NEW d \in Decisions, decide[d].node \in InFlight
    PROVE  \E r \in Runs :
             /\ r = decide[d].of /\ gate[r] # "none"
             /\ decide[d].node # "idle" /\ decide[d] \in DecideRecords
             /\ decide[d].verdict \in Verdicts
             /\ DecideFits(decide[d], run[r], effects[r], email[r])
             /\ ~overlap => SoloFits(decide[d], run[r], effects[r], email[r], gate[r])
             /\ run[r].node \in Gates \cup {"end"}
             /\ Typed /\ effects \in [Runs -> SUBSET Effects] /\ email \in [Runs -> Rows]
             /\ gate \in [Runs -> GateStates]
<1>1. decide[d].node # "idle"
  BY DEF InFlight
<1>2. decide[d].of \in Runs
  BY <1>1, OfDecision
<1> QED
  BY <1>1, <1>2, OfDecision, OfRun

\* A request that has an effect, or saves a row, and goes to its next node.
LEMMA EffectStep ==
    ASSUME IInv, NEW d \in Decisions, NEW r \in Runs, decide[d].of = r,
           NEW n \in InFlight \cup Over \cup {"lost"},
           decide' \in [Decisions -> DecideRecords], run' = run,
           decide'[d].node = n, decide'[d].of = r, decide'[d].verdict = decide[d].verdict,
           \A e \in Decisions : e # d => decide'[e] = decide[e],
           UNCHANGED <<call, records, feedback, llm, overlap, gate>>,
           decide[d].node \in InFlight \ {"checked"}, n \notin {"idle", "checked", "lost"},
           effects' \in [Runs -> SUBSET Effects], email' \in [Runs -> Rows],
           \A s \in Runs : s # r => effects'[s] = effects[s] /\ email'[s] = email[s],
           effects[r] \subseteq effects'[r], "note" \in effects'[r] => "note" \in effects[r],
           Hot(email[r], effects[r]) => Hot(email'[r], effects'[r]),
           Mail(email[r], effects[r]) => Mail(email'[r], effects'[r]),
           Marketing(email[r], effects[r]) => Marketing(email'[r], effects'[r]),
           effects'[r] = effects[r] \/ decide[d].verdict = "approved",
           DecideFits(decide'[d], run[r], effects'[r], email'[r]),
           OutcomeOK(r)',
           ~overlap => RowOK(r)',
           ~overlap /\ n \in InFlight =>
             SoloFits(decide'[d], run[r], effects'[r], email'[r], gate[r])
    PROVE  IInv'
<1>1. decide[d].node \notin {"idle", "checked", "lost"}
  BY DEF InFlight
<1>2. gate[r] # "none" /\ Typed /\ gate \in [Runs -> GateStates] /\ run \in [Runs -> RunRecords]
  BY <1>1, OfDecision, OfRun
<1>3. effects'[r] \cap Gated # {} => Approved(r)'
  <2>1. CASE decide[d].verdict = "approved"
    BY <2>1 DEF Approved
  <2>2. CASE effects'[r] = effects[r]
    <3>1. effects[r] \cap Gated # {} => Approved(r)
      BY OfRun
    <3>2. Approved(r) => Approved(r)'
      BY ApprovedKept
    <3> QED
      BY <2>2, <3>1, <3>2
  <2> QED
    BY <2>1, <2>2
<1>4. ~overlap => SoloOK(d)'
  BY DEF SoloOK
<1>5. ~overlap => \A e \in Decisions : e # d /\ decide[e].node \in InFlight
                                         => decide[e].of # r
  BY AloneFact
<1>6. /\ \A s \in Runs : s # r => /\ run'[s] = run[s] /\ effects'[s] = effects[s]
                                  /\ email'[s] = email[s] /\ gate'[s] = gate[s]
      /\ gate'[r] # "none" /\ gate' \in [Runs -> GateStates]
      /\ run' \in [Runs -> RunRecords] /\ run'[r] = run[r] /\ decide'[d].node # "idle"
  BY <1>2
<1>7. DecideFits(decide'[d], run'[r], effects'[r], email'[r])
  BY <1>6
<1> QED
  BY <1>2, <1>3, <1>4, <1>5, <1>6, <1>7, DecisionStep

\* The email's row and the email, where decisions do not overlap: nothing outward
\* before port.send.
LEMMA OutcomeKept ==
    ASSUME NEW r \in Runs, OutcomeOK(r), run' = run, gate' = gate,
           Mail(email[r], effects[r]), Mail(email'[r], effects'[r]),
           effects[r] \subseteq effects'[r]
    PROVE  OutcomeOK(r)'
BY DEF OutcomeOK, OutcomeFits, Mail

LEMMA SendStep ==
    ASSUME IInv, NEW d \in Decisions, send_followup_email(d), UNCHANGED <<llm, overlap>>
    PROVE  IInv'
<1>1. decide[d].node \in {"send_followup_email", "port_send", "save_sent"}
  BY DEF send_followup_email, On
<1>2. decide[d].node \in InFlight \ {"checked"} /\ decide[d].node \in InFlight
  BY <1>1 DEF InFlight
<1>3. PICK r \in Runs :
             /\ r = decide[d].of /\ gate[r] # "none"
             /\ decide[d].node # "idle" /\ decide[d] \in DecideRecords
             /\ decide[d].verdict \in Verdicts
             /\ DecideFits(decide[d], run[r], effects[r], email[r])
             /\ ~overlap => SoloFits(decide[d], run[r], effects[r], email[r], gate[r])
             /\ run[r].node \in Gates \cup {"end"}
             /\ Typed /\ effects \in [Runs -> SUBSET Effects] /\ email \in [Runs -> Rows]
             /\ gate \in [Runs -> GateStates]
  BY <1>2, InFlightFact
<1>4. UNCHANGED <<call, records, feedback, gate>>
  BY DEF send_followup_email, world, filed
<1>5. Mail(email[r], effects[r]) /\ decide[d].verdict = "approved"
      /\ ~Hot(email[r], effects[r]) /\ ~Marketing(email[r], effects[r])
  BY <1>1, <1>3 DEF DecideFits, Mailing, Allowed, Mail, Hot, Marketing
<1>6. OutcomeOK(r) /\ (~overlap => RowOK(r))
  BY <1>3, OfDecision
<1>7. CASE On(d, "send_followup_email") /\ email[r] \in {"pending", "failed"}
           /\ Follow(d, "port_send") /\ UNCHANGED <<effects, email>>
  <2>1. DecideFits([decide[d] EXCEPT !.node = "port_send"], run[r], effects[r], email[r])
    BY <1>3, <1>5 DEF DecideFits, Allowed, Heating, Mailing, Publishing, DecideRecords
  <2>2. ~overlap => SoloFits([decide[d] EXCEPT !.node = "port_send"],
                             run[r], effects[r], email[r], gate[r])
    BY <1>3, <1>7 DEF SoloFits, On, DecideRecords
  <2>3. "port_send" \in InFlight
    BY DEF InFlight
  <2> QED
    BY <1>2, <1>3, <1>4, <1>7, <2>1, <2>2, <2>3, FollowStep
<1>8. CASE On(d, "send_followup_email") /\ email[r] \notin {"pending", "failed"}
           /\ Finish(d, "followup_sent") /\ UNCHANGED <<effects, email>>
  <2>1. overlap
    BY <1>3, <1>5, <1>8 DEF SoloFits, On, Mail
  <2>2. "followup_sent" \in Outcomes
    BY DecideWords
  <2>3. /\ effects' \in [Runs -> SUBSET Effects] /\ email' \in [Runs -> Rows]
        /\ \A s \in Runs : effects'[s] = effects[s] /\ email'[s] = email[s]
    BY <1>3, <1>8
  <2>4. Finish(d, "followup_sent") /\ UNCHANGED <<call, records, feedback, llm, overlap, gate>>
    BY <1>4, <1>8
  <2> QED
    BY <1>2, <1>3, <2>1, <2>2, <2>3, <2>4, FinishStep
<1>9. CASE On(d, "port_send") /\ Effect(r, "email") /\ Follow(d, "save_sent")
           /\ UNCHANGED email
  <2>1. /\ effects' \in [Runs -> SUBSET Effects] /\ effects'[r] = effects[r] \cup {"email"}
        /\ \A s \in Runs : s # r => effects'[s] = effects[s]
    BY <1>3, <1>9, EffectFact DEF Effects
  <2>2. "save_sent" \in InFlight /\ "save_sent" \in InFlight \cup Over \cup {"lost"}
    BY DEF InFlight
  <2>3. /\ decide' \in [Decisions -> DecideRecords] /\ run' = run
        /\ decide'[d].node = "save_sent" /\ decide'[d].of = r
        /\ decide'[d].verdict = decide[d].verdict
        /\ \A e \in Decisions : e # d => decide'[e] = decide[e]
    BY <1>3, <1>9, <2>2, FollowFact
  <2>4. Mail(email'[r], effects'[r]) /\ effects[r] \subseteq effects'[r]
        /\ ("note" \in effects'[r] => "note" \in effects[r])
    BY <1>5, <1>9, <2>1 DEF Mail
  <2>5. OutcomeOK(r)'
    BY <1>4, <1>5, <1>6, <2>3, <2>4, OutcomeKept
  <2>6. DecideFits(decide'[d], run[r], effects'[r], email'[r])
    BY <1>5, <2>1, <2>3, <2>4 DEF DecideFits, Allowed, Heating, Mailing, Publishing
  <2>7. ASSUME ~overlap
        PROVE  RowOK(r)' /\ SoloFits(decide'[d], run[r], effects'[r], email'[r], gate[r])
    <3>1. SoloFits(decide[d], run[r], effects[r], email[r], gate[r]) /\ RowOK(r)
      BY <1>3, <1>6, <2>7
    <3>2. gate[r] = "approved" /\ run[r].node \in Gates /\ run[r].outcome = ""
          /\ email[r] = "pending"
      <4>1. gate[r] = "approved" /\ run[r].node \in Gates /\ email[r] = "pending"
        BY <1>5, <1>9, <3>1 DEF SoloFits, On, Mail
      <4>2. run[r].outcome = ""
        BY <1>6, <4>1 DEF OutcomeOK, OutcomeFits, Gates
      <4> QED
        BY <4>1, <4>2
    <3>3. RowOK(r)'
      BY <1>4, <1>9, <2>3, <3>2 DEF RowOK, RowFits
    <3>4. SoloFits(decide'[d], run[r], effects'[r], email'[r], gate[r])
      BY <1>5, <1>9, <2>3, <3>2 DEF SoloFits
    <3> QED
      BY <3>3, <3>4
  <2>8. /\ email' \in [Runs -> Rows] /\ effects' \in [Runs -> SUBSET Effects]
        /\ \A s \in Runs : s # r => effects'[s] = effects[s] /\ email'[s] = email[s]
    BY <1>3, <1>9, <2>1
  <2>9. decide[d].of = r /\ UNCHANGED <<call, records, feedback, llm, overlap, gate>>
    BY <1>3, <1>4
  <2>10. "save_sent" \notin {"idle", "checked", "lost"}
    OBVIOUS
  <2> QED
    BY <1>2, <1>5, <2>2, <2>3, <2>4, <2>5, <2>6, <2>7, <2>8, <2>9, <2>10, EffectStep
<1>10. CASE On(d, "save_sent") /\ email' = [email EXCEPT ![r] = "sent"]
            /\ Finish(d, "followup_sent") /\ UNCHANGED effects
  <2>1. /\ email' \in [Runs -> Rows] /\ email'[r] = "sent"
        /\ \A s \in Runs : s # r => email'[s] = email[s]
    BY <1>3, <1>10 DEF Rows
  <2>2. "email" \in effects[r] /\ effects'[r] = effects[r]
        /\ effects' \in [Runs -> SUBSET Effects]
    BY <1>3, <1>10 DEF DecideFits, On
  <2>3. Mail(email'[r], effects'[r])
    BY <1>5, <2>1, <2>2 DEF Mail
  <2>4. ~overlap => RowFits([node |-> "end", outcome |-> "followup_sent",
                             plan |-> decide[d].plan], effects'[r], email'[r], gate[r])
    <3>1. ~overlap => gate[r] = "approved"
      BY <1>3, <1>5, <1>10 DEF SoloFits, On
    <3>2. effects'[r] = {"note", "call_log", "email"}
      BY <2>2, <2>3 DEF Mail
    <3> QED
      BY <2>1, <3>1, <3>2 DEF RowFits
  <2>5. "followup_sent" \in Outcomes
    BY DecideWords
  <2>6. /\ Finish(d, "followup_sent")
        /\ UNCHANGED <<call, records, feedback, llm, overlap, gate>>
        /\ \A s \in Runs : s # r => effects'[s] = effects[s] /\ email'[s] = email[s]
    BY <1>4, <1>10, <2>1
  <2> QED
    BY <1>2, <1>3, <1>5, <2>1, <2>2, <2>3, <2>4, <2>5, <2>6, FinishStep
<1> QED
  BY <1>3, <1>7, <1>8, <1>9, <1>10 DEF send_followup_email

LEMMA SendRaisesStep ==
    ASSUME IInv, NEW d \in Decisions, SendRaises(d), UNCHANGED <<llm, overlap>>
    PROVE  IInv'
<1>1. decide[d].node = "port_send"
  BY DEF SendRaises, On
<1>2. decide[d].node \in InFlight \ {"checked"} /\ decide[d].node \in InFlight
  BY <1>1 DEF InFlight
<1>3. PICK r \in Runs :
             /\ r = decide[d].of /\ gate[r] # "none"
             /\ decide[d].node # "idle" /\ decide[d] \in DecideRecords
             /\ decide[d].verdict \in Verdicts
             /\ DecideFits(decide[d], run[r], effects[r], email[r])
             /\ ~overlap => SoloFits(decide[d], run[r], effects[r], email[r], gate[r])
             /\ run[r].node \in Gates \cup {"end"}
             /\ Typed /\ effects \in [Runs -> SUBSET Effects] /\ email \in [Runs -> Rows]
             /\ gate \in [Runs -> GateStates]
  BY <1>2, InFlightFact
<1>4. UNCHANGED <<call, records, feedback, gate>>
  BY DEF SendRaises, world, filed
<1>5. Mail(email[r], effects[r]) /\ decide[d].verdict = "approved"
      /\ ~Hot(email[r], effects[r]) /\ ~Marketing(email[r], effects[r])
  BY <1>1, <1>3 DEF DecideFits, Mailing, Allowed, Mail, Hot, Marketing
<1>6. OutcomeOK(r) /\ (~overlap => RowOK(r))
  BY <1>3, OfDecision
<1>7. /\ effects' \in [Runs -> SUBSET Effects]
      /\ effects'[r] \in {effects[r], effects[r] \cup {"email"}}
      /\ \A s \in Runs : s # r => effects'[s] = effects[s]
  <2>1. CASE Effect(r, "email")
    BY <1>3, <2>1, EffectFact DEF Effects
  <2>2. CASE UNCHANGED effects
    BY <1>3, <2>2
  <2> QED
    BY <1>3, <2>1, <2>2 DEF SendRaises
<1>8. /\ email' \in [Runs -> Rows] /\ email'[r] = "failed"
      /\ \A s \in Runs : s # r => email'[s] = email[s]
  BY <1>3 DEF SendRaises, Rows
<1>9. "raised" \in InFlight \cup Over \cup {"lost"} /\ "raised" \notin InFlight
      /\ Follow(d, "raised")
  BY DEF InFlight, Over, SendRaises
<1>10. /\ decide' \in [Decisions -> DecideRecords] /\ run' = run
       /\ decide'[d].node = "raised" /\ decide'[d].of = r
       /\ decide'[d].verdict = decide[d].verdict
       /\ \A e \in Decisions : e # d => decide'[e] = decide[e]
  BY <1>3, <1>9, FollowFact
<1>11. Mail(email'[r], effects'[r]) /\ effects[r] \subseteq effects'[r]
       /\ ("note" \in effects'[r] => "note" \in effects[r])
  BY <1>5, <1>7, <1>8 DEF Mail
<1>12. OutcomeOK(r)'
  BY <1>4, <1>5, <1>6, <1>10, <1>11, OutcomeKept
<1>13. DecideFits(decide'[d], run[r], effects'[r], email'[r])
  BY <1>10 DEF DecideFits, Allowed, Heating, Mailing, Publishing
<1>14. ASSUME ~overlap
       PROVE  RowOK(r)'
  <2>1. SoloFits(decide[d], run[r], effects[r], email[r], gate[r])
    BY <1>3, <1>14
  <2>2. gate[r] = "approved" /\ run[r].node \in Gates
    BY <1>1, <1>5, <2>1 DEF SoloFits
  <2>3. run[r].outcome = ""
    BY <1>6, <2>2 DEF OutcomeOK, OutcomeFits, Gates
  <2> QED
    BY <1>4, <1>8, <1>10, <2>2, <2>3 DEF RowOK, RowFits
<1> QED
  BY <1>2, <1>3, <1>4, <1>5, <1>7, <1>8, <1>9, <1>10, <1>11, <1>12, <1>13, <1>14, EffectStep

LEMMA DismissStep ==
    ASSUME IInv, NEW d \in Decisions, dismiss_followup_email(d), UNCHANGED <<llm, overlap>>
    PROVE  IInv'
<1>1. decide[d].node \in {"dismiss_followup_email", "save_rejected"}
  BY DEF dismiss_followup_email, On
<1>2. decide[d].node \in InFlight \ {"checked"} /\ decide[d].node \in InFlight
  BY <1>1 DEF InFlight
<1>3. PICK r \in Runs :
             /\ r = decide[d].of /\ gate[r] # "none"
             /\ decide[d].node # "idle" /\ decide[d] \in DecideRecords
             /\ decide[d].verdict \in Verdicts
             /\ DecideFits(decide[d], run[r], effects[r], email[r])
             /\ ~overlap => SoloFits(decide[d], run[r], effects[r], email[r], gate[r])
             /\ run[r].node \in Gates \cup {"end"}
             /\ Typed /\ effects \in [Runs -> SUBSET Effects] /\ email \in [Runs -> Rows]
             /\ gate \in [Runs -> GateStates]
  BY <1>2, InFlightFact
<1>4. UNCHANGED <<call, records, feedback, gate, effects>>
  BY DEF dismiss_followup_email, world, filed
<1>5. Mail(email[r], effects[r])
      /\ ~Hot(email[r], effects[r]) /\ ~Marketing(email[r], effects[r])
  BY <1>1, <1>3 DEF DecideFits, Mailing, Mail, Hot, Marketing
<1>6. effects'[r] = effects[r] /\ effects' \in [Runs -> SUBSET Effects]
      /\ \A s \in Runs : effects'[s] = effects[s]
  BY <1>3, <1>4
<1>7. ~overlap => effects[r] \cap Gated = {} /\ gate[r] # "pending"
  BY <1>1, <1>3 DEF SoloFits, Verdicts
<1>8. "followup_dismissed" \in Outcomes
  BY DecideWords
<1>9. CASE On(d, "dismiss_followup_email") /\ email[r] = "pending"
           /\ Follow(d, "save_rejected") /\ UNCHANGED email
  <2>1. DecideFits([decide[d] EXCEPT !.node = "save_rejected"], run[r], effects[r], email[r])
    BY <1>3, <1>5 DEF DecideFits, Allowed, Heating, Mailing, Publishing, DecideRecords
  <2>2. ~overlap => SoloFits([decide[d] EXCEPT !.node = "save_rejected"],
                             run[r], effects[r], email[r], gate[r])
    BY <1>3, <1>9 DEF SoloFits, On, DecideRecords
  <2>3. "save_rejected" \in InFlight
    BY DEF InFlight
  <2> QED
    BY <1>2, <1>3, <1>4, <1>9, <2>1, <2>2, <2>3, FollowStep
<1>10. CASE On(d, "dismiss_followup_email") /\ Finish(d, "followup_dismissed")
            /\ UNCHANGED email
  <2>1. ~overlap => RowFits([node |-> "end", outcome |-> "followup_dismissed",
                             plan |-> decide[d].plan], effects'[r], email'[r], gate[r])
    BY <1>6, <1>7 DEF RowFits
  <2>2. /\ email' \in [Runs -> Rows] /\ email'[r] = email[r]
        /\ \A s \in Runs : s # r => effects'[s] = effects[s] /\ email'[s] = email[s]
    BY <1>3, <1>6, <1>10
  <2>3. UNCHANGED <<call, records, feedback, llm, overlap, gate>>
    BY <1>4
  <2> QED
    BY <1>2, <1>3, <1>6, <1>8, <1>10, <2>1, <2>2, <2>3, FinishStep
<1>11. CASE On(d, "save_rejected") /\ email' = [email EXCEPT ![r] = "rejected"]
            /\ Finish(d, "followup_dismissed")
  <2>1. ~overlap => RowFits([node |-> "end", outcome |-> "followup_dismissed",
                             plan |-> decide[d].plan], effects'[r], email'[r], gate[r])
    BY <1>6, <1>7 DEF RowFits
  <2>2. /\ email' \in [Runs -> Rows] /\ email'[r] = "rejected"
        /\ \A s \in Runs : s # r => effects'[s] = effects[s] /\ email'[s] = email[s]
    BY <1>3, <1>6, <1>11 DEF Rows
  <2>3. UNCHANGED <<call, records, feedback, llm, overlap, gate>>
    BY <1>4
  <2>4. Mail(email'[r], effects'[r])
    BY <1>5, <1>6, <2>2 DEF Mail
  <2> QED
    BY <1>2, <1>3, <1>5, <1>6, <1>8, <1>11, <2>1, <2>2, <2>3, <2>4, FinishStep
<1> QED
  BY <1>3, <1>9, <1>10, <1>11 DEF dismiss_followup_email

\* What publish_tasks decides at each of its nodes.
LEMMA PublishStep ==
    ASSUME IInv, NEW d \in Decisions, publish_tasks(d), UNCHANGED <<llm, overlap>>
    PROVE  IInv'
<1>1. decide[d].node \in Publishing
  BY DEF publish_tasks, On, Publishing
<1>2. decide[d].node \in InFlight \ {"checked"} /\ decide[d].node \in InFlight
  BY <1>1 DEF InFlight, Publishing
<1>3. PICK r \in Runs :
             /\ r = decide[d].of /\ gate[r] # "none"
             /\ decide[d].node # "idle" /\ decide[d] \in DecideRecords
             /\ decide[d].verdict \in Verdicts
             /\ DecideFits(decide[d], run[r], effects[r], email[r])
             /\ ~overlap => SoloFits(decide[d], run[r], effects[r], email[r], gate[r])
             /\ run[r].node \in Gates \cup {"end"}
             /\ Typed /\ effects \in [Runs -> SUBSET Effects] /\ email \in [Runs -> Rows]
             /\ gate \in [Runs -> GateStates]
  BY <1>2, InFlightFact
<1>4. UNCHANGED <<call, records, feedback, gate, email>>
  BY DEF publish_tasks, world, filed
<1>5. Marketing(email[r], effects[r]) /\ run[r].draft
      /\ ~Hot(email[r], effects[r]) /\ ~Mail(email[r], effects[r])
  BY <1>1, <1>3 DEF DecideFits, Mail, Hot, Marketing, MarketingTasks
<1>6. OutcomeOK(r) /\ (~overlap => RowOK(r))
  BY <1>3, OfDecision
<1>7. email'[r] = email[r] /\ email' \in [Runs -> Rows] /\ \A s \in Runs : email'[s] = email[s]
  BY <1>3, <1>4
<1>8. MarketingTasks \subseteq Gated
  BY DEF MarketingTasks, Gated
<1>9. decide[d].node # "create_task" /\ ~overlap =>
        effects[r] = {} /\ gate[r] = decide[d].verdict
  <2>1. decide[d].node # "create_task" /\ ~overlap =>
          effects[r] \cap Gated = {} /\ gate[r] = decide[d].verdict
    BY <1>1, <1>3 DEF SoloFits, Publishing
  <2> QED
    BY <1>5, <1>8, <2>1 DEF Marketing
<1>10. ASSUME NEW o \in {"not_found", "rejected"}, Finish(d, o), UNCHANGED effects,
              decide[d].node # "create_task"
       PROVE  IInv'
  <2>1. ~overlap => RowFits([node |-> "end", outcome |-> o, plan |-> decide[d].plan],
                            effects'[r], email'[r], gate[r])
    BY <1>3, <1>9, <1>10 DEF RowFits, Verdicts
  <2>2. /\ effects' \in [Runs -> SUBSET Effects] /\ effects'[r] = effects[r]
        /\ \A s \in Runs : s # r => effects'[s] = effects[s] /\ email'[s] = email[s]
    BY <1>3, <1>7, <1>10
  <2>3. o \in Outcomes
    BY DecideWords
  <2>4. UNCHANGED <<call, records, feedback, llm, overlap, gate>>
    BY <1>4
  <2> QED
    BY <1>2, <1>3, <1>7, <1>10, <2>1, <2>2, <2>3, <2>4, FinishStep
<1>11. CASE On(d, "publish_tasks") /\ mls # Gone /\ UNCHANGED <<run, effects>>
            /\ decide' = [decide EXCEPT ![d].node = "create_task",
                            ![d].plan = plan_marketing_tasks(mls),
                            ![d].left = plan_marketing_tasks(mls)]
  <2> DEFINE tasks == plan_marketing_tasks(mls)
             new == [decide[d] EXCEPT !.node = "create_task", !.plan = tasks, !.left = tasks]
  <2>1. tasks \in Seq(MarketingTasks) /\ tasks # <<>>
    BY PlanFact
  <2>2. decide' = [decide EXCEPT ![d] = new]
    BY <1>3, <1>11 DEF Typed
  <2>3. "create_task" \in InFlight
    BY DEF InFlight
  <2> HIDE DEF tasks
  <2>4. /\ new \in DecideRecords /\ new.node = "create_task" /\ new.of = r
        /\ new.verdict = decide[d].verdict /\ new.plan = tasks /\ new.left = tasks
    <3> HIDE DEF InFlight, Over, Verdicts, MarketingTasks
    <3> QED
      BY <1>3, <2>1, <2>3 DEF DecideRecords
  <2> HIDE DEF new
  <2>5. /\ decide' \in [Decisions -> DecideRecords] /\ decide'[d] = new
        /\ \A e \in Decisions : e # d => decide'[e] = decide[e]
    BY <1>3, <2>2, <2>4, DecideBecomes
  <2>6. /\ effects'[r] = effects[r] /\ run' = run /\ effects' \in [Runs -> SUBSET Effects]
        /\ \A s \in Runs : s # r => effects'[s] = effects[s] /\ email'[s] = email[s]
    BY <1>3, <1>7, <1>11
  <2>7. decide[d].verdict = "approved"
    BY <1>3, <1>11 DEF DecideFits, Allowed, On
  <2>8. DecideFits(decide'[d], run[r], effects'[r], email'[r])
    BY <1>5, <1>7, <2>1, <2>4, <2>5, <2>6, <2>7
       DEF DecideFits, Allowed, Heating, Mailing, Publishing
  <2>9. OutcomeOK(r)' /\ (~overlap => RowOK(r)')
    BY <1>4, <1>6, <1>11 DEF OutcomeOK, RowOK
  <2>10. ~overlap => SoloFits(decide'[d], run[r], effects'[r], email'[r], gate[r])
    <3>1. ~overlap => /\ run[r].node \in Gates /\ gate[r] = decide[d].verdict
                      /\ email[r] \in {"none", "pending"} /\ effects[r] = {}
      BY <1>3, <1>9, <1>11 DEF SoloFits, On
    <3> QED
      BY <1>7, <2>4, <2>5, <2>6, <3>1 DEF SoloFits
  <2>11. /\ decide'[d].node = "create_task" /\ decide'[d].of = r
         /\ decide'[d].verdict = decide[d].verdict
         /\ "create_task" \in InFlight \cup Over \cup {"lost"}
    BY <2>3, <2>4, <2>5
  <2>12. UNCHANGED <<call, records, feedback, llm, overlap, gate>>
    BY <1>4
  <2> QED
    BY <1>2, <1>3, <1>7, <2>5, <2>6, <2>8, <2>9, <2>10, <2>11, <2>12, EffectStep
<1>12. CASE /\ On(d, "create_task") /\ Effect(r, Head(decide[d].left))
            /\ IF Len(decide[d].left) = 1 THEN Finish(d, "published")
               ELSE decide' = [decide EXCEPT ![d].left = Tail(@)] /\ UNCHANGED run
  <2> DEFINE left == decide[d].left
             task == Head(left)
  <2>1. /\ decide[d].plan # <<>> /\ left # <<>> /\ left \in Seq(MarketingTasks)
        /\ Range(decide[d].plan) \subseteq effects[r] \cup Range(left)
        /\ decide[d].verdict = "approved"
    BY <1>3, <1>12 DEF DecideFits, On, DecideRecords, Allowed
  <2>2. /\ task \in MarketingTasks /\ Tail(left) \in Seq(MarketingTasks)
        /\ Range(left) = {task} \cup Range(Tail(left))
        /\ Len(left) = 1 => Range(Tail(left)) = {}
        /\ Len(left) # 1 => Tail(left) # <<>>
    BY <2>1, HeadTail
  <2>3. /\ effects' \in [Runs -> SUBSET Effects] /\ effects'[r] = effects[r] \cup {task}
        /\ \A s \in Runs : s # r => effects'[s] = effects[s]
    BY <1>3, <1>12, <2>2, EffectFact DEF Effects
  <2>4. Marketing(email'[r], effects'[r]) /\ effects[r] \subseteq effects'[r]
        /\ ("note" \in effects'[r] => "note" \in effects[r])
    BY <1>5, <1>7, <2>2, <2>3 DEF Marketing, MarketingTasks
  <2>5. ~overlap => /\ effects[r] \cup Range(left) = Range(decide[d].plan)
                    /\ gate[r] = "approved" /\ run[r].node \in Gates
                    /\ email[r] \in {"none", "pending"}
    BY <1>3, <1>5, <1>12, <2>1 DEF SoloFits, On, Marketing
  <2>6. Range(decide[d].plan) \subseteq effects'[r] \cup Range(Tail(left))
        /\ (~overlap => effects'[r] \cup Range(Tail(left)) = Range(decide[d].plan))
    <3> HIDE DEF left, task
    <3> QED
      BY <2>1, <2>2, <2>3, <2>5
  <2>7. \A s \in Runs : s # r => effects'[s] = effects[s] /\ email'[s] = email[s]
    BY <1>7, <2>3
  <2>8. UNCHANGED <<call, records, feedback, llm, overlap, gate>>
    BY <1>4
  <2>9. CASE Len(left) = 1
    <3>1. Finish(d, "published") /\ "published" \in Outcomes
      BY <1>12, <2>9, DecideWords
    <3>2. /\ Range(decide[d].plan) \subseteq effects'[r]
          /\ ~overlap => effects'[r] = Range(decide[d].plan)
      <4> HIDE DEF left, task
      <4> QED
        BY <2>2, <2>6, <2>9
    <3>3. ~overlap => RowFits([node |-> "end", outcome |-> "published",
                               plan |-> decide[d].plan], effects'[r], email'[r], gate[r])
      BY <1>7, <2>5, <3>2 DEF RowFits
    <3> QED
      BY <1>2, <1>3, <1>5, <1>7, <2>1, <2>3, <2>4, <2>7, <2>8, <3>1, <3>2, <3>3, FinishStep
  <2>10. CASE Len(left) # 1
    <3> DEFINE new == [decide[d] EXCEPT !.left = Tail(left)]
    <3>1. decide' = [decide EXCEPT ![d] = new] /\ run' = run
      BY <1>3, <1>12, <2>10 DEF Typed
    <3>2. decide[d].node = "create_task"
      BY <1>12 DEF On
    <3>3. /\ new \in DecideRecords /\ new.node = "create_task" /\ new.of = r
          /\ new.verdict = decide[d].verdict /\ new.plan = decide[d].plan
          /\ new.left = Tail(left)
      <4> HIDE DEF InFlight, Over, Verdicts, MarketingTasks, left, task
      <4> QED
        BY <1>3, <2>2, <3>2 DEF DecideRecords
    <3> HIDE DEF new
    <3>4. /\ decide' \in [Decisions -> DecideRecords] /\ decide'[d] = new
          /\ \A e \in Decisions : e # d => decide'[e] = decide[e]
      BY <1>3, <3>1, <3>3, DecideBecomes
    <3>5. DecideFits(decide'[d], run[r], effects'[r], email'[r])
      <4> HIDE DEF left, task
      <4> QED
        BY <1>5, <2>1, <2>2, <2>4, <2>6, <2>10, <3>3, <3>4
           DEF DecideFits, Allowed, Heating, Mailing, Publishing
    <3>6. OutcomeOK(r)'
      <4>1. run[r].outcome = "published" => Range(run[r].plan) \subseteq effects'[r]
        BY <1>6, <2>4 DEF OutcomeOK, OutcomeFits
      <4>2. run[r].outcome \notin {"agent_notified", "synced", "not_eligible", "no_transcript"}
        <5>1. gate[r] # "none" /\ "hot_task" \notin effects[r]
          BY <1>3, <1>5 DEF Marketing, MarketingTasks
        <5>2. run[r].outcome = "agent_notified" => effects[r] = {"note", "call_log", "hot_task"}
          BY <1>6 DEF OutcomeOK, OutcomeFits
        <5>3. run[r].outcome \in {"synced", "not_eligible", "no_transcript"} => gate[r] = "none"
          BY <1>6 DEF OutcomeOK, OutcomeFits
        <5> QED
          BY <5>1, <5>2, <5>3
      <4> QED
        BY <1>6, <3>1, <4>1, <4>2 DEF OutcomeOK, OutcomeFits
    <3>7. ~overlap => RowOK(r)'
      <4>1. ~overlap => run[r].outcome = ""
        BY <1>6, <2>5 DEF OutcomeOK, OutcomeFits, Gates
      <4> QED
        BY <1>4, <1>7, <2>5, <3>1, <4>1 DEF RowOK, RowFits
    <3>8. ~overlap => SoloFits(decide'[d], run[r], effects'[r], email'[r], gate[r])
      <4> HIDE DEF left, task
      <4> QED
        BY <1>7, <2>1, <2>5, <2>6, <3>3, <3>4 DEF SoloFits
    <3>9. /\ decide'[d].node = "create_task" /\ decide'[d].of = r
          /\ decide'[d].verdict = decide[d].verdict
          /\ "create_task" \in InFlight \cup Over \cup {"lost"}
      BY <3>3, <3>4 DEF InFlight
    <3>10. /\ decide[d].of = r /\ email' \in [Runs -> Rows] /\ run' = run
           /\ effects' \in [Runs -> SUBSET Effects] /\ decide[d].verdict = "approved"
           /\ "create_task" \notin {"idle", "checked", "lost"}
      BY <1>3, <1>7, <2>1, <2>3, <3>1
    <3> HIDE DEF left, task
    <3> QED
      BY <1>2, <1>5, <2>4, <2>7, <2>8, <3>4, <3>5, <3>6, <3>7, <3>8, <3>9, <3>10, EffectStep
  <2> QED
    BY <2>9, <2>10
<1> QED
  BY <1>3, <1>10, <1>11, <1>12 DEF publish_tasks, On

\* A decision is marked, whatever the row says meanwhile.
LEMMA MarkStep ==
    ASSUME IInv, NEW d \in Decisions, MarkDecided(d), UNCHANGED <<llm, overlap>>
    PROVE  IInv'
<1>1. decide[d].node = "checked" /\ decide[d].node \in InFlight
  BY DEF MarkDecided, On, InFlight
<1>2. PICK r \in Runs :
             /\ r = decide[d].of /\ gate[r] # "none"
             /\ decide[d].node # "idle" /\ decide[d] \in DecideRecords
             /\ decide[d].verdict \in Verdicts
             /\ DecideFits(decide[d], run[r], effects[r], email[r])
             /\ ~overlap => SoloFits(decide[d], run[r], effects[r], email[r], gate[r])
             /\ run[r].node \in Gates \cup {"end"}
             /\ Typed /\ effects \in [Runs -> SUBSET Effects] /\ email \in [Runs -> Rows]
             /\ gate \in [Runs -> GateStates]
  BY <1>1, InFlightFact
<1>3. UNCHANGED <<call, records, feedback, effects, email>>
  BY DEF MarkDecided, world, filed
<1>4. OutcomeOK(r) /\ run \in [Runs -> RunRecords]
  BY OfRun
<1>5. "marked" \in InFlight /\ "marked" \in InFlight \cup Over \cup {"lost"}
  BY DEF InFlight
<1>6. /\ decide' \in [Decisions -> DecideRecords] /\ run' = run
      /\ decide'[d].node = "marked" /\ decide'[d].of = r
      /\ decide'[d].verdict = decide[d].verdict
      /\ \A e \in Decisions : e # d => decide'[e] = decide[e]
  BY <1>2, <1>5, FollowFact DEF MarkDecided
<1>7. /\ gate' \in [Runs -> GateStates] /\ gate'[r] = decide[d].verdict
      /\ gate'[r] # "none" /\ gate'[r] # "pending"
      /\ \A s \in Runs : s # r => gate'[s] = gate[s]
  BY <1>2 DEF MarkDecided, GateStates, Verdicts
<1>8. DecideFits(decide'[d], run'[r], effects'[r], email'[r])
  BY <1>6 DEF DecideFits, Allowed, Heating, Mailing, Publishing
<1>9. OutcomeOK(r)'
  BY <1>2, <1>3, <1>4, <1>6 DEF OutcomeOK, OutcomeFits
<1>10. effects'[r] \cap Gated # {} => Approved(r)'
  <2>1. effects[r] \cap Gated # {} => Approved(r)
    BY OfRun
  <2>2. Approved(r) => Approved(r)'
    BY <1>1, <1>2, <1>6, ApprovedKept
  <2> QED
    BY <1>3, <2>1, <2>2
<1>11. ASSUME ~overlap
       PROVE  RowOK(r)' /\ SoloOK(d)'
  <2>1. SoloFits(decide[d], run[r], effects[r], email[r], gate[r])
    BY <1>2, <1>11
  <2>2. /\ run[r].node \in Gates /\ effects[r] \cap Gated = {}
        /\ email[r] \in {"none", "pending"}
    BY <1>1, <2>1 DEF SoloFits
  <2>3. run[r].outcome = ""
    BY <1>4, <2>2 DEF OutcomeOK, OutcomeFits, Gates
  <2>4. RowOK(r)'
    BY <1>3, <1>6, <1>7, <2>2, <2>3 DEF RowOK, RowFits
  <2>5. SoloOK(d)'
    BY <1>3, <1>6, <1>7, <2>2 DEF SoloOK, SoloFits
  <2> QED
    BY <2>4, <2>5
<1>12. ~overlap => \A e \in Decisions : e # d /\ decide[e].node \in InFlight
                                          => decide[e].of # r
  BY <1>1, <1>2, AloneFact
<1>13. /\ \A s \in Runs : s # r => /\ run'[s] = run[s] /\ effects'[s] = effects[s]
                                   /\ email'[s] = email[s] /\ gate'[s] = gate[s]
       /\ run' \in [Runs -> RunRecords] /\ run'[r] = run[r]
       /\ effects' \in [Runs -> SUBSET Effects] /\ email' \in [Runs -> Rows]
       /\ effects'[r] = effects[r] /\ email'[r] = email[r] /\ decide'[d].node # "idle"
  BY <1>2, <1>3, <1>4, <1>6, <1>7
<1> QED
  BY <1>2, <1>3, <1>6, <1>7, <1>8, <1>9, <1>10, <1>11, <1>12, <1>13, DecisionStep

\* A request reads a pending approval.
LEMMA CheckStep ==
    ASSUME IInv, NEW d \in Decisions, NEW r \in Runs, NEW verdict \in Verdicts,
           CheckApproval(d, r, verdict), UNCHANGED <<llm, overlap>>
    PROVE  IInv'
<1>1. /\ decide[d].node = "idle" /\ gate[r] = "pending" /\ (overlap \/ ~Deciding(r))
      /\ UNCHANGED <<call, records, feedback, effects, email, gate, run>>
  BY DEF CheckApproval, On, world, filed
<1>2. /\ Typed /\ OutcomeOK(r) /\ run \in [Runs -> RunRecords] /\ effects \in [Runs -> SUBSET Effects]
      /\ email \in [Runs -> Rows] /\ gate \in [Runs -> GateStates]
      /\ (effects[r] \cap Gated # {} => Approved(r))
  BY OfRun
<1> DEFINE new == [decide[d] EXCEPT !.of = r, !.verdict = verdict, !.node = "checked"]
<1>3. decide[d] \in DecideRecords /\ decide' = [decide EXCEPT ![d] = new]
  BY <1>2 DEF CheckApproval, Typed
<1>4. "checked" \in InFlight
  BY DEF InFlight
<1>5. new \in DecideRecords /\ new.of = r /\ new.verdict = verdict /\ new.node = "checked"
  <2> HIDE DEF InFlight, Over, Verdicts, MarketingTasks
  <2> QED
    BY <1>3, <1>4 DEF DecideRecords
<1> HIDE DEF new
<1>6. /\ decide' \in [Decisions -> DecideRecords] /\ decide'[d].of = r
      /\ decide'[d].verdict = verdict /\ decide'[d].node = "checked"
      /\ \A e \in Decisions : e # d => decide'[e] = decide[e]
  BY <1>2, <1>3, <1>5, DecideBecomes
<1>7. DecideFits(decide'[d], run'[r], effects'[r], email'[r])
  BY <1>6 DEF DecideFits, Allowed, Heating, Mailing, Publishing
<1>8. OutcomeOK(r)'
  BY <1>1, <1>2 DEF OutcomeOK
<1>9. effects'[r] \cap Gated # {} => Approved(r)'
  BY <1>1, <1>2, <1>6 DEF Approved
<1>10. ASSUME ~overlap
       PROVE  RowOK(r)' /\ SoloOK(d)'
  <2>1. RowOK(r)
    BY <1>10 DEF IInv, SoloInv
  <2>2. RowOK(r)'
    BY <1>1, <2>1 DEF RowOK
  <2>3. SoloOK(d)'
    BY <1>1, <1>6, <2>1 DEF SoloOK, SoloFits, RowOK, RowFits
  <2> QED
    BY <2>2, <2>3
<1>11. ~overlap => \A e \in Decisions : e # d /\ decide[e].node \in InFlight
                                          => decide[e].of # r
  BY <1>1 DEF Deciding
<1>12. /\ \A s \in Runs : s # r => /\ run'[s] = run[s] /\ effects'[s] = effects[s]
                                   /\ email'[s] = email[s] /\ gate'[s] = gate[s]
       /\ run' \in [Runs -> RunRecords] /\ run'[r] = run[r] /\ gate'[r] = "pending"
       /\ effects' \in [Runs -> SUBSET Effects] /\ email' \in [Runs -> Rows]
       /\ gate' \in [Runs -> GateStates]
       /\ effects'[r] = effects[r] /\ email'[r] = email[r] /\ decide'[d].node # "idle"
  BY <1>1, <1>2, <1>6
<1> QED
  BY <1>1, <1>6, <1>7, <1>8, <1>9, <1>10, <1>11, <1>12, DecisionStep

\* The thread goes on behind the gate it still waits at, or it has ended.
LEMMA ResumeStep ==
    ASSUME IInv, NEW d \in Decisions, Resume(d), UNCHANGED <<llm, overlap>>
    PROVE  IInv'
<1>1. decide[d].node = "marked" /\ decide[d].node \in InFlight
  BY DEF Resume, On, InFlight
<1>2. PICK r \in Runs :
             /\ r = decide[d].of /\ gate[r] # "none"
             /\ decide[d].node # "idle" /\ decide[d] \in DecideRecords
             /\ decide[d].verdict \in Verdicts
             /\ DecideFits(decide[d], run[r], effects[r], email[r])
             /\ ~overlap => SoloFits(decide[d], run[r], effects[r], email[r], gate[r])
             /\ run[r].node \in Gates \cup {"end"}
             /\ Typed /\ effects \in [Runs -> SUBSET Effects] /\ email \in [Runs -> Rows]
             /\ gate \in [Runs -> GateStates]
  BY <1>1, InFlightFact
<1>3. UNCHANGED <<call, records, feedback, effects, email, gate>>
  BY DEF Resume, world, filed
<1>4. NodeOK(r)
  BY OfRun
<1> DEFINE node == run[r].node
           verdict == decide[d].verdict
           next == IF node \in Gates THEN route_after_gate(node, verdict) ELSE "end"
<1>5. Follow(d, next)
  BY <1>2 DEF Resume
<1>6. /\ next \in {"end", "raised", "create_hot_task", "dismiss_hot", "send_followup_email",
                   "dismiss_followup_email", "publish_tasks", "handle_rejection"}
      /\ next \in Allowed => verdict = "approved"
      /\ next \in Heating => node = "notify_agent"
      /\ next \in Mailing => node = "approve_outbound_message"
      /\ next \in Publishing => node = "approve_marketing"
  <2>1. CASE node \notin Gates
    BY <2>1 DEF Allowed, Heating, Mailing, Publishing
  <2>2. CASE node \in Gates /\ verdict = "blank_edit"
    BY <2>2 DEF route_after_gate, Allowed, Heating, Mailing, Publishing
  <2>3. CASE node = "notify_agent" /\ verdict # "blank_edit"
    BY <2>3 DEF route_after_gate, Allowed, Heating, Mailing, Publishing, Gates
  <2>4. CASE node = "approve_outbound_message" /\ verdict # "blank_edit"
    BY <2>4 DEF route_after_gate, Allowed, Heating, Mailing, Publishing, Gates
  <2>5. CASE node = "approve_marketing" /\ verdict # "blank_edit"
    BY <2>5 DEF route_after_gate, Allowed, Heating, Mailing, Publishing, Gates
  <2> QED
    BY <2>1, <2>2, <2>3, <2>4, <2>5 DEF Gates
<1> HIDE DEF next
<1>7. next \in InFlight \cup Over \cup {"lost"} /\ next \notin {"idle", "checked", "lost"}
      /\ next \notin {"save_sent", "create_task"}
  BY <1>6 DEF InFlight, Over
<1>8. DecideFits([decide[d] EXCEPT !.node = next], run[r], effects[r], email[r])
  <2>1. [decide[d] EXCEPT !.node = next].node = next
        /\ [decide[d] EXCEPT !.node = next].verdict = verdict
    BY <1>2 DEF DecideRecords
  <2>2. /\ node = "notify_agent" => Hot(email[r], effects[r])
        /\ node = "approve_outbound_message" => Mail(email[r], effects[r])
        /\ node = "approve_marketing" => Marketing(email[r], effects[r]) /\ run[r].draft
    BY <1>2, <1>4 DEF NodeOK, NodeFits
  <2> QED
    BY <1>6, <1>7, <2>1, <2>2 DEF DecideFits
<1>9. ~overlap => SoloFits([decide[d] EXCEPT !.node = next],
                           run[r], effects[r], email[r], gate[r])
  <2>1. [decide[d] EXCEPT !.node = next].node = next
        /\ [decide[d] EXCEPT !.node = next].verdict = verdict
    BY <1>2 DEF DecideRecords
  <2> QED
    BY <1>1, <1>2, <1>7, <2>1 DEF SoloFits
<1> PICK n \in InFlight \cup Over \cup {"lost"} : n = next
  BY <1>7
<1>10. Follow(d, n) /\ n \notin {"idle", "checked", "lost"}
       /\ DecideFits([decide[d] EXCEPT !.node = n], run[r], effects[r], email[r])
       /\ (~overlap => SoloFits([decide[d] EXCEPT !.node = n],
                                run[r], effects[r], email[r], gate[r]))
  BY <1>5, <1>7, <1>8, <1>9
<1> QED
  BY <1>1, <1>2, <1>3, <1>10, FollowStep

LEMMA DecideRaisesStep ==
    ASSUME IInv, NEW d \in Decisions, DecideRaises(d), UNCHANGED <<llm, overlap>>
    PROVE  IInv'
<1>1. decide[d].node \in InFlight
      /\ UNCHANGED <<call, records, feedback, effects, email, gate>>
  BY DEF DecideRaises, world, filed
<1>2. PICK r \in Runs :
             /\ r = decide[d].of /\ gate[r] # "none"
             /\ decide[d].node # "idle" /\ decide[d] \in DecideRecords
             /\ decide[d].verdict \in Verdicts
             /\ DecideFits(decide[d], run[r], effects[r], email[r])
             /\ ~overlap => SoloFits(decide[d], run[r], effects[r], email[r], gate[r])
             /\ run[r].node \in Gates \cup {"end"}
             /\ Typed /\ effects \in [Runs -> SUBSET Effects] /\ email \in [Runs -> Rows]
             /\ gate \in [Runs -> GateStates]
  BY <1>1, InFlightFact
<1>3. PICK n \in {"lost", "raised"} : Follow(d, n) /\ (n = "lost" => decide[d].node = "checked")
  BY DEF DecideRaises, On
<1>4. n \in InFlight \cup Over \cup {"lost"} /\ n \notin InFlight /\ n \notin {"idle", "checked"}
  BY DEF InFlight, Over
<1>5. DecideFits([decide[d] EXCEPT !.node = n], run[r], effects[r], email[r])
  <2>1. [decide[d] EXCEPT !.node = n].node = n
    BY <1>2 DEF DecideRecords
  <2> QED
    BY <2>1 DEF DecideFits, Allowed, Heating, Mailing, Publishing
<1> QED
  BY <1>1, <1>2, <1>3, <1>4, <1>5, FollowStep

\* The world moves; a call that has ended stays as it is.
LEMMA WorldStep ==
    ASSUME IInv,
           UNCHANGED <<llm, overlap, records, feedback, effects, email, gate, run, decide>>,
           call' \in [Calls -> [state : {"none", "placed", "ended"},
                                said : Transcripts \cup {<<>>}]],
           \A k \in Calls : call[k].state = "ended" => call'[k] = call[k]
    PROVE  IInv'
<1>1. Typed'
  BY DEF IInv, Typed
<1>2. RunInv'
  BY DEF IInv, RunInv, RunOK, Approved
<1>3. DecideInv'
  BY DEF IInv, DecideInv, DecideOK
<1>4. (~overlap => SoloInv)'
  BY DEF IInv, SoloInv, RowOK, SoloOK
<1>5. \A s \in Runs : ReportOK(s)'
  BY OfRun, ReportKept
<1>6. \A k \in Calls : RecordOK(k)'
  <2> SUFFICES ASSUME NEW k \in Calls PROVE RecordOK(k)'
    OBVIOUS
  <2>1. RecordOK(k)
    BY DEF IInv, CallInv
  <2>2. CASE call[k].state = "ended"
    <3>1. \A s \in Runs : Owes(s) => Owes(s)'
      BY DEF Owes
    <3> QED
      BY <2>1, <2>2, <3>1 DEF RecordOK
  <2>3. CASE call[k].state # "ended"
    BY <2>1, <2>3 DEF RecordOK
  <2> QED
    BY <2>2, <2>3
<1> QED
  BY <1>1, <1>2, <1>3, <1>4, <1>5, <1>6 DEF IInv, CallInv

LEMMA CallStep ==
    ASSUME IInv, NEW k \in Calls, UNCHANGED <<llm, overlap>>,
           start_outbound_call(k) \/ \E said \in Transcripts : CallEnds(k, said)
    PROVE  IInv'
<1>1. UNCHANGED <<llm, overlap, records, feedback, effects, email, gate, run, decide>>
  BY DEF start_outbound_call, CallEnds, filed
<1>2. call \in [Calls -> [state : {"none", "placed", "ended"}, said : Transcripts \cup {<<>>}]]
  BY DEF IInv, Typed
<1>3. CASE start_outbound_call(k)
  <2>1. call' \in [Calls -> [state : {"none", "placed", "ended"}, said : Transcripts \cup {<<>>}]]
        /\ \A j \in Calls : call[j].state = "ended" => call'[j] = call[j]
    BY <1>2, <1>3 DEF start_outbound_call
  <2> QED
    BY <1>1, <2>1, WorldStep
<1>4. CASE \E said \in Transcripts : CallEnds(k, said)
  <2>1. call' \in [Calls -> [state : {"none", "placed", "ended"}, said : Transcripts \cup {<<>>}]]
        /\ \A j \in Calls : call[j].state = "ended" => call'[j] = call[j]
    BY <1>2, <1>4 DEF CallEnds
  <2> QED
    BY <1>1, <2>1, WorldStep
<1> QED
  BY <1>3, <1>4

-----------------------------------------------------------------------------
LEMMA InitIInv == Init => IInv
<1> SUFFICES ASSUME Init PROVE IInv
  OBVIOUS
<1> DEFINE fresh == [of |-> None, verdict |-> "rejected", node |-> "idle",
                     plan |-> <<>>, left |-> <<>>]
<1>1. fresh \in DecideRecords /\ fresh.node = "idle"
  BY EmptyTasks DEF DecideRecords, Verdicts, Over
<1>2. decide = [d \in Decisions |-> fresh]
  BY DEF Init
<1> HIDE DEF fresh
<1>3. decide \in [Decisions -> DecideRecords] /\ \A d \in Decisions : decide[d].node = "idle"
  BY <1>1, <1>2
<1>4. Typed
  BY <1>3, NewRunFact DEF Init, Typed, Rows, GateStates
<1>5. \A r \in Runs : /\ effects[r] = {} /\ gate[r] = "none" /\ email[r] = "none"
                      /\ run[r].node = "idle" /\ run[r].outcome = ""
  BY NewRunFact DEF Init
<1>6. RunInv
  <2> SUFFICES ASSUME NEW r \in Runs PROVE RunOK(r)
    BY <1>5 DEF RunInv
  <2>1. NodeFits(run[r], effects[r], email[r], gate[r])
    BY <1>5 DEF NodeFits, Owing, Clean, Ungated
  <2> QED
    BY <1>5, <2>1 DEF RunOK, OutcomeFits
<1>7. DecideInv
  BY <1>3 DEF DecideInv, DecideOK
<1>8. SoloInv
  <2>1. \A r \in Runs : RowOK(r)
    BY <1>5 DEF RowOK, RowFits
  <2>2. \A d \in Decisions : decide[d].node \notin InFlight
    BY <1>3 DEF InFlight
  <2> QED
    BY <2>1, <2>2 DEF SoloInv, SoloOK
<1>9. CallInv
  <2>1. \A r \in Runs : ReportOK(r)
    BY <1>5, WorkflowsAssumptions DEF Init, NewRun, ReportOK, Ingested, Owing
  <2>2. \A k \in Calls : RecordOK(k)
    BY DEF Init, RecordOK
  <2> QED
    BY <2>1, <2>2 DEF CallInv
<1> QED
  BY <1>4, <1>6, <1>7, <1>8, <1>9 DEF IInv

LEMMA NextIInv == IInv /\ [Next]_vars => IInv'
<1> SUFFICES ASSUME IInv, [Next]_vars PROVE IInv'
  OBVIOUS
<1>1. call \in [Calls -> [state : {"none", "placed", "ended"}, said : Transcripts \cup {<<>>}]]
  BY DEF IInv, Typed
<1>2. CASE UNCHANGED vars
  <2>1. UNCHANGED <<llm, overlap, records, feedback, effects, email, gate, run, decide>>
        /\ call' = call
    BY <1>2 DEF vars, regime, world, filed
  <2> QED
    BY <1>1, <2>1, WorldStep
<1>3. CASE Next
  <2>1. UNCHANGED <<llm, overlap>>
    BY <1>3 DEF Next, regime
  <2>2. ASSUME NEW k \in Calls,
               start_outbound_call(k) \/ \E said \in Transcripts : CallEnds(k, said)
        PROVE  IInv'
    BY <2>1, <2>2, CallStep
  <2>3. ASSUME NEW listing \in MlsStates, MlsChanges(listing)
        PROVE  IInv'
    <3>1. UNCHANGED <<llm, overlap, records, feedback, effects, email, gate, run, decide>>
          /\ call' = call
      BY <2>1, <2>3 DEF MlsChanges, filed
    <3> QED
      BY <1>1, <3>1, WorldStep
  <2>4. ASSUME NEW r \in Runs, NEW k \in Calls, NEW artifact \in Transcripts \cup {<<>>},
               vapi_webhook(r, k, artifact)
        PROVE  IInv'
    BY <2>1, <2>4, WebhookStep
  <2>5. ASSUME NEW r \in Runs, start_listing_to_contract(r)
        PROVE  IInv'
    BY <2>1, <2>5, StartListingStep
  <2>6. ASSUME NEW r \in Runs, Step(r)
        PROVE  IInv'
    BY <2>1, <2>6, IngestStep, ExtractStep, UpsertStep, SyncStep, DraftEmailStep,
       IntakeStep, MakeDraftStep, InterruptStep DEF Step
  <2>7. ASSUME NEW r \in Runs, Raises(r)
        PROVE  IInv'
    BY <2>1, <2>7, RaisesStep
  <2>8. ASSUME NEW d \in Decisions, NEW r \in Runs, NEW verdict \in Verdicts,
               CheckApproval(d, r, verdict)
        PROVE  IInv'
    BY <2>1, <2>8, CheckStep
  <2>9. ASSUME NEW d \in Decisions, DecideStep(d)
        PROVE  IInv'
    BY <2>1, <2>9, MarkStep, ResumeStep, HotTaskStep, SendStep, SendRaisesStep, DismissStep,
       PublishStep, DecideRaisesStep DEF DecideStep
  <2> QED
    BY <1>3, <2>2, <2>3, <2>4, <2>5, <2>6, <2>7, <2>8, <2>9 DEF Next
<1> QED
  BY <1>2, <1>3

\* The invariant holds in every reachable state, whether or not decisions overlap:
\* what a run has done follows from the node it is at and from a recorded approval,
\* and a wiped call record always has a run that owes it an extraction.  What the
\* approval's row tells of the run is in it for the regimes without overlap only.
THEOREM WorkflowsInvariant == Spec => []IInv
BY InitIInv, NextIInv, PTL DEF Spec

\* Nothing gated is done that no recorded approval allowed, in any regime; and where
\* the decisions on one approval do not overlap the row tells the effects: a run does
\* outward what its row allows and no more, and is told of as completed only when it
\* did all of it (publish_tasks, create_hot_task, send_followup_email,
\* terminal_run_result).
THEOREM EffectsMatchVerdictCorrect == Spec => []EffectsMatchVerdict
<1>1. IInv => EffectsAreApproved
  <2> SUFFICES ASSUME IInv, NEW r \in Runs
               PROVE
        /\ effects[r] \cap Gated # {} => Approved(r)
        /\ run[r].outcome = "published" =>
             run[r].draft /\ run[r].plan # <<>> /\ Range(run[r].plan) \subseteq effects[r]
        /\ run[r].outcome = "agent_notified" => effects[r] = {"note", "call_log", "hot_task"}
        /\ run[r].outcome = "synced" => email[r] = "none" /\ effects[r] = {"note", "call_log"}
        /\ run[r].outcome \in {"not_eligible", "no_transcript"} => effects[r] = {}
    BY DEF EffectsAreApproved
  <2>1. OutcomeOK(r) /\ (effects[r] \cap Gated # {} => Approved(r))
    BY OfRun
  <2> QED
    BY <2>1 DEF OutcomeOK, OutcomeFits
<1>2. IInv /\ ~overlap => RowTellsEffects
  BY DEF IInv, SoloInv, RowOK, RowFits, RowTellsEffects
<1>3. IInv => EffectsMatchVerdict
  BY <1>1, <1>2 DEF EffectsMatchVerdict
<1> QED
  BY WorkflowsInvariant, <1>3, PTL

\* However often a call is reported and however its runs interleave: once every run
\* of it has filed it, or never touched it, the stored record holds what was said
\* and an extraction, the feedback row's where the extractor is deterministic
\* (ingest_call, upsert_feedback).
THEOREM CallIsFiledCorrect == Spec => []CallIsFiled
<1>1. IInv => CallIsFiled
  <2> SUFFICES ASSUME IInv, NEW k \in Calls,
                      NEW q \in Runs, run[q].call = k, "note" \in effects[q],
                      \A r \in Runs : run[r].call = k =>
                        "note" \in effects[r] \/ run[r].outcome = "no_transcript"
                        \/ At(r, "ingest_call")
               PROVE  /\ records[k] # None /\ records[k].transcript = call[k].said
                      /\ records[k].extracted # None
                      /\ ~llm => records[k].extracted = feedback[k]
    BY DEF CallIsFiled
  <2>1. RecordOK(k)
    BY DEF IInv, CallInv
  <2>2. records[k] # None
    BY OfRun DEF ReportOK, Ingested
  <2>3. ASSUME NEW r \in Runs, run[r].call = k, Owes(r)
        PROVE  FALSE
    <3>1. NodeOK(r) /\ OutcomeOK(r)
      BY OfRun
    <3>2. "note" \notin effects[r] /\ run[r].node \notin {"end", "ingest_call"}
      BY <2>3, <3>1 DEF Owes, NodeOK, NodeFits, Clean, Owing
    <3>3. run[r].outcome # "no_transcript"
      BY <3>1, <3>2 DEF OutcomeOK, OutcomeFits
    <3> QED
      BY <2>3, <3>2, <3>3 DEF At
  <2>4. records[k].extracted # None
    BY <2>1, <2>2, <2>3 DEF RecordOK
  <2> QED
    BY <2>1, <2>2, <2>4 DEF RecordOK
<1> QED
  BY WorkflowsInvariant, <1>1, PTL
=============================================================================
