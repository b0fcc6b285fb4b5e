------------------------------ MODULE Approvals ------------------------------
(***************************************************************************)
(* The human-in-the-loop spine every workflow shares: the engine runs a    *)
(* graph until it interrupts, the checkpointer makes the pause durable,    *)
(* the engine then writes an inbox row, and POST /approvals/{id}/decide    *)
(* marks the row and resumes the thread.  Each of those is an await of its *)
(* own; a run of any of the three graphs meets at most one gate.           *)
(***************************************************************************)
EXTENDS Naturals

CONSTANTS
    Runs,        \* workflow runs (= thread ids = audit run ids)
    Decisions,   \* invocations of the decide route
    NoRun,       \* a decide invocation not made yet
    Regimes      \* the values of orderly to consider

ASSUME ApprovalsAssumptions ==
    /\ NoRun \notin Runs
    /\ Regimes \subseteq BOOLEAN

Verdicts == {"approved", "rejected"}

VARIABLES
    orderly,  \* is it so that no two decide invocations on one approval overlap,
              \* no node raises and the process stays up?
    thread,   \* the checkpointer's record of each run
    starter,  \* the engine.start invocation of each run
    inbox,    \* the run's approval_requests row
    run, verdict, phase,   \* each decide invocation
    acted     \* decisions whose post-gate node performed its writes

vars == <<orderly, thread, starter, inbox, run, verdict, phase, acted>>

DecidePhases == {"idle", "validated", "marked", "resuming", "acted",
                 "done", "conflict", "refused", "raised", "crashed"}

TypeOK ==
    /\ orderly \in BOOLEAN
    /\ thread \in [Runs -> {"none", "running", "paused", "ended"}]
    /\ starter \in [Runs -> {"idle", "running", "interrupted", "done", "raised",
                             "crashed"}]
    /\ inbox \in [Runs -> {"absent", "pending"} \cup Verdicts]
    /\ run \in [Decisions -> Runs \cup {NoRun}]
    /\ verdict \in [Decisions -> Verdicts]
    /\ phase \in [Decisions -> DecidePhases]
    /\ acted \subseteq Decisions

Init ==
    /\ orderly \in Regimes
    /\ thread = [r \in Runs |-> "none"]
    /\ starter = [r \in Runs |-> "idle"]
    /\ inbox = [r \in Runs |-> "absent"]
    /\ run = [d \in Decisions |-> NoRun]
    /\ verdict \in [Decisions -> Verdicts]
    /\ phase = [d \in Decisions |-> "idle"]
    /\ acted = {}

Deciding(d) == phase[d] \in {"validated", "marked", "resuming", "acted"}
Starting(r) == starter[r] \in {"running", "interrupted"}

-----------------------------------------------------------------------------
\* engine.start: a fresh thread id, the graph is invoked.
StartRun(r) ==
    /\ starter[r] = "idle"
    /\ starter' = [starter EXCEPT ![r] = "running"]
    /\ thread' = [thread EXCEPT ![r] = "running"]
    /\ UNCHANGED <<inbox, run, verdict, phase, acted>>

\* The graph reaches END without a gate.
RunEnds(r) ==
    /\ starter[r] = "running"
    /\ starter' = [starter EXCEPT ![r] = "done"]
    /\ thread' = [thread EXCEPT ![r] = "ended"]
    /\ UNCHANGED <<inbox, run, verdict, phase, acted>>

\* A node before the gate raises; the request fails.
StartRaises(r) ==
    /\ ~orderly
    /\ starter[r] = "running"
    /\ starter' = [starter EXCEPT ![r] = "raised"]
    /\ UNCHANGED <<thread, inbox, run, verdict, phase, acted>>

\* A gate node calls interrupt(): the checkpointer persists the pause.
Interrupts(r) ==
    /\ starter[r] = "running"
    /\ starter' = [starter EXCEPT ![r] = "interrupted"]
    /\ thread' = [thread EXCEPT ![r] = "paused"]
    /\ UNCHANGED <<inbox, run, verdict, phase, acted>>

\* _run that files the inbox row before the graph has paused.
CreateApprovalEarly(r) ==
    /\ starter[r] \in {"running", "interrupted"}
    /\ inbox[r] = "absent"
    /\ starter' = [starter EXCEPT ![r] = IF @ = "interrupted" THEN "done" ELSE @]
    /\ inbox' = [inbox EXCEPT ![r] = "pending"]
    /\ UNCHANGED <<thread, run, verdict, phase, acted>>

\* _run: the interrupt's payload becomes an approval row, in a transaction of
\* its own after the checkpoint.
CreateApproval(r) ==
    /\ starter[r] = "interrupted"
    /\ starter' = [starter EXCEPT ![r] = "done"]
    /\ inbox' = [inbox EXCEPT ![r] = "pending"]
    /\ UNCHANGED <<thread, run, verdict, phase, acted>>

\* A decide route that does not look at the row's status.
DecideAny(d, r) ==
    /\ phase[d] = "idle"
    /\ inbox[r] # "absent"
    /\ ~orderly \/ \A e \in Decisions : Deciding(e) => run[e] # r
    /\ run' = [run EXCEPT ![d] = r]
    /\ phase' = [phase EXCEPT ![d] = "validated"]
    /\ UNCHANGED <<thread, starter, inbox, verdict, acted>>

\* decide_approval: an approval that is not PENDING is a 409, an edit that does
\* not validate a 422; otherwise the engine is called with the row just read.
Decide(d, r) ==
    /\ phase[d] = "idle"
    /\ inbox[r] # "absent"
    /\ ~orderly \/ \A e \in Decisions : Deciding(e) => run[e] # r
    /\ run' = [run EXCEPT ![d] = r]
    /\ IF inbox[r] # "pending"
         THEN phase' = [phase EXCEPT ![d] = "conflict"]
         ELSE phase' \in {[phase EXCEPT ![d] = "validated"],
                          [phase EXCEPT ![d] = "refused"]}
    /\ UNCHANGED <<thread, starter, inbox, verdict, acted>>

\* An engine that resumes first and records the decision afterwards.
MarkDecidedLater(d) ==
    /\ phase[d] = "validated"
    /\ phase' = [phase EXCEPT ![d] = "marked"]
    /\ UNCHANGED <<thread, starter, inbox, run, verdict, acted>>

\* engine.decide: mark_decided is an UPDATE by id, whatever the row's status.
MarkDecided(d) ==
    /\ phase[d] = "validated"
    /\ inbox' = [inbox EXCEPT ![run[d]] = verdict[d]]
    /\ phase' = [phase EXCEPT ![d] = "marked"]
    /\ UNCHANGED <<thread, starter, run, verdict, acted>>

\* graph.ainvoke(Command(resume=...)): a paused thread goes on from its
\* checkpoint with this decision; an ended one has nothing left to run.
Resume(d) ==
    /\ phase[d] = "marked"
    /\ phase' = [phase EXCEPT ![d] = IF thread[run[d]] = "paused" THEN "resuming"
                                                                 ELSE "done"]
    /\ UNCHANGED <<thread, starter, inbox, run, verdict, acted>>

\* The node the verdict routes to performs its writes.
Act(d) ==
    /\ phase[d] = "resuming"
    /\ acted' = acted \cup {d}
    /\ phase' = [phase EXCEPT ![d] = "acted"]
    /\ UNCHANGED <<thread, starter, inbox, run, verdict>>

\* That node raises, with none or with some of its writes done: the checkpoint
\* still shows the thread paused.
ActRaises(d) ==
    /\ ~orderly
    /\ phase[d] = "resuming"
    /\ acted' \in {acted, acted \cup {d}}
    /\ phase' = [phase EXCEPT ![d] = "raised"]
    /\ UNCHANGED <<thread, starter, inbox, run, verdict>>

\* A resume whose last checkpoint is not written.
FinishUnsaved(d) ==
    /\ phase[d] = "acted"
    /\ phase' = [phase EXCEPT ![d] = "done"]
    /\ UNCHANGED <<thread, starter, inbox, run, verdict, acted>>

\* The graph reaches END; the checkpointer records it.
Finish(d) ==
    /\ phase[d] = "acted"
    /\ thread' = [thread EXCEPT ![run[d]] = "ended"]
    /\ phase' = [phase EXCEPT ![d] = "done"]
    /\ UNCHANGED <<starter, inbox, run, verdict, acted>>

\* The process dies in the middle of an invocation.
CrashStart(r) ==
    /\ ~orderly
    /\ Starting(r)
    /\ starter' = [starter EXCEPT ![r] = "crashed"]
    /\ UNCHANGED <<thread, inbox, run, verdict, phase, acted>>

CrashDecide(d) ==
    /\ ~orderly
    /\ Deciding(d)
    /\ phase' = [phase EXCEPT ![d] = "crashed"]
    /\ UNCHANGED <<thread, starter, inbox, run, verdict, acted>>

StarterStep(r) ==
    RunEnds(r) \/ StartRaises(r) \/ Interrupts(r) \/ CreateApproval(r)

DeciderStep(d) ==
    MarkDecided(d) \/ Resume(d) \/ Act(d) \/ ActRaises(d) \/ Finish(d)

Next ==
    /\ \/ \E r \in Runs : StartRun(r) \/ StarterStep(r) \/ CrashStart(r)
       \/ \E d \in Decisions, r \in Runs : Decide(d, r)
       \/ \E d \in Decisions : DeciderStep(d) \/ CrashDecide(d)
    /\ UNCHANGED orderly

Spec == Init /\ [][Next]_vars

\* An invocation in flight is a coroutine the server keeps driving.
FairSpec ==
    /\ Spec
    /\ \A r \in Runs : WF_vars(StarterStep(r) /\ UNCHANGED orderly)
    /\ \A d \in Decisions : WF_vars(DeciderStep(d) /\ UNCHANGED orderly)

-----------------------------------------------------------------------------
(***************************************************************************)
(* Properties.                                                             *)
(***************************************************************************)
\* A request in the inbox is always answerable: its run is paused, so deciding
\* it resumes something.  Under every interleaving, failure and crash.
PendingIsPaused ==
    \A r \in Runs : inbox[r] = "pending" => thread[r] = "paused"

\* No gated write happens while the inbox still offers the decision: whoever
\* acts has first recorded a decision on the run's row.  In the orderly regime
\* the row tells what was done: the writes are those of the verdict it shows, and
\* of one decision only.
ActsAsDecided ==
    /\ \A d \in acted : inbox[run[d]] \in Verdicts
    /\ orderly => /\ \A d \in acted : inbox[run[d]] = verdict[d]
                  /\ \A d, e \in acted : run[d] = run[e] => d = e

Idle(r) == ~Starting(r) /\ \A d \in Decisions : Deciding(d) => run[d] # r

\* docs/ARCHITECTURE.md: "a pause costs nothing and survives anything short of
\* losing the database": a paused run can always be picked up again from the
\* inbox, unless an invocation is working on it right now.
PausedIsDecidable ==
    \A r \in Runs : thread[r] = "paused" /\ Idle(r) => inbox[r] = "pending"

\* The same as long as nothing overlaps, raises or dies.
OrderlyPausedIsDecidable == orderly => PausedIsDecidable

DecidedStays ==
    \A r \in Runs : inbox[r] \in Verdicts => inbox'[r] = inbox[r]

\* The same when decide invocations on one approval do not overlap.
OrderlyDecidedIsFinal == [][orderly => DecidedStays]_vars

\* In the orderly regime a recorded decision is carried out: the run it resumes
\* reaches its end.
DecisionCarriedOut ==
    \A r \in Runs : (orderly /\ inbox[r] \in Verdicts) ~> (thread[r] = "ended")

-----------------------------------------------------------------------------
(***************************************************************************)
(* The inductive invariant behind the theorems of ApprovalsProofs.         *)
(***************************************************************************)
\* A run has an inbox row only once its start has filed one, and until then it
\* is as far as its start has brought it.
StarterInv ==
    \A r \in Runs :
        /\ starter[r] # "done" => inbox[r] = "absent"
        /\ starter[r] = "interrupted" => thread[r] = "paused"
        /\ starter[r] \in {"idle", "running"} => thread[r] # "paused"

\* Past the mark: the decision is on the row.
Committed(d) == phase[d] \in {"marked", "resuming", "acted", "done"}

DeciderInv ==
    /\ \A d \in Decisions :
         /\ phase[d] # "idle" => run[d] \in Runs /\ inbox[run[d]] # "absent"
         /\ Committed(d) => inbox[run[d]] \in Verdicts
    /\ \A d \in acted : phase[d] # "idle" /\ inbox[run[d]] \in Verdicts

\* The orderly regime: an approval is worked on by one decide invocation, which
\* finds it pending, and a paused run always has somebody or its row to move it.
OrderlyInv == orderly =>
    /\ \A d \in Decisions : phase[d] = "validated" => inbox[run[d]] = "pending"
    /\ \A d \in Decisions : Committed(d) => inbox[run[d]] = verdict[d]
    /\ \A d, e \in Decisions :
         /\ Deciding(d) \/ Committed(d)
         /\ Deciding(e) \/ Committed(e)
         /\ run[d] = run[e]
         => d = e
    /\ \A d \in acted : Committed(d)
    /\ \A r \in Runs : thread[r] = "paused" =>
         \/ starter[r] = "interrupted"
         \/ inbox[r] = "pending"
         \/ \E d \in Decisions : run[d] = r /\ phase[d] \in {"marked", "resuming", "acted"}

IInv == TypeOK /\ StarterInv /\ PendingIsPaused /\ DeciderInv /\ OrderlyInv
=============================================================================
