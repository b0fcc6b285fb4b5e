--------------------------- MODULE ApprovalsProofs ---------------------------
(***************************************************************************)
(* For any number of runs and of decide invocations, and in both regimes.  *)
(***************************************************************************)
EXTENDS Approvals, TLAPS

LEMMA InitIInv == Init => IInv
BY ApprovalsAssumptions
   DEF Init, IInv, TypeOK, StarterInv, PendingIsPaused, DeciderInv, OrderlyInv,
       Verdicts, DecidePhases, Committed, Deciding

LEMMA StartRunIInv ==
    ASSUME IInv, NEW r \in Runs, StartRun(r), UNCHANGED orderly
    PROVE  IInv'
<1> USE ApprovalsAssumptions DEF IInv, StartRun, TypeOK, Verdicts
<1>1. TypeOK'
  BY DEF DecidePhases
<1>2. StarterInv'
  BY DEF StarterInv, DeciderInv
<1>3. PendingIsPaused'
  BY DEF PendingIsPaused, StarterInv, DeciderInv, Committed
<1>4. DeciderInv'
  BY DEF DeciderInv, StarterInv, Committed
<1>5. OrderlyInv'
  BY DEF OrderlyInv, DeciderInv, StarterInv, Committed, Deciding
<1> QED
  BY <1>1, <1>2, <1>3, <1>4, <1>5

LEMMA RunEndsIInv ==
    ASSUME IInv, NEW r \in Runs, RunEnds(r), UNCHANGED orderly
    PROVE  IInv'
<1> USE ApprovalsAssumptions DEF IInv, RunEnds, TypeOK, Verdicts
<1>1. TypeOK'
  BY DEF DecidePhases
<1>2. StarterInv'
  BY DEF StarterInv, DeciderInv
<1>3. PendingIsPaused'
  BY DEF PendingIsPaused, StarterInv, DeciderInv, Committed
<1>4. DeciderInv'
  BY DEF DeciderInv, StarterInv, Committed
<1>5. OrderlyInv'
  BY DEF OrderlyInv, DeciderInv, StarterInv, Committed, Deciding
<1> QED
  BY <1>1, <1>2, <1>3, <1>4, <1>5

LEMMA StartRaisesIInv ==
    ASSUME IInv, NEW r \in Runs, StartRaises(r), UNCHANGED orderly
    PROVE  IInv'
<1> USE ApprovalsAssumptions DEF IInv, StartRaises, TypeOK, Verdicts
<1>1. TypeOK'
  BY DEF DecidePhases
<1>2. StarterInv'
  BY DEF StarterInv, DeciderInv
<1>3. PendingIsPaused'
  BY DEF PendingIsPaused, StarterInv, DeciderInv, Committed
<1>4. DeciderInv'
  BY DEF DeciderInv, StarterInv, Committed
<1>5. OrderlyInv'
  BY DEF OrderlyInv, DeciderInv, StarterInv, Committed, Deciding
<1> QED
  BY <1>1, <1>2, <1>3, <1>4, <1>5

LEMMA InterruptsIInv ==
    ASSUME IInv, NEW r \in Runs, Interrupts(r), UNCHANGED orderly
    PROVE  IInv'
<1> USE ApprovalsAssumptions DEF IInv, Interrupts, TypeOK, Verdicts
<1>1. TypeOK'
  BY DEF DecidePhases
<1>2. StarterInv'
  BY DEF StarterInv, DeciderInv
<1>3. PendingIsPaused'
  BY DEF PendingIsPaused, StarterInv, DeciderInv, Committed
<1>4. DeciderInv'
  BY DEF DeciderInv, StarterInv, Committed
<1>5. OrderlyInv'
  BY DEF OrderlyInv, DeciderInv, StarterInv, Committed, Deciding
<1> QED
  BY <1>1, <1>2, <1>3, <1>4, <1>5

LEMMA CreateApprovalIInv ==
    ASSUME IInv, NEW r \in Runs, CreateApproval(r), UNCHANGED orderly
    PROVE  IInv'
<1> USE ApprovalsAssumptions DEF IInv, CreateApproval, TypeOK, Verdicts
<1>1. TypeOK'
  BY DEF DecidePhases
<1>2. StarterInv'
  BY DEF StarterInv, DeciderInv
<1>3. PendingIsPaused'
  BY DEF PendingIsPaused, StarterInv, DeciderInv, Committed
<1>4. DeciderInv'
  BY DEF DeciderInv, StarterInv, Committed
<1>5. OrderlyInv'
  BY DEF OrderlyInv, DeciderInv, StarterInv, Committed, Deciding
<1> QED
  BY <1>1, <1>2, <1>3, <1>4, <1>5

LEMMA CrashStartIInv ==
    ASSUME IInv, NEW r \in Runs, CrashStart(r), UNCHANGED orderly
    PROVE  IInv'
<1> USE ApprovalsAssumptions DEF IInv, CrashStart, TypeOK, Verdicts
<1>1. TypeOK'
  BY DEF DecidePhases
<1>2. StarterInv'
  BY DEF StarterInv, Starting
<1>3. PendingIsPaused'
  BY DEF PendingIsPaused, StarterInv, DeciderInv, Committed
<1>4. DeciderInv'
  BY DEF DeciderInv, StarterInv, Committed
<1>5. OrderlyInv'
  BY DEF OrderlyInv, DeciderInv, StarterInv, Committed, Deciding
<1> QED
  BY <1>1, <1>2, <1>3, <1>4, <1>5

LEMMA DecideIInv ==
    ASSUME IInv, NEW d \in Decisions, NEW r \in Runs, Decide(d, r), UNCHANGED orderly
    PROVE  IInv'
<1> USE ApprovalsAssumptions DEF IInv, Decide, TypeOK, Verdicts
<1>1. TypeOK'
  BY DEF DecidePhases
<1>2. StarterInv'
  BY DEF StarterInv, DeciderInv
<1>3. PendingIsPaused'
  BY DEF PendingIsPaused, StarterInv, DeciderInv, Committed
<1>4. DeciderInv'
  BY DEF DeciderInv, StarterInv, Committed
<1>5. OrderlyInv'
  BY DEF OrderlyInv, DeciderInv, StarterInv, Committed, Deciding
<1> QED
  BY <1>1, <1>2, <1>3, <1>4, <1>5

LEMMA MarkDecidedIInv ==
    ASSUME IInv, NEW d \in Decisions, MarkDecided(d), UNCHANGED orderly
    PROVE  IInv'
<1> USE ApprovalsAssumptions DEF IInv, MarkDecided, TypeOK, Verdicts
<1>1. TypeOK'
  BY DEF DecidePhases
<1>2. StarterInv'
  BY DEF StarterInv, DeciderInv
<1>3. PendingIsPaused'
  BY DEF PendingIsPaused, StarterInv, DeciderInv, Committed
<1>4. DeciderInv'
  BY DEF DeciderInv, StarterInv, Committed
<1>5. OrderlyInv'
  BY DEF OrderlyInv, DeciderInv, StarterInv, Committed, Deciding
<1> QED
  BY <1>1, <1>2, <1>3, <1>4, <1>5

LEMMA ResumeIInv ==
    ASSUME IInv, NEW d \in Decisions, Resume(d), UNCHANGED orderly
    PROVE  IInv'
<1> USE ApprovalsAssumptions DEF IInv, Resume, TypeOK, Verdicts
<1>1. TypeOK'
  BY DEF DecidePhases
<1>2. StarterInv'
  BY DEF StarterInv, DeciderInv
<1>3. PendingIsPaused'
  BY DEF PendingIsPaused, StarterInv, DeciderInv, Committed
<1>4. DeciderInv'
  BY DEF DeciderInv, StarterInv, Committed
<1>5. OrderlyInv'
  BY DEF OrderlyInv, DeciderInv, StarterInv, Committed, Deciding
<1> QED
  BY <1>1, <1>2, <1>3, <1>4, <1>5

LEMMA ActIInv ==
    ASSUME IInv, NEW d \in Decisions, Act(d), UNCHANGED orderly
    PROVE  IInv'
<1> USE ApprovalsAssumptions DEF IInv, Act, TypeOK, Verdicts
<1>1. TypeOK'
  BY DEF DecidePhases
<1>2. StarterInv'
  BY DEF StarterInv, DeciderInv
<1>3. PendingIsPaused'
  BY DEF PendingIsPaused, StarterInv, DeciderInv, Committed
<1>4. DeciderInv'
  BY DEF DeciderInv, StarterInv, Committed
<1>5. OrderlyInv'
  BY DEF OrderlyInv, DeciderInv, StarterInv, Committed, Deciding
<1> QED
  BY <1>1, <1>2, <1>3, <1>4, <1>5

LEMMA ActRaisesIInv ==
    ASSUME IInv, NEW d \in Decisions, ActRaises(d), UNCHANGED orderly
    PROVE  IInv'
<1> USE ApprovalsAssumptions DEF IInv, ActRaises, TypeOK, Verdicts
<1>1. TypeOK'
  BY DEF DecidePhases
<1>2. StarterInv'
  BY DEF StarterInv, DeciderInv
<1>3. PendingIsPaused'
  BY DEF PendingIsPaused, StarterInv, DeciderInv, Committed
<1>4. DeciderInv'
  BY DEF DeciderInv, StarterInv, Committed
<1>5. OrderlyInv'
  BY DEF OrderlyInv, DeciderInv, StarterInv, Committed, Deciding
<1> QED
  BY <1>1, <1>2, <1>3, <1>4, <1>5

LEMMA FinishIInv ==
    ASSUME IInv, NEW d \in Decisions, Finish(d), UNCHANGED orderly
    PROVE  IInv'
<1> USE ApprovalsAssumptions DEF IInv, Finish, TypeOK, Verdicts
<1>1. TypeOK'
  BY DEF DecidePhases
<1>2. StarterInv'
  BY DEF StarterInv, DeciderInv
<1>3. PendingIsPaused'
  BY DEF PendingIsPaused, StarterInv, DeciderInv, Committed
<1>4. DeciderInv'
  BY DEF DeciderInv, StarterInv, Committed
<1>5. OrderlyInv'
  BY DEF OrderlyInv, DeciderInv, StarterInv, Committed, Deciding
<1> QED
  BY <1>1, <1>2, <1>3, <1>4, <1>5

LEMMA CrashDecideIInv ==
    ASSUME IInv, NEW d \in Decisions, CrashDecide(d), UNCHANGED orderly
    PROVE  IInv'
<1> USE ApprovalsAssumptions DEF IInv, CrashDecide, TypeOK, Verdicts
<1>1. TypeOK'
  BY DEF DecidePhases
<1>2. StarterInv'
  BY DEF StarterInv, DeciderInv
<1>3. PendingIsPaused'
  BY DEF PendingIsPaused, StarterInv, DeciderInv, Committed
<1>4. DeciderInv'
  BY DEF DeciderInv, Deciding, Committed
<1>5. OrderlyInv'
  BY DEF OrderlyInv, DeciderInv, StarterInv, Committed, Deciding
<1> QED
  BY <1>1, <1>2, <1>3, <1>4, <1>5

LEMMA NextIInv == IInv /\ [Next]_vars => IInv'
<1> SUFFICES ASSUME IInv, [Next]_vars PROVE IInv'
  OBVIOUS
<1>1. CASE UNCHANGED vars
  BY <1>1 DEF vars, IInv, TypeOK, StarterInv, PendingIsPaused, DeciderInv, OrderlyInv,
              Committed, Deciding
<1>2. CASE \E r \in Runs : (StartRun(r) \/ StarterStep(r) \/ CrashStart(r))
                              /\ UNCHANGED orderly
  BY <1>2, StartRunIInv, RunEndsIInv, StartRaisesIInv, InterruptsIInv,
     CreateApprovalIInv, CrashStartIInv DEF StarterStep
<1>3. CASE \E d \in Decisions, r \in Runs : Decide(d, r) /\ UNCHANGED orderly
  BY <1>3, DecideIInv
<1>4. CASE \E d \in Decisions : (DeciderStep(d) \/ CrashDecide(d)) /\ UNCHANGED orderly
  BY <1>4, MarkDecidedIInv, ResumeIInv, ActIInv, ActRaisesIInv, FinishIInv,
     CrashDecideIInv DEF DeciderStep
<1> QED
  BY <1>1, <1>2, <1>3, <1>4 DEF Next

\* The invariant that ties the checkpoint, the inbox row and the invocations in
\* flight together (engine.py, routes/approvals.py).
THEOREM ApprovalsInvariant == Spec => []IInv
BY InitIInv, NextIInv, PTL DEF Spec

\* Whatever overlaps, raises or dies, a request in the inbox belongs to a paused
\* run (engine._run files the row after the pause is durable and
\* engine.decide marks it before it resumes).
THEOREM PendingIsPausedCorrect == Spec => []PendingIsPaused
<1>1. IInv => PendingIsPaused
  BY DEF IInv
<1> QED
  BY <1>1, ApprovalsInvariant, PTL

\* Gated writes follow a recorded decision, and in the orderly regime are those of
\* the verdict on the row, made once (engine.decide).
THEOREM ActsAsDecidedCorrect == Spec => []ActsAsDecided
<1>1. IInv => ActsAsDecided
  BY DEF IInv, DeciderInv, OrderlyInv, ActsAsDecided, TypeOK, Verdicts
<1> QED
  BY <1>1, ApprovalsInvariant, PTL

\* In the orderly regime a paused run nobody is working on is offered in the inbox
\* (docs/ARCHITECTURE.md on pauses; engine._run and engine.decide).
THEOREM OrderlyPausedIsDecidableCorrect == Spec => []OrderlyPausedIsDecidable
<1>1. IInv => OrderlyPausedIsDecidable
  BY DEF IInv, OrderlyInv, OrderlyPausedIsDecidable, PausedIsDecidable, Idle, Starting,
         Deciding
<1> QED
  BY <1>1, ApprovalsInvariant, PTL

\* In the orderly regime a decided approval is never decided again: the 409 of
\* decide_approval is enough there.
THEOREM OrderlyDecidedIsFinalCorrect == Spec => OrderlyDecidedIsFinal
<1>1. IInv /\ [Next]_vars => [orderly => DecidedStays]_vars
  <2> SUFFICES ASSUME IInv, Next, orderly, NEW r \in Runs, inbox[r] \in Verdicts
               PROVE  inbox'[r] = inbox[r]
    BY DEF DecidedStays, vars
  <2>1. ASSUME NEW q \in Runs, CreateApproval(q) PROVE inbox'[r] = inbox[r]
    BY <2>1 DEF IInv, StarterInv, TypeOK, CreateApproval, Verdicts
  <2>2. ASSUME NEW d \in Decisions, MarkDecided(d) PROVE inbox'[r] = inbox[r]
    BY <2>2 DEF IInv, OrderlyInv, DeciderInv, TypeOK, MarkDecided, Verdicts
  <2>3. CASE UNCHANGED inbox
    BY <2>3
  <2>4. \/ UNCHANGED inbox
        \/ \E q \in Runs : CreateApproval(q)
        \/ \E d \in Decisions : MarkDecided(d)
    BY DEF Next, StartRun, StarterStep, RunEnds, StartRaises, Interrupts, CrashStart,
           Decide, DeciderStep, Resume, Act, ActRaises, Finish, CrashDecide
  <2> QED
    BY <2>1, <2>2, <2>3, <2>4
<1> QED
  BY <1>1, ApprovalsInvariant, PTL DEF Spec, OrderlyDecidedIsFinal
=============================================================================
