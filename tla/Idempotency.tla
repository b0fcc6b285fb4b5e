----------------------------- MODULE Idempotency -----------------------------
(***************************************************************************)
(* The write boundary: Idempotent<Port>(Recording<Port>(adapter)).         *)
(*                                                                         *)
(* Every external write (CRM, files, voice, email, SMS) goes through       *)
(*   claim the key -> call the vendor -> append to the action ledger ->    *)
(*   record the result under the key,                                      *)
(* and each arrow is an await: another invocation of the same write, a     *)
(* vendor error, a database error or the death of the process can fall     *)
(* between any two.  The key is (workflow run, tool, semantic arguments);  *)
(* a write outside any run has no key and is not deduplicated.             *)
(***************************************************************************)
EXTENDS Naturals

CONSTANTS
    Attempts,    \* invocations of a write port (first calls, retries, replays)
    Runs,        \* workflow run ids
    NoRun,       \* no audit scope is published
    Args,        \* semantic arguments of a write
    Stamps,      \* per-attempt fields of a message: row id, timestamps, status
    Tools,       \* the tools of WriteTools a deployment exercises
    NoWrite, NoAnswer, Error

ASSUME DistinctMarkers ==
    /\ NoRun \notin Runs
    /\ NoAnswer \notin Attempts
    /\ Error \notin Attempts
    /\ NoAnswer # Error

\* The write methods of each port, by the tool name they record.
CrmTools   == {"create_contact", "add_note", "create_task", "log_call"}
FileTools  == {"put_file"}
VoiceTools == {"start_outbound_call"}
EmailTools == {"send_email"}
SmsTools   == {"send_sms"}

WriteTools ==
    CrmTools \cup FileTools \cup VoiceTools \cup EmailTools \cup SmsTools

ASSUME ToolsAreWriteTools == Tools \subseteq WriteTools

Writes == [run : Runs \cup {NoRun}, tool : Tools, args : Args, stamp : Stamps]

ASSUME NoWriteIsNoWrite == NoWrite \notin Writes

Deduped(w) == w.run # NoRun

\* A key that also hashes the per-attempt fields of a message.
KeyWithStamp(w) == <<w.run, w.tool, w.args, w.stamp>>

\* A key that forgets the run, so that a new run reuses an old run's result.
KeyWithoutRun(w) == <<w.tool, w.args>>

\* SHA-256 over (run, tool, semantic args); the hash is taken as injective.
idempotency_key(w) == <<w.run, w.tool, w.args>>

Keys == {idempotency_key(w) : w \in Writes}

VARIABLES
    call,      \* the write each invocation asked for
    pc,        \* where each invocation is
    claim,     \* the claim status each invocation was handed by the store
    status,    \* idempotency_keys.status, by key
    result,    \* idempotency_keys.result, by key: the invocation whose effect
               \* produced the stored result
    effects,   \* invocations whose write took effect at the vendor
    ledger,    \* action ledger: <<invocation, outcome>>
    answer     \* what the caller of each invocation saw

vars == <<call, pc, claim, status, result, effects, ledger, answer>>

Phases == {"idle", "conflict", "inner", "performed", "erroring", "recorded",
           "answered", "crashed"}
Outcomes == {"success", "failure"}

TypeOK ==
    /\ call \in [Attempts -> Writes \cup {NoWrite}]
    /\ pc \in [Attempts -> Phases]
    /\ claim \in [Attempts -> {"none", "undeduped", "new", "pending", "completed"}]
    /\ status \in [Keys -> {"absent", "pending", "completed"}]
    /\ result \in [Keys -> Attempts \cup {NoAnswer}]
    /\ effects \subseteq Attempts
    /\ ledger \subseteq (Attempts \X Outcomes)
    /\ answer \in [Attempts -> Attempts \cup {NoAnswer, Error}]

Init ==
    /\ call = [a \in Attempts |-> NoWrite]
    /\ pc = [a \in Attempts |-> "idle"]
    /\ claim = [a \in Attempts |-> "none"]
    /\ status = [k \in Keys |-> "absent"]
    /\ result = [k \in Keys |-> NoAnswer]
    /\ effects = {}
    /\ ledger = {}
    /\ answer = [a \in Attempts |-> NoAnswer]

-----------------------------------------------------------------------------
MyKey(a) == idempotency_key(call[a])

Goto(a, phase) == pc' = [pc EXCEPT ![a] = phase]

Answered(a, r) ==
    /\ Goto(a, "answered")
    /\ answer' = [answer EXCEPT ![a] = r]

\* _Deduper.claim without a run id: (None, None), the write runs undeduped.
ClaimWithoutRun(a, w) ==
    /\ pc[a] = "idle"
    /\ ~Deduped(w)
    /\ call' = [call EXCEPT ![a] = w]
    /\ claim' = [claim EXCEPT ![a] = "undeduped"]
    /\ Goto(a, "inner")
    /\ UNCHANGED <<status, result, effects, ledger, answer>>

\* begin(): the primary-key insert is the atomic claim.
ClaimNew(a, w) ==
    /\ pc[a] = "idle"
    /\ Deduped(w)
    /\ status[idempotency_key(w)] = "absent"
    /\ call' = [call EXCEPT ![a] = w]
    /\ status' = [status EXCEPT ![idempotency_key(w)] = "pending"]
    /\ claim' = [claim EXCEPT ![a] = "new"]
    /\ Goto(a, "inner")
    /\ UNCHANGED <<result, effects, ledger, answer>>

\* begin(): the insert hits the uniqueness constraint; the row is read in a
\* transaction of its own, later.
ClaimConflict(a, w) ==
    /\ pc[a] = "idle"
    /\ Deduped(w)
    /\ status[idempotency_key(w)] # "absent"
    /\ call' = [call EXCEPT ![a] = w]
    /\ Goto(a, "conflict")
    /\ UNCHANGED <<claim, status, result, effects, ledger, answer>>

\* A seam that treats a claimed-but-uncompleted key as free to retry.
ReadClaimPendingAsNew(a) ==
    /\ pc[a] = "conflict"
    /\ status[MyKey(a)] = "pending"
    /\ claim' = [claim EXCEPT ![a] = "new"]
    /\ Goto(a, "inner")
    /\ UNCHANGED <<call, status, result, effects, ledger, answer>>

\* The prior attempt claimed the key and has not recorded a result: the replay
\* is refused with ReplayInProgressError.
ReadClaimPending(a) ==
    /\ pc[a] = "conflict"
    /\ status[MyKey(a)] = "pending"
    /\ claim' = [claim EXCEPT ![a] = "pending"]
    /\ Answered(a, Error)
    /\ UNCHANGED <<call, status, result, effects, ledger>>

\* A replay that is recorded in the ledger as a write of its own.
ReadClaimCompletedRecording(a) ==
    /\ pc[a] = "conflict"
    /\ status[MyKey(a)] = "completed"
    /\ claim' = [claim EXCEPT ![a] = "completed"]
    /\ Answered(a, result[MyKey(a)])
    /\ ledger' = ledger \cup {<<a, "success">>}
    /\ UNCHANGED <<call, status, result, effects>>

\* The prior attempt completed: its stored result is returned; neither the
\* vendor nor the recording wrapper is reached.
ReadClaimCompleted(a) ==
    /\ pc[a] = "conflict"
    /\ status[MyKey(a)] = "completed"
    /\ claim' = [claim EXCEPT ![a] = "completed"]
    /\ Answered(a, result[MyKey(a)])
    /\ UNCHANGED <<call, status, result, effects, ledger>>

\* The vendor call returns.
InnerReturns(a) ==
    /\ pc[a] = "inner"
    /\ effects' = effects \cup {a}
    /\ Goto(a, "performed")
    /\ UNCHANGED <<call, claim, status, result, ledger, answer>>

\* The vendor call raises.  A timeout may hide an effect that did happen.
InnerRaises(a) ==
    /\ pc[a] = "inner"
    /\ effects' \in {effects, effects \cup {a}}
    /\ Goto(a, "erroring")
    /\ UNCHANGED <<call, claim, status, result, ledger, answer>>

\* Recording<Port>: SUCCESS is appended before the result is returned.
EmitSuccess(a) ==
    /\ pc[a] = "performed"
    /\ ledger' = ledger \cup {<<a, "success">>}
    /\ Goto(a, "recorded")
    /\ UNCHANGED <<call, claim, status, result, effects, answer>>

\* Recording<Port>: FAILURE is appended and the vendor's error re-raised; the
\* claim stays pending.
EmitFailure(a) ==
    /\ pc[a] = "erroring"
    /\ ledger' = ledger \cup {<<a, "failure">>}
    /\ Answered(a, Error)
    /\ UNCHANGED <<call, claim, status, result, effects>>

\* The ledger append itself fails: the caller sees that error instead, and the
\* write is not in the ledger.
EmitRaises(a) ==
    /\ pc[a] \in {"performed", "erroring"}
    /\ Answered(a, Error)
    /\ UNCHANGED <<call, claim, status, result, effects, ledger>>

\* record(): the result is stored under the key and returned.  An undeduped
\* write has no key to complete.
Record(a) ==
    /\ pc[a] = "recorded"
    /\ IF claim[a] = "new"
         THEN /\ status' = [status EXCEPT ![MyKey(a)] = "completed"]
              /\ result' = [result EXCEPT ![MyKey(a)] = a]
         ELSE UNCHANGED <<status, result>>
    /\ Answered(a, a)
    /\ UNCHANGED <<call, claim, effects, ledger>>

\* complete() fails in the database: the effect stands, the key stays pending.
RecordRaises(a) ==
    /\ pc[a] = "recorded"
    /\ claim[a] = "new"
    /\ Answered(a, Error)
    /\ UNCHANGED <<call, claim, status, result, effects, ledger>>

\* The process dies; nothing durable changes.
Crash(a) ==
    /\ pc[a] \in {"conflict", "inner", "performed", "erroring", "recorded"}
    /\ Goto(a, "crashed")
    /\ answer' = [answer EXCEPT ![a] = Error]
    /\ UNCHANGED <<call, claim, status, result, effects, ledger>>

Claim(a, w) == ClaimWithoutRun(a, w) \/ ClaimNew(a, w) \/ ClaimConflict(a, w)

Step(a) ==
    \/ ReadClaimPending(a)
    \/ ReadClaimCompleted(a)
    \/ InnerReturns(a)
    \/ InnerRaises(a)
    \/ EmitSuccess(a)
    \/ EmitFailure(a)
    \/ EmitRaises(a)
    \/ Record(a)
    \/ RecordRaises(a)

Next == \E a \in Attempts :
            \/ \E w \in Writes : Claim(a, w)
            \/ Step(a)
            \/ Crash(a)

Spec == Init /\ [][Next]_vars

-----------------------------------------------------------------------------
(***************************************************************************)
(* Properties.                                                             *)
(***************************************************************************)
SameKey(a, b) ==
    /\ call[a] # NoWrite /\ call[b] # NoWrite
    /\ Deduped(call[a]) /\ Deduped(call[b])
    /\ call[a].run = call[b].run
    /\ call[a].tool = call[b].tool
    /\ call[a].args = call[b].args

\* idempotency.py:20: "a write performs its side effect at most once": two
\* invocations of the same write in one run never both reach the vendor, under
\* any interleaving of retries, vendor errors, database errors and crashes.
AtMostOnce ==
    \A a, b \in effects : SameKey(a, b) => a = b

\* A caller is only handed the result of the one effect of its own write: a
\* replay returns the original result, never another write's and never a
\* result that no effect produced (idempotency.py:21-24).
ReplayReturnsOriginal ==
    \A a \in Attempts : answer[a] \in Attempts =>
        /\ answer[a] \in effects
        /\ answer[a] = a \/ SameKey(a, answer[a])

\* A deduped replay "writes no second mutation record" (idempotency.py:16-18):
\* one logical write of a run has at most one ledger record, of either outcome.
OneMutationRecord ==
    \A x, y \in ledger : SameKey(x[1], y[1]) => x = y

\* A result is stored under a key only after its SUCCESS is in the ledger: the
\* dominant replay path never hides a write the ledger does not show.
CompletedIsLedgered ==
    \A k \in Keys : status[k] = "completed" =>
        /\ result[k] \in effects
        /\ <<result[k], "success">> \in ledger

\* The two together: per logical write the ledger shows one outcome, and every
\* stored result as a success.
LedgerTellsTheTruth == OneMutationRecord /\ CompletedIsLedgered

\* A key only moves absent -> pending -> completed and a stored result is never
\* replaced (complete() has no guard on the row's status).
ClaimsForwardOnly ==
    [][\A k \in Keys :
         /\ status[k] = "pending" => status'[k] # "absent"
         /\ status[k] = "completed" => /\ status'[k] = "completed"
                                       /\ result'[k] = result[k]]_vars

-----------------------------------------------------------------------------
(***************************************************************************)
(* The inductive invariant behind the theorems of IdempotencyProofs.       *)
(***************************************************************************)
\* What an invocation's phase says of its own claim and write.
PhaseInv ==
    \A a \in Attempts :
        /\ pc[a] = "idle" <=> call[a] = NoWrite
        /\ pc[a] \in {"idle", "conflict"} => claim[a] = "none"
        /\ pc[a] \in {"inner", "performed", "erroring", "recorded"} =>
               claim[a] \in {"new", "undeduped"}
        /\ claim[a] = "undeduped" => ~Deduped(call[a])
        /\ claim[a] = "new" => call[a] # NoWrite /\ Deduped(call[a])
        /\ pc[a] = "conflict" => Deduped(call[a]) /\ status[MyKey(a)] # "absent"
        /\ pc[a] \in {"answered", "crashed"} <=> answer[a] # NoAnswer

\* A key has one owner: the invocation whose insert succeeded.
OwnerInv ==
    /\ \A a \in Attempts : claim[a] = "new" => status[MyKey(a)] # "absent"
    /\ \A a, b \in Attempts :
         claim[a] = "new" /\ claim[b] = "new" /\ MyKey(a) = MyKey(b) => a = b

\* Only the owner of a key, or an undeduped write, reaches vendor and ledger.
EffectInv ==
    /\ \A a \in effects : claim[a] \in {"new", "undeduped"}
    /\ \A a \in Attempts : pc[a] \in {"performed", "recorded"} => a \in effects
    /\ \A a \in Attempts : pc[a] = "inner" => a \notin effects

LedgerInv ==
    /\ \A x \in ledger : claim[x[1]] \in {"new", "undeduped"}
    /\ \A a \in Attempts :
         pc[a] \in {"inner", "performed", "erroring"} =>
             <<a, "success">> \notin ledger /\ <<a, "failure">> \notin ledger
    /\ \A a \in Attempts : ~(/\ <<a, "success">> \in ledger
                               /\ <<a, "failure">> \in ledger)
    /\ \A a \in Attempts : pc[a] = "recorded" => <<a, "success">> \in ledger

\* A completed key holds the result of its owner, which has been answered.
ResultInv ==
    \A k \in Keys : status[k] = "completed" =>
        /\ result[k] \in effects
        /\ claim[result[k]] = "new"
        /\ MyKey(result[k]) = k
        /\ pc[result[k]] = "answered"
        /\ <<result[k], "success">> \in ledger

IInv ==
    /\ TypeOK
    /\ PhaseInv
    /\ OwnerInv
    /\ EffectInv
    /\ LedgerInv
    /\ ResultInv
    /\ ReplayReturnsOriginal

-----------------------------------------------------------------------------
\* The seam implements its promise.
Promise == INSTANCE AtMostOnceWrite WITH Key <- idempotency_key
ImplementsAtMostOnceWrite == Promise!Spec
=============================================================================
