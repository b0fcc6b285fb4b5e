--------------------------- MODULE AtMostOnceWrite ---------------------------
(***************************************************************************)
(* What the write boundary promises its callers, without saying how: an    *)
(* external write that belongs to a workflow run takes effect at most once *)
(* per idempotency key, however often and however concurrently it is       *)
(* issued, and a caller is only ever handed the result of that one effect  *)
(* (or an error).  Idempotency.tla is shown to implement this module.      *)
(***************************************************************************)
CONSTANTS
    Attempts,    \* invocations of a write port
    Writes,      \* the logical writes a caller can ask for
    Key(_),      \* the idempotency key of a write
    Deduped(_),  \* whether a write belongs to a workflow run
    NoWrite,     \* an invocation that has not been made
    NoAnswer,    \* an invocation that has not been answered
    Error        \* an invocation answered with an exception

VARIABLES
    call,        \* the write each invocation asked for
    effects,     \* the invocations whose write reached the external system
    answer       \* what each invocation returned: the invocation that made
                 \* the effect whose result it carries, or Error

vars == <<call, effects, answer>>

SameWrite(a, b) ==
    /\ call[a] # NoWrite
    /\ call[b] # NoWrite
    /\ Deduped(call[a])
    /\ Deduped(call[b])
    /\ Key(call[a]) = Key(call[b])

Init ==
    /\ call = [a \in Attempts |-> NoWrite]
    /\ effects = {}
    /\ answer = [a \in Attempts |-> NoAnswer]

\* A caller issues a write.
Issue(a) ==
    /\ call[a] = NoWrite
    /\ \E w \in Writes : call' = [call EXCEPT ![a] = w]
    /\ UNCHANGED <<effects, answer>>

\* The write reaches the external system: only if no other invocation of the
\* same deduplicated write already did.
Perform(a) ==
    /\ call[a] # NoWrite
    /\ answer[a] = NoAnswer
    /\ \A b \in effects : b # a /\ ~SameWrite(a, b)
    /\ effects' = effects \cup {a}
    /\ UNCHANGED <<call, answer>>

\* The caller is handed the result of its own effect, or of the effect of an
\* earlier invocation of the same write.
Return(a) ==
    /\ call[a] # NoWrite
    /\ answer[a] = NoAnswer
    /\ \E b \in effects :
         /\ b = a \/ SameWrite(a, b)
         /\ answer' = [answer EXCEPT ![a] = b]
    /\ UNCHANGED <<call, effects>>

\* The caller gets an exception; the write may or may not have taken effect.
Fail(a) ==
    /\ call[a] # NoWrite
    /\ answer[a] = NoAnswer
    /\ answer' = [answer EXCEPT ![a] = Error]
    /\ UNCHANGED <<call, effects>>

Next == \E a \in Attempts : Issue(a) \/ Perform(a) \/ Return(a) \/ Fail(a)

Spec == Init /\ [][Next]_vars
=============================================================================
