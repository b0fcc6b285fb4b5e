---------------------------- MODULE MCIdempotency ----------------------------
(* Three invocations of one tool, over two runs and outside any run, whose *)
(* per-attempt fields may differ.                                          *)
EXTENDS Idempotency, TLC

CONSTANTS a1, a2, a3, r1, r2

MCTools == {"send_email", "create_task"}
AttemptSymmetry == Permutations({a1, a2, a3})
=============================================================================
