---------------------- MODULE MCTransactionCoordination ----------------------
(***************************************************************************)
(* t1 has a milestone due on day 0 and one, of an owner with an email on   *)
(* file, due on day 1: both due soon on day 0, one overdue on day 1, both  *)
(* on day 2.  t2's only milestone is on track until day 1 and due soon on  *)
(* day 2, with nobody to write to: its runs never reach a gate.  Passes go *)
(* over both in the orderly regime and over t1 where passes and decisions  *)
(* overlap and the process dies.                                           *)
(***************************************************************************)
EXTENDS TransactionCoordination

MCTimeline == [t \in {"t1", "t2"} |->
    IF t = "t1"
    THEN <<[id |-> 1, txn |-> 1, due |-> 0, status |-> "pending", blocked |-> FALSE,
            owner |-> "Lender"],
           [id |-> 2, txn |-> 1, due |-> 1, status |-> "pending", blocked |-> FALSE,
            owner |-> "Escrow"]>>
    ELSE <<[id |-> 3, txn |-> 2, due |-> 5, status |-> "pending", blocked |-> FALSE,
            owner |-> "Lender"]>>]

MCParties == [t \in {"t1", "t2"} |-> <<[name |-> "Escrow", email |-> "escrow@"]>>]

MCRegimes == {[orderly |-> TRUE, active |-> {"t1", "t2"}],
              [orderly |-> FALSE, active |-> {"t1"}]}
=============================================================================
