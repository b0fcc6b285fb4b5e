-------------------------- MODULE MCMilestoneEngine --------------------------
(***************************************************************************)
(* A portfolio of three milestones of two transactions, at every           *)
(* combination of dates around the due-soon window, blockers, statuses and *)
(* owners, seen as the days go by; and every pair of escrow dates around   *)
(* the shortest window the default timeline fits.                          *)
(***************************************************************************)
EXTENDS Worklist

CONSTANTS Dues

Owners == {"Lender", "Escrow"}
MCContacts == <<[name |-> "", email |-> "x"], [name |-> "Escrow", email |-> ""],
                [name |-> "Escrow", email |-> "escrow@"]>>

MCPortfolios ==
    {<<a, b, c>> :
        a \in [id : {1}, txn : {2}, due : Dues, status : {"pending"},
               blocked : BOOLEAN, owner : Owners],
        b \in [id : {2}, txn : {1}, due : Dues, status : {"pending", "complete"},
               blocked : BOOLEAN, owner : Owners],
        c \in [id : {3}, txn : {1}, due : Dues, status : {"pending"},
               blocked : {FALSE}, owner : {"Escrow"}]}
=============================================================================
