------------------------------ MODULE Worklist -------------------------------
(***************************************************************************)
(* The deadline rules at work: a portfolio of milestones, looked at day    *)
(* after day by the coordinator's worklist, by the cron pass that routes a *)
(* transaction and drafts its reminder, and by an agent who opens an       *)
(* escrow under a contract of that day.                                    *)
(***************************************************************************)
EXTENDS MilestoneEngine

CONSTANTS
    Portfolios,          \* the milestone tables to consider
    Contacts,            \* the parties of the transactions
    Closes,              \* close dates to open an escrow with
    FirstDay, FinalDay   \* bounds on the calendar

Milestone == [id : Int, txn : Int, due : Int, status : {"pending", "complete", "waived"},
              blocked : BOOLEAN, owner : STRING]

\* A milestone's id is its primary key.
WorklistFits ==
    /\ Portfolios \subseteq Seq(Milestone)
    /\ \A p \in Portfolios : \A i, j \in DOMAIN p : p[i].id = p[j].id => i = j
    /\ Contacts \in Seq([name : STRING, email : STRING])
    /\ Closes \subseteq Int
    /\ FirstDay \in Int /\ FinalDay \in Int

ASSUME WorklistAssumptions == WorklistFits

VARIABLES portfolio, date, close_date

worklist_vars == <<portfolio, date, close_date>>

WorklistInit ==
    /\ date = FirstDay
    /\ close_date \in Closes \cup {NoDate}
    /\ portfolio \in Portfolios

NextDay ==
    /\ date < FinalDay
    /\ date' = date + 1
    /\ UNCHANGED <<portfolio, close_date>>

WorklistSpec == WorklistInit /\ [][NextDay]_worklist_vars

queue == build_deadline_queue(portfolio, date)

\* The worklist holds every pending milestone that needs attention once, and
\* nothing of the same class waits behind a later deadline; a late milestone
\* that nothing blocks is never behind one that is not late.  And the worklist
\* agrees with the workflow: its head has the class the transaction_coordination
\* graph routes on (build_deadline_queue, worst_classification).
WorklistOrdered ==
    /\ worst_classification(assess_milestones(portfolio, date)) =
         IF queue = <<>> THEN "on_track" ELSE Head(queue).classification
    /\ {queue[i].milestone_id : i \in DOMAIN queue} =
         {m.id : m \in {n \in Range(portfolio) :
                          /\ n.status = "pending"
                          /\ n.blocked \/ n.due - date <= DUE_SOON_DAYS}}
    /\ \A i, j \in DOMAIN queue : i < j =>
         /\ queue[i].milestone_id # queue[j].milestone_id
         /\ queue[j].classification = "overdue" => queue[i].days_until_due <= queue[j].days_until_due
         /\ queue[i].classification = queue[j].classification =>
              queue[i].days_until_due <= queue[j].days_until_due

DueSoon ==
    Restrict(portfolio, {i \in DOMAIN portfolio :
        /\ portfolio[i].status = "pending"
        /\ assess_milestone(portfolio[i], date).classification = "due_soon"})

\* Has this milestone an owner who can be written to, at that address?
OnFile(m, email) ==
    email # "" /\ \E p \in Range(Contacts) : p.name # "" /\ p.name = m.owner /\ p.email = email
Reachable(m) == \E p \in Range(Contacts) : OnFile(m, p.email)

\* plan_reminder_email: the email is drafted exactly when some due-soon
\* milestone's owner can be reached, goes to that owner's address on file, and no
\* reachable owner has an earlier deadline.
EmailIsMostUrgentReachable ==
    LET plan == plan_reminder_email(Contacts, DueSoon) IN
    /\ plan = {} <=> \A m \in Range(DueSoon) : ~Reachable(m)
    /\ \A p \in plan : \E m \in Range(DueSoon) :
          /\ m.id = p.milestone_id
          /\ OnFile(m, p.recipient)
          /\ \A n \in Range(DueSoon) : Reachable(n) => m.due <= n.due

\* build_open_transaction with the default timeline: an escrow is opened exactly
\* when its listing key fits and a close date leaves room for loan approval, 21 days
\* after the contract; the optional close date of the request is in fact needed.
OpensWhenTimelineFits ==
    \A length \in 1 .. LISTING_KEY_MAX_LENGTH + 1 :
      LET opened == build_open_transaction(length, date, close_date, DEFAULT_TIMELINE) IN
      /\ opened # ValueError <=> /\ length <= 36
                                 /\ close_date # NoDate /\ close_date - date >= 21
      /\ \A dues \in opened : \A i \in DOMAIN dues : dues[i] \in date .. close_date
=============================================================================
