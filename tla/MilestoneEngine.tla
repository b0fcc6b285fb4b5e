--------------------------- MODULE MilestoneEngine ---------------------------
(***************************************************************************)
(* The deadline rules as functions: milestone_engine (classification, the  *)
(* urgency-sorted worklist, the reminder email's addressee),               *)
(* milestone_schedule (the timeline a template generates) and              *)
(* transaction_open (which escrow dates are accepted).                     *)
(*                                                                         *)
(* A date is a day number, an id is a number, a milestone is a record      *)
(* [id, txn, due, status, blocked, owner].                                 *)
(***************************************************************************)
EXTENDS Integers, FiniteSets, SequencesExt

DUE_SOON_DAYS == 3

SEVERITY_ORDER == <<"overdue", "due_soon", "blocked_external", "on_track">>

_SEVERITY_RANK == [c \in Range(SEVERITY_ORDER) |->
                     CHOOSE i \in DOMAIN SEVERITY_ORDER : SEVERITY_ORDER[i] = c]

QUEUE_CLASSES == {"overdue", "due_soon", "blocked_external"}

\* A milestone blocked by an outside party is that and nothing else, whatever
\* its date; due today is due soon, yesterday is overdue.
assess_milestone(m, today) ==
    LET days == m.due - today IN
    [milestone_id |-> m.id,
     days_until_due |-> days,
     classification |-> CASE m.blocked -> "blocked_external"
                          [] ~m.blocked /\ days < 0 -> "overdue"
                          [] ~m.blocked /\ days \in 0 .. DUE_SOON_DAYS -> "due_soon"
                          [] OTHER -> "on_track"]

\* Complete and waived milestones have no assessment; another's bears the
\* milestone's place in the list.
assess_milestones(ms, today) ==
    [i \in {j \in DOMAIN ms : ms[j].status = "pending"} |-> assess_milestone(ms[i], today)]

\* The first of SEVERITY_ORDER that is present; on track when there is none.
worst_classification(assessments) ==
    LET present == {a.classification : a \in Range(assessments)} IN
    IF present = {} THEN "on_track"
    ELSE CHOOSE c \in present :
             \A d \in present : _SEVERITY_RANK[c] <= _SEVERITY_RANK[d]

\* Deadline first, severity second.
UrgencyByDays(a) ==
    <<a.days_until_due, _SEVERITY_RANK[a.classification], a.transaction_id,
      a.milestone_id>>

_urgency_key(a) ==
    <<_SEVERITY_RANK[a.classification], a.days_until_due, a.transaction_id,
      a.milestone_id>>

\* Tuples of integers compare lexicographically.
Before(k, l) ==
    \E i \in DOMAIN k : k[i] < l[i] /\ \A j \in 1 .. (i - 1) : k[j] = l[j]

\* The coordinator's worklist: the pending milestones that need attention, of
\* all transactions, most urgent first (ids differ, so the sort has one result).
build_deadline_queue(ms, today) ==
    LET by_id(id) == CHOOSE m \in Range(ms) : m.id = id
        Item(a) == [transaction_id |-> by_id(a.milestone_id).txn,
                    milestone_id |-> a.milestone_id,
                    classification |-> a.classification,
                    days_until_due |-> a.days_until_due]
        items == {Item(a) : a \in {b \in Range(assess_milestones(ms, today)) :
                                     b.classification \in QUEUE_CLASSES}}
    IN CHOOSE queue \in [1 .. Cardinality(items) -> items] :
         \A i, j \in DOMAIN queue :
            i < j => Before(_urgency_key(queue[i]), _urgency_key(queue[j]))

-----------------------------------------------------------------------------
\* A party is [name, email]; "" is no name, no email on file, or no owner.
NoParty == [name |-> "", email |-> ""]

\* The first party of that name with an email on file.
PartyOf(parties, owner) ==
    LET found == {i \in DOMAIN parties : /\ parties[i].name # "" /\ parties[i].name = owner
                                         /\ parties[i].email # ""}
    IN IF found = {} THEN NoParty
       ELSE parties[CHOOSE i \in found : \A j \in found : i <= j]

\* The addressee is looked up for the most urgent milestone only.
PlanFirstOnly(parties, due_soon) ==
    LET i == CHOOSE j \in DOMAIN due_soon :
                \A k \in DOMAIN due_soon : due_soon[j].due <= due_soon[k].due
    IN IF DOMAIN due_soon = {} \/ PartyOf(parties, due_soon[i].owner) = NoParty THEN {}
       ELSE {[recipient |-> PartyOf(parties, due_soon[i].owner).email,
              milestone_id |-> due_soon[i].id]}

\* plan_reminder_email: the most urgent due-soon milestone (ties in list order)
\* whose owner is a party with an email on file; {} when there is none.
plan_reminder_email(parties, due_soon) ==
    LET reachable == {i \in DOMAIN due_soon :
                        PartyOf(parties, due_soon[i].owner) # NoParty}
        first == CHOOSE i \in reachable : \A j \in reachable :
                    Before(<<due_soon[i].due, i>>, <<due_soon[j].due, j>>) \/ i = j
    IN IF reachable = {} THEN {}
       ELSE {[recipient |-> PartyOf(parties, due_soon[first].owner).email,
              milestone_id |-> due_soon[first].id]}

-----------------------------------------------------------------------------
NoDate == -1000   \* an absent close date, before every day in use
ValueError == {}  \* a refusal; a value v is the set {v}

\* The template steps as (anchor, offset in days).
DEFAULT_TIMELINE == <<
    [rule |-> "after_contract", days |-> 10],   \* Home inspection
    [rule |-> "after_contract", days |-> 17],   \* Appraisal
    [rule |-> "after_contract", days |-> 21],   \* Loan approval
    [rule |-> "before_close",   days |-> 1],    \* Final walkthrough
    [rule |-> "before_close",   days |-> 0]>>   \* Closing

_due_date(contract_date, close_date, entry) ==
    IF entry.rule = "after_contract" THEN contract_date + entry.days
                                     ELSE close_date - entry.days

\* A step anchored on a close date that was not given is a ValueError.
generate_milestones(contract_date, close_date, template) ==
    IF close_date = NoDate /\ \E e \in Range(template) : e.rule = "before_close"
    THEN ValueError
    ELSE {[i \in DOMAIN template |->
             _due_date(contract_date, close_date, template[i])]}

\* Only the close date is validated, not the timeline.
OpenUnchecked(key_length, contract_date, close_date, template) ==
    IF close_date # NoDate /\ close_date < contract_date THEN ValueError
    ELSE generate_milestones(contract_date, close_date, template)

LISTING_KEY_MAX_LENGTH == 36

\* The due dates of a transaction's milestones, or the refusal the route turns into a
\* 422: a listing key that the column cannot hold, a close before the contract, or a
\* milestone outside the window.
build_open_transaction(key_length, contract_date, close_date, template) ==
    LET Inside(due) == /\ due >= contract_date
                       /\ close_date # NoDate => due <= close_date
    IN IF \/ key_length > LISTING_KEY_MAX_LENGTH
          \/ close_date # NoDate /\ close_date < contract_date
       THEN ValueError
       ELSE {dues \in generate_milestones(contract_date, close_date, template) :
               \A due \in Range(dues) : Inside(due)}
=============================================================================
