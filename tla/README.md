# A TLA+ model of brokerops

brokerops coordinates a real-estate brokerage's deals: workflows draft
communications, create CRM tasks and place calls, and stop at a human gate
before anything irreversible. This directory holds TLA+ modules translated from
its source, TLC configurations that check them on small instances, and TLAPS
proofs of the properties that matter most for every size of the system.

Line references in `PROJECT.json` ("map") tie each definition to the code.

## 1. The system

All server code is one asyncio process per deployment (FastAPI), over one
Postgres database. Handlers are coroutines: two of them interleave at every
`await`, the process may die between any two, and what is durable is what a
committed transaction wrote. Vendors (CRM, MLS, voice, email, SMS, files, LLM)
are reached through ports.

| component | state | operations | module |
|---|---|---|---|
| write boundary (`services/idempotency.py`, `services/audit.py`) | `idempotency_keys`, action ledger | claim, vendor call, ledger append, record result | `Idempotency`, promise in `AtMostOnceWrite` |
| outbound messages (`services/message_send.py`, `routes/messages.py`, `routes/webhooks.py`) | `outbound_messages` | send, draft, approve with edit, reject, retry, delivery callback | `MessageSend` |
| approval inbox and engine (`engine.py`, `routes/approvals.py`) | LangGraph checkpoints, `approval_requests` | start, pause, decide, resume | `Approvals` |
| deadline rules (`services/milestone_engine.py`, `milestone_schedule.py`, `transaction_open.py`) | none (functions) | classify, rank, plan reminder, generate timeline, accept dates | `MilestoneEngine`, at work in `Worklist` |
| cron pass and coordination graph (`routes/cron.py`, `graphs/transaction_coordination.py`) | milestones, inbox, CRM tasks, `cron_runs` | pass, run, gate, decide, notify | `TransactionCoordination` (extends `MilestoneEngine`) |
| sign-in and sessions (`services/magic_link.py`, `services/identity.py`, `auth/session.py`, `routes/auth.py`) | `magic_login_tokens`, in-memory throttle, signed tokens in clients' hands | request link, consume, redeem, refresh, verify, redeploy | `Session` |
| opening a deal, documents, demo reset (`routes/transactions.py`, `routes/documents.py`, `routes/demo.py`, the Google Drive adapter) | `transactions`, `milestones`, `documents`, the office drive | open, attach, upload, seed, reset | `Intake` |
| call follow-up and listing workflows (`graphs/vapi_followup.py`, `graphs/listing_to_contract.py`, `routes/webhooks.py`, `routes/calls.py`) | `call_records`, `showing_feedback`, CRM notes and tasks, the run's own state | call, webhook, ingest, extract, sync, gate, publish | `Workflows` |
| tenancy, tool authorization, egress (`services/tenancy.py`, `scoped_stores.py`, `tool_authz.py`, `egress.py`, the SQL stores of `db.py`) | tenant context, row stamps, security events | stamp, check, write, deny, check the result | `Boundary` |
| fleet and offboarding scripts (`scripts/fleet_upgrade.py`, `offboard_client.py`, `fleet.py`) | registry `fleet.yml`, tfvars, `infra/.terraform`, cloud resources, archives | upgrade walk, preview, offboard | `Fleet` |

How they interact. Every vendor call of every workflow and route goes through
the write boundary under the run id its caller published (`audit_scope`).
`MessageSend` uses the boundary as a claim per send; `Approvals` is the pause
and resume that the gates of `TransactionCoordination` and the approve/reject
steps of `MessageSend` go through; the cron pass starts runs through the engine
and reads the inbox the engine writes. `Workflows` takes the gates at the level of
`Approvals`, the follow-up email at that of `MessageSend` and CRM writes at that of
`Idempotency`. Every store call of every module passes the layers of `Boundary`;
the other modules are about one tenant and take those layers as transparent, which
is what `Boundary` shows of calls that name their own tenant's rows. `Session`
decides who may call any of it.
The scripts of `Fleet` are run by hand from a checkout and meet the server only in
the instances they create and destroy.

What is hard, and where it bites, is the "hazards" list of `PROJECT.json`:
check-then-act over an await (deciding an approval, retrying a message, raising
the escalation level), snapshots used after they went stale (the cron pass, the
whole-row save of a message), death between two durable writes (pause and inbox
row; vendor call and recorded result), late and repeated webhooks, vendor
timeouts that hide an effect, date comparisons one day apart, a drive whose names
may repeat and whose uploads are several calls, tenant checks made in another
transaction than the write they guard, and operator scripts that share files
nobody locks and may end between any two steps.

## 2. Modules and how they correspond to the code

A module `X` is checked through `MCX` and its `.cfg`; where a module `XProofs` exists
it extends `X` with the inductive invariant and the proofs (section 4). `RouteProofs`
holds the proofs about `Session` and `Intake`, and the proofs about `Worklist` are in
`TransactionCoordinationProofs`, which uses the same rules.

**AtMostOnceWrite** is the promise of the write boundary: a write of a run takes
effect at most once per key, and a caller is handed the result of that effect or
an error.

**Idempotency** is `Idempotent<Port>(Recording<Port>(adapter))`. An invocation
goes claim, vendor, ledger, record; each arrow is an await and an action. The
primary-key insert is the atomic claim; the read after a failed insert is a step
of its own. The vendor may return, raise, or raise after taking effect; the
ledger append and the final update may raise; the process may die anywhere.
Writes outside a run have no key. SHA-256 is taken as injective.

**MessageSend** has one history row per message and any number of handlers, each
with the snapshot of the row it works from; `save_message` writes the whole row
from that snapshot, the webhook's `advance_message_status` is one conditional
UPDATE of the status column. Text is `plain`, `secret` or `redacted`: what the
DLP scrub tells apart. A send's key is the run and the text; a retry has a fresh
run. A gate's decision reaches the row through `Approve` and `Reject`, which come once
where requests do not overlap and any number of times where they do: `decision` is the
set of verdicts given.

**Approvals** has, per run, the checkpointer's thread status and the inbox row,
and, per invocation of `POST /approvals/{id}/decide`, its phase. The pause is
durable when `ainvoke` returns; the row is written by a later transaction; the
decision is marked before the thread is resumed. All three graphs meet at most
one gate per run.

**MilestoneEngine** holds the pure rules as operators over day numbers. An assessment
keeps the place of its milestone in the list; a sorted list is the listing whose every
element is before the next ones, which is one since ids differ.

**Worklist** puts the rules to work: any table of milestones of a given set, any list
of parties, any close date, a calendar that moves on. `MCMilestoneEngine` gives it all
tables of three milestones around the due-soon window.

**TransactionCoordination** is the cron route's loop (two snapshots of the inbox
taken once, then one awaited run per transaction) and every node of the graph,
with the post-gate `notify` split at its awaits: read the milestones, then per
milestone create the task and write the level computed from the read. A decide
request goes check, mark, resume and then through the awaits of the node that carries
its verdict out; two of them on one approval may both get past the check, and both
resume. A pause and its inbox row are one step here (`Approvals` splits them), and a
reminder email is its row's status and whether the provider accepted it
(`MessageSend` has the text and the keys).

**Session** has the magic links, the throttle, redemptions in flight between the
atomic claim and the signing, and the set of all tokens ever signed (nothing on
the server can recall one). A token records its link as a history variable.
Allowlist and roles are configuration and change with a redeploy, which restarts
the process. The throttle counts addresses as typed (lower-cased), the service
strips white space: `strip` maps spellings to mailboxes, so the throttle property
is about a spelling.

**Fleet** has the registry, the tfvars, the cloud and the delivered archives, and
one command per terminal with its local variables. `upgrade_one` is split where
another command or a failure can come between: init, plan, apply, output, verify,
read the registry, write it, write the tfvars; `run` of the offboarding likewise.
`Stops` ends a command anywhere (a failing subprocess, a refused prompt, a scan
that finds something, a kill). Terraform is external: its state lists what an
instance owns (`Managed`, part of which the probes can also list by name), a plan
is refused when the state changed since it was made, a destroy may fail half-way.
`data` numbers an instance's writes, so that an archive is the number of the last
write it holds; of a client's archives the one delivered last is kept, as a `--dest`
that names a file overwrites. The dates, the printed reports and the YAML text are left out; the
read-edit-write of the whole file is not. The flag combinations are a constant.

**Boundary** is a store call on its way through `guard_tool_ports`, the scoped
store and the SQL store, and its result on the way back through the guard's tenant
check; each layer awaits and is a step. The five stores
share nothing but the ledger of security events, so a behaviour is about one
table, chosen initially, in which rows may also carry no stamp at all. `hardened`
says whether the deploy connects as a role that row-level security binds: under it a
statement sees its tenant's rows only, though the primary key stays global. The policy
is forced (migration 0007), so it binds the tables' owner too; the other case is a
role that bypasses it, the superuser of a demo or compose deploy. A read by key, a read by list, an insert, an
update by key and owner, an upsert (read, then insert or update by key) and the
bulk delete are what the stores' methods come to. A result is the set of its rows'
stamps. What is redacted from it, by role or by shape, is not modelled.

**Intake** is each request as the chain of its awaits. The id of a transaction is
derived from its listing and stands for it, as do its one milestone and its
folder's name. The drive is a sequence of folders and a sequence of files in the
order of creation; a file's entry and its bytes arrive by separate calls, either
of which may fail. The office makes folders of its own; nothing is trashed or deleted,
so the `trashed = false` of the adapter's searches leaves nothing out. Search results
come in pages that the adapter follows.

**Workflows** has one action per node of the two graphs, more where a node awaits
between effects. A run goes as far as its gate; behind it a decide request carries it
on, and where `overlap` two of them do, each running the gate's next nodes from the
same checkpoint. Of `send_approved` the look at the row is kept: a row that is neither
PENDING_APPROVAL nor FAILED is returned untouched and the node reports
`followup_sent` all the same. A report without a transcript makes the run ask Vapi,
which may have it or not. A transcript is a sequence of sentences with three marks, which
is all that the deterministic extractor's sentiment and hot signal depend on; the
LLM extractor may answer anything of the right shape. A listing is what
`is_marketable` and the luxury threshold look at, and may change or vanish at any
time. The two graphs share no state of their own, so a behaviour is about one of
them.

### Orderly and disorderly environments

Several promises of the docs hold only when requests about one thing do not
overlap. `MessageSend`, `Approvals`, `TransactionCoordination`, `Fleet`, `Boundary`
and `Intake` therefore have a variable `orderly`, chosen initially from the constant `Regimes` and never
changed. Where it is TRUE the environment issues no overlapping requests for the
same object and the process stays up (for `Approvals` also: no node raises);
where it is FALSE anything goes, two decisions on one approval included. A property
named `Orderly...` is claimed in the first only, all others in both, and those that
say less where decisions overlap say so in the formula (`RejectedIsFinal`,
`OutwardStepsAreApproved`, and by `overlap` `EffectsMatchVerdict`). The passing runs of the first three check both
regimes.

In `Fleet`, orderly means that no command is started while another runs; commands
may still end anywhere. All its properties are claimed there only and its run has
that regime: the scripts take no lock, and with `Regimes = {FALSE}` and two
terminals TLC finds, for the properties without their `orderly =>`, that two
upgrades from one checkout pin a version only the other client was seen to serve
(the second `tf_init` repoints `infra/.terraform` before the first `tf_output`),
and that a registry written back from an old read loses a pin or a mark.

In `Boundary`, orderly means that no two calls overlap. The run has three regimes:
a role the policy binds with overlapping calls, one that bypasses it with and without
them.
`RowKeepsItsTenant` is claimed of the first and the last; in the second TLC finds
two upserts of one new key by two tenants, the later of which takes the row over.
In `Intake`, orderly means that nobody else uploads or makes a folder while an
upload is under way; otherwise TLC finds two first uploads that make two folders,
one of which is never listed. `demo` says whether the demo routes are mounted;
where they are, a reset may delete what an open or an upload has just read. In
`Workflows`, `faults` says whether nodes may fail, `llm` which extractor runs and
`overlap` whether two decisions on one approval may overlap.

## 3. What the runs check

Passing runs:

- `idempotency` - three invocations, two runs and no run. One effect, one ledger
  record and one result per key; a stored result is in the ledger; refinement of
  `AtMostOnceWrite`.
- `message` - four handlers, a direct and a drafted message. Nothing unapproved
  is sent, a rejection is final where nothing overlaps and wherever no human approved
  the message too, the history shows text that shipped, no secret is stored or sent;
  when orderly, DELIVERED is final, a retry never re-sends and nothing is left
  half-way.
- `approvals` - two runs, three decide calls. A pending approval is always
  resumable, writes follow a recorded decision; when orderly, the verdict on the
  row is what was done, once, verdicts are final, paused runs are decidable and
  decisions are carried out.
- `milestones` - portfolios of three milestones around the due-soon window over
  three days and escrow windows around 21 days. The worklist, the graph's routing
  and the reminder agree; dates are accepted exactly when the timeline fits.
- `coordination` - two passes, two decide requests, two transactions, three days.
  Levels never overstate, outward steps follow a human's approval of their own gate, a
  successful pass put every overdue transaction before a human; when orderly, the
  approval row agrees with what went out, gates never stack and each escalation is
  counted once, and a pass that began is recorded.
- `session` - one mailbox under two spellings, two links, two redemptions. One
  session per link, absolute session length, revocation within an access
  lifetime, throttling.
- `fleet` - three commands over a hosted and a client-infra client, ten flag
  combinations, two writes per instance. The registry claims only versions that
  were verified; a walk leaves every client behind it live, ready and recorded; a
  mark made with verification is backed by an empty state and stays so; a database
  only goes by the destroy of a command naming its client, after delivery.

- `boundary` - two calls of two tenants on each of the five tables. A row stays
  with the tenant it is stamped with: no other tenant's call changes, takes over or
  deletes it (of calls that do not overlap, where the role bypasses the policy); no read returns a foreign row, whatever overlaps and whichever role
  the deploy connects as.
- `intake` - two requests among opens, attachments, uploads, seeds and resets. Of
  overlapping opens of one listing one creates it, the same terms replay, others
  conflict, nobody meets an internal error; a document row points at a file that is
  there, an uploaded one with its bytes and its ledger entry, wherever a drive call
  fails or the process dies; what was uploaded is listed under the folder it was
  uploaded to.
- `workflows` - two runs over one call reported twice, or over a listing that
  changes twice, and two decide requests. Nothing gated is done without a recorded
  approval, and a run is reported published or its agent notified only when all of it
  was done; where decisions on one approval do not overlap, the row allows what was
  done and `followup_sent` is told of an email that went out; once every report of a
  call has been worked off, its record holds transcript and extraction, although each
  run first wipes it; where nothing fails, a transcript with a hot phrase leads to an
  approval for the agent (checked as a liveness property).

Runs that are expected to be violated each refute a sentence of the docs or a
docstring, quoted under "findings": `message_retry_race` and `approvals_crash`.
Both sentences hold in the orderly regime, where a passing run checks them.

The other findings have no run. Three were met in the disorderly regimes of
`Approvals`, `TransactionCoordination` and `Boundary` and are what their `orderly`
guards are for: two overlapping decisions on one approval (`OrderlyDecidedIsFinal`
without `orderly`), two overlapping passes that stack gates
(`OrderlyGatesNeverStack` likewise), two overlapping upserts of one key
(`RowKeepsItsTenant` likewise). Two follow from overlapping decisions: an approve that
read PENDING_APPROVAL saves SENT over REJECTED (`RejectedIsFinal` without its guard,
against `message_send.py:334-335`), and a follow-up that another decision rejected
meanwhile is reported `followup_sent` although nothing was sent (`RowTellsEffects`
with `overlap`); the same overlap leaves urgent tasks and emails under an approval row
that says rejected (the `orderly` parts of `OutwardStepsAreApproved`). Two are of
`Intake`: two overlapping first uploads (`UploadsAreListed` without its guard), and an
open that loses to a row which a reset then deletes (`OpenAnswersHonestly` without
`~demo`). The others are read off the
actions: `--mode hosted` overrides a client-infra posture (`_effective_mode`), a
listing that vanishes between two nodes fails an assertion (`Interrupt`), and an
upload retried by its caller is stored twice (`RecordingFiles`). One is between a
docstring and code that is not modelled: `egress.py:44-47` calls filtering a route's
response by the caller's role a follow-on, and `routes/_egress.py` does it.

Two more promises need the orderly regime, `OrderlyDeliveredIsFinal` and
`OrderlyEscalationCounted`. Without it TLC refutes both: a replayed direct send
that read its row early saves DRAFTED over DELIVERED (`message_send.py:248` against
its lines 333-334), and two approved escalations of one milestone that notify at
the same time lose one increment (`transaction_coordination.py:179` against
`docs/ARCHITECTURE.md:106-107`).

### Bounds and why they are enough

Three attempts on one key are an owner, a replay that meets it pending and one
that meets it completed. Four handlers are draft, decision and two overlapping
retries, or two overlapping sends and a retry. Three decide calls on two runs are
two overlapping ones and an independent one; where a decide request also carries the
node out (`TransactionCoordination`, `Workflows`), two are one overlap. Two passes are
what an overlap needs; listing keys have every length up to one more than the
column. Three days take one milestone through due today, one day late and two days late.
The session clock (5) outlives a session (3), an access lifetime (2) and a link
(1), so every expiry happens before and after every other event. Three fleet
commands are an interrupted one, its repetition or an offboarding, and a walk over
what they left; the clients differ in posture and the initial tfvars in whether
they pin, track `latest`, lack the line or are missing. Two calls on two keys are an
upsert and the write that comes between its read and its update, and a clear that
meets another tenant's row next to its own. Two requests are two racing opens or
uploads, or a reset against either; one result per page makes every search of two
folders cross a page, and two folders of one name are what the office or a race
makes. Two runs on one call are a repeated report; two changes of the listing are
one before and one while the approval waits, on either side of the luxury price.
Symmetry is used
for handlers, attempts, links, redeemers, calls, tenants and requests, which are
interchangeable, and never together with a liveness property.

`CHECK_DEADLOCK FALSE` is everywhere: finitely many requests are modelled and the
system rests when they are done.

### Fairness

Only for coroutines the server is driving: a start or decide invocation in
flight (`StarterStep`, `DeciderStep`) and a running pass with the run it awaits
(`PassProgress`). In `Workflows` it is each run's `Step` up to its gate, which
the request that started the run awaits. Nobody is obliged to send a request, to
decide an approval or to call back; a process may die when not orderly.

## 4. What is proved

For every number of attempts, runs, decisions, handlers, calls, tenants, passes,
operators and links, any transcripts, timelines and lifetimes, under the named
assumptions of each module. In every proof module `IInv` is the inductive invariant
and was checked by TLC on the module's run before it was proved; each safety property
follows from it by `IInv => property`, each action property from `IInv` and one step.

- `IdempotencyProofs`: `IInv` is inductive; from it `AtMostOnce`,
  `ReplayReturnsOriginal`, `LedgerTellsTheTruth` (one record per write and every
  stored result in the ledger), the action
  property `ClaimsForwardOnly`, and `Spec => ImplementsAtMostOnceWrite`. The
  argument: a key has one owner, the invocation whose insert succeeded; only
  owners (and writes without a run) reach vendor and ledger; a completed key holds
  its owner's result. None of the properties is inductive alone: `AtMostOnce` says
  nothing about an invocation that holds a claim and has not called the vendor
  yet, so the invariant must speak of claims.
- `ApprovalsProofs`: `IInv` ties checkpoint, row and invocations in flight; from it
  `PendingIsPaused` and `ActsAsDecided` in both regimes, and
  `OrderlyPausedIsDecidable` and `OrderlyDecidedIsFinal`. `PendingIsPaused` alone is
  not inductive because a finishing resume ends a thread: one must know that
  whoever got that far has marked the row.
- `RouteProofs`, of `Session`: every token is tied to its spent link, to its refresh
  token's expiry and to the role configured when it was signed; from it
  `LinkRedeemedOnce` and `SessionsEnd`, that is `SessionBounded` (needs
  ACCESS_TTL <= REFRESH_TTL) and `RevokedWithinAccessTTL`. And `LinksThrottled`: the
  links minted for an address inside the window inject into the list the throttle
  keeps, and the list is no longer than the limit. The property speaks of links and the
  code of times, so the invariant has to say that each recent link's time is still in
  the list, as often as links share it.
- `RouteProofs`, of `Intake` (under its `ConstantsFit`): `OpenAnswersHonestly`,
  `DocumentsAreBacked` and `UploadsAreListed`. `IInv` says per phase what a request has
  established: which operation it is, what it knows of the row, the folder, the file
  and its ledger entry, and which of it a demo reset may have taken away. For
  `UploadsAreListed`: where nobody else works on the drive, the folder an upload found
  or made is the oldest of its name and stays so, and a listing, page by page, holds
  every file of the oldest folder.
- `FleetProofs`: for any registry, releases, terminals and flags. `IInv` says what
  each step of a command knows when it runs alone: terraform points at its client,
  what was verified is that client at that version, the text it is about to write
  is the registry with one field changed, what it exported is delivered. From it
  `PinIsVerified`, `WalkLeavesGoodBehind`, `MarkIsBacked` and the action property
  `DestroyIsDelivered`. None is inductive alone: each rests on what an earlier step
  of the same command established, and `MarkIsBacked` also on walks having no
  marked client among their targets.

- `MessageSendProofs`: all seven properties of the `message` run
  (`NoSendWithoutApproval`, `HistoryShowsWhatShipped`, `NoSecretLeaves`,
  `SettledWhenIdle`, `RejectedIsFinal`, `OrderlyDeliveredIsFinal`,
  `OrderlyRetryNeverResends`). A drafted message leaves PENDING_APPROVAL only by a
  handler of a decision that was given, and whatever is about to send it, or has,
  rests on a decision to approve. Decisions are a set, of any size where requests
  overlap; where they do not, it has one element, which settles the row. A provider id, wherever it is kept (row, a handler's copy,
  idempotency key), names a send that was accepted with that very text. The
  properties say nothing about the copies handlers are going to save, so none is
  inductive: the invariant must say what each copy holds, phase by phase. When
  orderly, one handler works on a message at a time and what it read at its start
  still holds when it saves. On top of `IInv`, `AcceptedOnce`: in both regimes, outside
  the admin's retries, the provider accepts one text of a message at most once,
  replays, crashes and timeouts that hide an accepted message included; a direct
  message has one text, and a draft has one where its decisions do not overlap. Its
  invariant `OnceInv` says that an accepted message has used up its handler and its
  key, and that whoever calls the provider holds a key nobody else holds and nothing
  was sent under. A second copy can therefore come about in two ways only: by the retry
  route (the `message_retry_race` run), and by overlapping approvals of one draft with
  different edits.
- `BoundaryProofs`: `NoForeignRow` and the action property `RowKeepsItsTenant`. Every step of every store method is one of four: the call goes
  on, is denied, answers with rows it may see, or writes one row; each kind is one
  lemma, and the methods are instances. What a call found of its target (not another
  tenant's) is part of the invariant only where nothing overlaps; under a role the
  policy binds it is not needed, because the statement itself sees its tenant's rows
  only. This is where the two regimes part, and why a role that bypasses the policy,
  with overlapping calls, is left out of the claim.
- `TransactionCoordinationProofs`: `OutwardStepsAreApproved`,
  `SuccessMeansOverdueAsked`, `OrderlyGatesNeverStack` and `LevelsTellEscalations`.
  Which gate a run can reach was settled when it evaluated its milestones. When
  orderly, the snapshots of a pass, taken once before its loop, stay true of every
  transaction it has not reached, although gates it raised itself are not in them:
  this is what stops a second gate. Of decide requests the invariant says which gate
  and which verdict each is carrying out, and that whatever went out was made by one
  that recorded an approval; that a run has one such request, and its row says what
  that one decided, is part of it only where decisions do not overlap. Levels are told
  by tasks: the note of an URGENT task carries the level that was read, so every level
  below a milestone's has its task in any regime (the ones a notification read were
  told before it began), and where nothing overlaps the level it read is still the
  level when it writes, so each has exactly one. `CoordinationTyped` is type
  correctness.
- `TransactionCoordinationProofs`, of `Worklist` (under `WorklistFits`, for every table,
  party list and date): `WorklistOrdered`, `EmailIsMostUrgentReachable` and
  `OpensWhenTimelineFits`. What a sort yields is shown without induction over lists: in
  a finite set under a strict total order the rank of an element is the number of those
  before it, ranks differ and are gapless, so the listing by rank exists, has every
  element once and begins with the least. A first index (of a party, of the most urgent
  milestone) exists because every nonempty set of naturals has a least element
  (`LeastNatural`, from `WellFoundedInduction`).
- `WorkflowsProofs`: `EffectsMatchVerdict` and `CallIsFiled`, for any number of runs on
  one call and any number of decisions on a gate. The node a run is at determines what
  it has done itself; what is behind the gate was done by a decide request that
  recorded an approval, and while it publishes, what it has made and what is left are
  its plan. Only where decisions do not overlap is that request the only one, and do
  the row and the email's row follow its verdict. For the
  shared call record: a run that has ingested a call and not saved yet (or raised in
  between) owes the record an extraction, and a record without one always has such a
  run. `CallIsFiled` alone is not inductive, because its premise becomes true at the
  last run's step and says nothing before.

Assumptions on constants are the ones a database or Python gives for free: sentinels
(`NoRow`, `NoSid`, `Absent`, `None`) are no rows, ids or calls; sets that index a
record are not empty; ACCESS_TTL <= REFRESH_TTL. `MilestoneAssumption` of
`TransactionCoordination` says that assessments of two transactions never name the
same overdue milestone: a milestone's id is a primary key and is derived from its
transaction's (`milestone_schedule.py`). TLC evaluates all of them on the runs'
instances.

The inductive invariants, `ClaimsForwardOnly`, `AcceptedOnce` and `CoordinationTyped`
are proved and have no run of their own (TLC checked each on the instance of its
module's run before it was proved); the other type invariants are conjuncts of the
inductive invariants. The library's induction theorems, which take an operator as a
parameter, are used nowhere; where a recursive function or a listing has to be
reasoned about, the least counterexample (`LeastNatural`) or the fixpoint equation of
the function does the work.

Only model-checked: liveness (`DecisionCarriedOut`, `PassIsRecorded`,
`HotLeadReachesAgent`), which is out of the prover's reach. Every invariant and every
action property of the passing runs is stated by a theorem.

## 5. Not modelled

Vendor adapters other than Google Drive's (request shaping), prompt texts and
templates, the React frontend, Terraform and migrations other than the
row-level-security policy: no protocol state of their own. The in-memory stores of
a deploy without a database, which serve one process and one tenant. The wiring of
`main.py` and `deps.py` beyond the order of the store layers. The status page, which
only reads. Of the call follow-up: features, price opinions and budgets of an
extraction, and custom fields of the call. Argument
redaction in the ledger, and on the way out the redaction of a payload by role and of
credentials in it (`scrub_payload`, `role_scrubber`): a pure function of payload and
role. Trash and deletion on the drive. Of the fleet scripts: the automatic roll of clients that
track `latest`, the contents of archives and the scan's patterns, a DSN that names
another client's database, a missing `TF_STATE_BUCKET` (the command ends where
`Stops` ends it). Google sign-in, a signature check against an outside
issuer. The rows of PROJECT.json's "components" say what is left out of each part.

## 6. What would come next

1. Composition: `MessageSend`'s claims shown to implement `AtMostOnceWrite` key by key
   (`AcceptedOnce` is the safety half; the refinement needs a history of which
   invocations were made), and a gate of `TransactionCoordination` shown to be what
   `Approvals` provides to an orderly caller.
2. The parts listed as partly modelled or not modelled in `PROJECT.json`, the status
   page's staleness verdict first.
