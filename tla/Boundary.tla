------------------------------ MODULE Boundary -------------------------------
(***************************************************************************)
(* The tenant boundary around the persistent stores, as main.py layers it: *)
(*                                                                         *)
(*   route or engine -> guard_tool_ports -> Scoped*Store -> Sql*Store      *)
(*                                                                         *)
(* Each layer is a step of its own, because each awaits.  The tenant of a  *)
(* call is bound by the middleware from the deploy's configuration; the    *)
(* tenant a model carries (its claim) is whatever a node put there.  The   *)
(* scoped store reads the target row before it writes, in another database *)
(* transaction than the write.  Row-level security is forced, so it binds  *)
(* the owner of the tables too; what it does not bind is a role that       *)
(* bypasses it, the superuser a demo or compose deploy connects as.  On    *)
(* the way out of a guarded port the result's tenants are looked at again. *)
(*                                                                         *)
(* The five stores share nothing but the ledger of security events, so a   *)
(* behaviour is about the table chosen in its initial state.               *)
(***************************************************************************)
EXTENDS Naturals, FiniteSets

CONSTANTS
    Tenants,   \* the tenants of the deploys that share the database
    Keys,      \* primary keys: one name space for all tenants
    Calls,     \* invocations of a store's method
    Absent,    \* no such row
    Earlier,   \* who wrote the rows that are there from the start
    Regimes    \* the values of <<hardened, orderly>> to consider

Tables == {"transactions", "call_records", "outbound_messages", "documents",
           "approval_requests"}

ASSUME BoundaryAssumptions ==
    /\ "" \notin Tenants
    /\ Keys # {}
    /\ Absent \notin [tenant : Tenants \cup {""}, by : Calls \cup {Earlier}]
    /\ Regimes \subseteq BOOLEAN \X BOOLEAN

VARIABLES
    table,     \* the table this behaviour is about
    hardened,  \* does the deploy connect as a role that row-level security binds?
    orderly,   \* is it so that no two calls overlap?
    rows,      \* the table: the tenant a row is stamped with ("" if it is not), who
               \* wrote it last
    call,      \* each invocation
    events     \* security events in the ledger

vars == <<table, hardened, orderly, rows, call, events>>

Tools == {"create", "save", "update", "get", "list", "clear"}

\* The methods of each store: create_transaction, get_transaction,
\* list_active_transactions, set_escalation_level (of a milestone, whose key
\* stands for the transaction's) and clear; save_call_record and
\* upsert_feedback; save_message and advance_message_status; add; create and
\* mark_decided.
Methods(tab) ==
    CASE tab = "transactions"      -> {"create", "get", "list", "update", "clear"}
      [] tab = "call_records"      -> {"save", "get", "list"}
      [] tab = "outbound_messages" -> {"save", "get", "list", "update"}
      [] tab = "documents"         -> {"create", "get", "list"}
      [] tab = "approval_requests" -> {"create", "get", "list", "update"}

NoCall == [phase |-> "idle", tool |-> "get", key |-> CHOOSE k \in Keys : TRUE,
           tenant |-> "", claim |-> "", result |-> {}]

Phases == {"idle", "called", "scoped", "inner", "found", "missing", "returned", "done",
           "denied", "raised"}

\* The result of a read: what the rows in it are stamped with.
Invocations ==
    [phase : Phases, tool : Tools, key : Keys, tenant : Tenants \cup {""},
     claim : Tenants \cup {""}, result : SUBSET (Tenants \cup {""})]

Rows == [tenant : Tenants \cup {""}, by : Calls \cup {Earlier}]

TypeOK ==
    /\ table \in Tables
    /\ hardened \in BOOLEAN
    /\ orderly \in BOOLEAN
    /\ rows \in [Keys -> Rows \cup {Absent}]
    /\ call \in [Calls -> Invocations]
    /\ events \subseteq [call : Calls, attempted : Tenants, bound : Tenants]

Init ==
    /\ table \in Tables
    /\ \E r \in Regimes : hardened = r[1] /\ orderly = r[2]
    /\ rows \in [Keys -> [tenant : Tenants \cup {""}, by : {Earlier}] \cup {Absent}]
    /\ call = [c \in Calls |-> NoCall]
    /\ events = {}

Over == {"idle", "done", "denied", "raised"}
At(c, phase) == call[c].phase = phase
Goto(c, phase) == call' = [call EXCEPT ![c].phase = phase]

-----------------------------------------------------------------------------
\* The tenant seam.

\* A row check that only looks for an unstamped row.
IsForeignUnstamped(row_tenant, ambient) == row_tenant = ""

\* An unstamped row counts as owned.
_is_foreign(row_tenant, ambient) == row_tenant # "" /\ row_tenant # ambient

\* enforce_tenant raises unless this holds; an empty claim means the bound tenant.
enforce_tenant(claimed, bound) == claimed = "" \/ claimed = bound

\* The policy of every table: under a role it binds, a statement sees and writes
\* the rows of the tenant set for its transaction and no others.
tenant_isolation(t, k) == hardened => rows[k].tenant = t

Visible(t, k) == rows[k] # Absent /\ tenant_isolation(t, k)

\* The ownership predicate of count, clear and the by-id updates.
_owned(t, k) == rows[k].tenant = t \/ rows[k].tenant = ""

\* A row of another tenant that the wrapper's read brings up.
Foreign(c) ==
    /\ Visible(call[c].tenant, call[c].key)
    /\ _is_foreign(rows[call[c].key].tenant, call[c].tenant)

\* record_cross_tenant_attempt, and the call is over: the error is raised, or a
\* read answers that there is no such row.
Deny(c, attempted) ==
    /\ events' = events \cup {[call |-> c, attempted |-> attempted,
                               bound |-> call[c].tenant]}
    /\ Goto(c, "denied")
    /\ UNCHANGED rows

Proceed(c, phase) == Goto(c, phase) /\ UNCHANGED <<rows, events>>

Answer(c, keys) ==
    call' = [call EXCEPT ![c].phase = "returned",
                         ![c].result = {rows[k].tenant : k \in keys}]

Return(c, keys) == Answer(c, keys) /\ UNCHANGED <<rows, events>>
-----------------------------------------------------------------------------
\* A request of tenant t's deploy, or a node of one of its runs, calls a method.
\* TenantScopeMiddleware has bound t; nothing below rebinds it (tenant_scope).
Request(c, t, tool, k, claim) ==
    /\ At(c, "idle")
    /\ orderly => \A d \in Calls : call[d].phase \in Over
    /\ tool \in Methods(table)
    /\ tool \notin {"create", "save"} => claim = ""
    /\ call' = [call EXCEPT ![c] =
         [NoCall EXCEPT !.phase = "called", !.tool = tool, !.key = k, !.tenant = t,
                        !.claim = claim]]
    /\ UNCHANGED <<rows, events>>

\* The stores main.py wraps with guard_tool_ports; the message and document
\* stores are not engine ports.
Guarded == {"transactions", "call_records", "approval_requests"}

\* The tenants an argument commits the call to: its model's tenant_id.
tenant_values(c) == IF call[c].tool \in {"create", "save"} THEN {call[c].claim} ELSE {}

\* authorize_tenant_params, the outermost layer.
Authorize(c) ==
    /\ At(c, "called")
    /\ \/ /\ table \in Guarded
          /\ \E v \in tenant_values(c) :
               ~enforce_tenant(v, call[c].tenant) /\ Deny(c, v)
       \/ /\ table \in Guarded =>
               \A v \in tenant_values(c) : enforce_tenant(v, call[c].tenant)
          /\ Proceed(c, "scoped")
-----------------------------------------------------------------------------
\* The scoped stores: each method's checks, up to its write or its answer.

\* A model is stamped with the bound tenant unless it claims another.
Stamp(c) ==
    IF enforce_tenant(call[c].claim, call[c].tenant)
    THEN Proceed(c, "inner") ELSE Deny(c, call[c].claim)

\* The target row is read first and must not be another tenant's.
CheckTarget(c) ==
    IF Foreign(c) THEN Deny(c, rows[call[c].key].tenant) ELSE Proceed(c, "inner")

StampAndCheck(c) ==
    IF enforce_tenant(call[c].claim, call[c].tenant)
    THEN CheckTarget(c) ELSE Deny(c, call[c].claim)

GetOwn(c) ==
    IF Foreign(c) THEN Deny(c, rows[call[c].key].tenant)
    ELSE Return(c, {k \in {call[c].key} : Visible(call[c].tenant, k)})

ListOwn(c) ==
    Return(c, {k \in Keys : /\ Visible(call[c].tenant, k)
                            /\ ~_is_foreign(rows[k].tenant, call[c].tenant)})

Scoped(c, tab, tool) == At(c, "scoped") /\ table = tab /\ call[c].tool = tool

ScopedTransactionStore(c) ==
    \/ Scoped(c, "transactions", "create") /\ Stamp(c)
    \/ Scoped(c, "transactions", "get")    /\ GetOwn(c)
    \/ Scoped(c, "transactions", "list")   /\ ListOwn(c)
    \/ Scoped(c, "transactions", "update") /\ CheckTarget(c)
    \/ Scoped(c, "transactions", "clear")  /\ Proceed(c, "inner")

ScopedFeedbackStore(c) ==
    \/ Scoped(c, "call_records", "save") /\ StampAndCheck(c)
    \/ Scoped(c, "call_records", "get")  /\ GetOwn(c)
    \/ Scoped(c, "call_records", "list") /\ ListOwn(c)

\* A message store whose save leaves the target row alone.
SaveMessageUnchecked(c) ==
    \/ Scoped(c, "outbound_messages", "save")   /\ Stamp(c)
    \/ Scoped(c, "outbound_messages", "get")    /\ GetOwn(c)
    \/ Scoped(c, "outbound_messages", "list")   /\ ListOwn(c)
    \/ Scoped(c, "outbound_messages", "update") /\ CheckTarget(c)

ScopedMessageStore(c) ==
    \/ Scoped(c, "outbound_messages", "save")   /\ StampAndCheck(c)
    \/ Scoped(c, "outbound_messages", "get")    /\ GetOwn(c)
    \/ Scoped(c, "outbound_messages", "list")   /\ ListOwn(c)
    \/ /\ Scoped(c, "outbound_messages", "update")
       /\ IF Visible(call[c].tenant, call[c].key) THEN CheckTarget(c) ELSE Return(c, {})

ScopedDocumentStore(c) ==
    \/ Scoped(c, "documents", "create") /\ StampAndCheck(c)
    \/ Scoped(c, "documents", "get")    /\ GetOwn(c)
    \/ Scoped(c, "documents", "list")   /\ ListOwn(c)

ScopedApprovalRepo(c) ==
    \/ Scoped(c, "approval_requests", "create") /\ Stamp(c)
    \/ Scoped(c, "approval_requests", "get")    /\ GetOwn(c)
    \/ Scoped(c, "approval_requests", "list")   /\ ListOwn(c)
    \/ Scoped(c, "approval_requests", "update") /\ CheckTarget(c)
-----------------------------------------------------------------------------
\* The SQL stores: one step per statement that can meet another writer.

Write(c, k) ==
    /\ rows' = [rows EXCEPT ![k] = [tenant |-> call[c].tenant, by |-> c]]
    /\ Goto(c, "returned")
    /\ UNCHANGED events

\* INSERT: the primary key is global, so a hidden row conflicts as well.
Insert(c) ==
    IF rows[call[c].key] = Absent THEN Write(c, call[c].key) ELSE Proceed(c, "raised")

\* The read of a read-then-insert-or-update.
Select(c) ==
    Proceed(c, IF Visible(call[c].tenant, call[c].key) THEN "found" ELSE "missing")

\* UPDATE by key: every column is written, the tenant included.
Overwrite(c) ==
    IF Visible(call[c].tenant, call[c].key) THEN Write(c, call[c].key)
    ELSE Proceed(c, "returned")

\* UPDATE by key and owner of columns other than the tenant; no row is an error.
UpdateOwned(c) ==
    LET k == call[c].key IN
    IF Visible(call[c].tenant, k) /\ _owned(call[c].tenant, k)
    THEN /\ rows' = [rows EXCEPT ![k].by = c]
         /\ Goto(c, "returned") /\ UNCHANGED events
    ELSE Proceed(c, "raised")

Inner(c, tab, tool) == At(c, "inner") /\ table = tab /\ call[c].tool = tool

SqlTransactionStore(c) ==
    \/ Inner(c, "transactions", "create") /\ Insert(c)
    \/ Inner(c, "transactions", "update") /\ UpdateOwned(c)
    \/ /\ Inner(c, "transactions", "clear")
       /\ rows' = [k \in Keys |->
                     IF /\ Visible(call[c].tenant, k) /\ _owned(call[c].tenant, k)
                     THEN Absent ELSE rows[k]]
       /\ Goto(c, "returned") /\ UNCHANGED events

SqlFeedbackStore(c) ==
    /\ table = "call_records"
    /\ \/ At(c, "inner") /\ Select(c)
       \/ At(c, "missing") /\ Insert(c)
       \/ At(c, "found") /\ Overwrite(c)

\* advance_message_status writes the status of the row with that key, forward only,
\* and returns the row it finds there afterwards.
SqlMessageStore(c) ==
    \/ Inner(c, "outbound_messages", "save") /\ Select(c)
    \/ At(c, "missing") /\ table = "outbound_messages" /\ Insert(c)
    \/ At(c, "found") /\ table = "outbound_messages" /\ Overwrite(c)
    \/ /\ Inner(c, "outbound_messages", "update")
       /\ IF Visible(call[c].tenant, call[c].key)
          THEN rows' = [rows EXCEPT ![call[c].key].by = c] /\ Answer(c, {call[c].key})
          ELSE rows' = rows /\ Answer(c, {})
       /\ UNCHANGED events

SqlDocumentStore(c) == Inner(c, "documents", "create") /\ Insert(c)

SqlApprovalRepo(c) ==
    \/ Inner(c, "approval_requests", "create") /\ Insert(c)
    \/ Inner(c, "approval_requests", "update") /\ UpdateOwned(c)
-----------------------------------------------------------------------------
\* The way out: filter_tool_response on a guarded port blocks a payload with a
\* foreign tenant in it; the message and document stores answer as they are.
FilterResponse(c) ==
    /\ At(c, "returned")
    /\ IF table \notin Guarded THEN Proceed(c, "done")
       ELSE \/ \E t \in call[c].result :
                 ~enforce_tenant(t, call[c].tenant) /\ Deny(c, t)
            \/ /\ \A t \in call[c].result : enforce_tenant(t, call[c].tenant)
               /\ Proceed(c, "done")
-----------------------------------------------------------------------------
Step(c) ==
    \/ Authorize(c)
    \/ ScopedTransactionStore(c) \/ ScopedFeedbackStore(c) \/ ScopedMessageStore(c)
    \/ ScopedDocumentStore(c) \/ ScopedApprovalRepo(c)
    \/ SqlTransactionStore(c) \/ SqlFeedbackStore(c) \/ SqlMessageStore(c)
    \/ SqlDocumentStore(c) \/ SqlApprovalRepo(c)
    \/ FilterResponse(c)

Next ==
    /\ \E c \in Calls :
         \/ \E t \in Tenants, tool \in Tools, k \in Keys,
               claim \in Tenants \cup {""} :
               Request(c, t, tool, k, claim)
         \/ Step(c)
    /\ UNCHANGED <<table, hardened, orderly>>

Spec == Init /\ [][Next]_vars
-----------------------------------------------------------------------------
\* A row stays with the tenant it is stamped with: no call of another tenant changes
\* it, takes it over or deletes it, although the wrappers look at the target in one
\* transaction and write in the next.  Under a role that row-level security binds this
\* holds of every interleaving; under one that bypasses it, where the upserts write by
\* key alone, of calls that do not overlap.
RowKeepsItsTenant ==
    [][hardened \/ orderly =>
         \A k \in Keys :
            rows[k] # Absent /\ rows[k].tenant # "" /\ rows'[k] # rows[k] =>
            /\ \E c \in Calls : call'[c] # call[c] /\ call[c].tenant = rows[k].tenant
            /\ rows'[k] # Absent => rows'[k].tenant = rows[k].tenant]_vars

\* Whatever overlaps and whichever role the deploy connects as, no read hands a
\* caller a row that another tenant is stamped as the owner of.  An update that
\* returns its row (advance_message_status, which the guard does not cover) is held
\* to it where the row cannot change hands under it.
NoForeignRow ==
    \A c \in Calls :
      /\ At(c, "done")
      /\ hardened \/ orderly \/ call[c].tool # "update"
      => call[c].result \subseteq {"", call[c].tenant}
=============================================================================
