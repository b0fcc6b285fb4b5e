---------------------------- MODULE BoundaryProofs ---------------------------
(***************************************************************************)
(* For any tenants, keys and calls, any store, both database roles and     *)
(* calls that overlap or do not.                                           *)
(*                                                                         *)
(* Every step of Boundary is one of a few: a call goes on, is denied,      *)
(* answers with rows it may see, or writes a row.  What a call holds in    *)
(* its hands is constrained by where it is; what it read of its target     *)
(* stays true only while nothing overlaps, or where the database itself    *)
(* sees to it.                                                             *)
(***************************************************************************)
EXTENDS Boundary, TLAPS

\* Before it has touched the store a call has no result.
Early == {"idle", "called", "scoped", "inner", "found", "missing"}
Late == {"returned", "done"}

\* Where no row changes hands behind a call's back, or the call only reads.
Steady(c) == hardened \/ orderly \/ call[c].tool # "update"

CallInv ==
    \A c \in Calls :
        /\ ~At(c, "idle") => call[c].tenant \in Tenants
        /\ ~At(c, "idle") => call[c].tool \in Methods(table)
        /\ call[c].phase \in {"inner", "found", "missing"} => call[c].tool \notin {"get", "list"}
        /\ call[c].phase \in Early => call[c].result = {}
        /\ call[c].phase \in Late /\ Steady(c) =>
             \A t \in call[c].result : ~_is_foreign(t, call[c].tenant)

\* A save or an update has found that its target is not another tenant's.
TargetInv ==
    orderly =>
      /\ \A c, d \in Calls : {call[c].phase, call[d].phase} \cap Over = {} => c = d
      /\ \A c \in Calls :
           /\ call[c].phase \in {"inner", "found", "missing"}
           /\ call[c].tool \in {"save", "update"}
           => ~Foreign(c)

IInv == TypeOK /\ CallInv /\ TargetInv

Fixed == <<table, hardened, orderly>>

LEMMA GotoFact ==
    ASSUME TypeOK, NEW c \in Calls, NEW p \in Phases, Goto(c, p)
    PROVE  /\ call' \in [Calls -> Invocations]
           /\ call'[c].phase = p
           /\ call'[c].tool = call[c].tool /\ call'[c].key = call[c].key
           /\ call'[c].tenant = call[c].tenant /\ call'[c].claim = call[c].claim
           /\ call'[c].result = call[c].result
           /\ \A d \in Calls : d # c => call'[d] = call[d]
BY DEF TypeOK, Goto, Invocations

\* The steps that do not answer: a call moves on towards its write, ends without a
\* result, or leaves an unguarded port.
LEMMA ProceedIInv ==
    ASSUME IInv, NEW c \in Calls, NEW p \in Phases, Proceed(c, p), UNCHANGED Fixed,
           \/ call[c].phase \in Early \ {"idle"} /\ p # "idle"
           \/ At(c, "returned") /\ p = "done",
           p \in {"inner", "found", "missing"} =>
             /\ call[c].tool \notin {"get", "list"}
             /\ orderly /\ call[c].tool \in {"save", "update"} => ~Foreign(c)
    PROVE  IInv'
<1>1. Goto(c, p) /\ UNCHANGED <<rows, events, table, hardened, orderly>>
  BY DEF Proceed, Fixed
<1>2. /\ call' \in [Calls -> Invocations]
      /\ call'[c].phase = p
      /\ call'[c].tool = call[c].tool /\ call'[c].key = call[c].key
      /\ call'[c].tenant = call[c].tenant /\ call'[c].claim = call[c].claim
      /\ call'[c].result = call[c].result
      /\ \A d \in Calls : d # c => call'[d] = call[d]
  BY <1>1, GotoFact DEF IInv
<1>3. TypeOK'
  BY <1>1, <1>2 DEF IInv, TypeOK
<1>4. CallInv'
  BY <1>1, <1>2 DEF IInv, CallInv, At, Early, Late, Steady
<1>5. TargetInv'
  <2>1. call[c].phase \notin Over
    BY DEF Early, Over, At
  <2>2. \A d \in Calls : Foreign(d)' <=> Foreign(d)
    BY <1>1, <1>2 DEF Foreign, Visible, tenant_isolation
  <2> QED
    BY <1>1, <1>2, <2>1, <2>2 DEF IInv, TargetInv
<1> QED
  BY <1>3, <1>4, <1>5 DEF IInv

\* A denied call leaves an event and nothing else.
LEMMA DenyIInv ==
    ASSUME IInv, NEW c \in Calls, NEW t \in Tenants, Deny(c, t), UNCHANGED Fixed,
           call[c].phase \notin Over
    PROVE  IInv'
<1>1. Goto(c, "denied") /\ UNCHANGED <<rows, table, hardened, orderly>>
  BY DEF Deny, Fixed
<1>2. /\ call' \in [Calls -> Invocations]
      /\ call'[c].phase = "denied"
      /\ call'[c].tool = call[c].tool /\ call'[c].key = call[c].key
      /\ call'[c].tenant = call[c].tenant /\ call'[c].claim = call[c].claim
      /\ call'[c].result = call[c].result
      /\ \A d \in Calls : d # c => call'[d] = call[d]
  BY <1>1, GotoFact DEF IInv, Phases
<1>3. call[c].tenant \in Tenants
  BY DEF IInv, CallInv, At, Over
<1>4. TypeOK'
  <2>1. rows' \in [Keys -> Rows \cup {Absent}]
    BY <1>1 DEF IInv, TypeOK
  <2>2. events' \subseteq [call : Calls, attempted : Tenants, bound : Tenants]
    BY <1>3 DEF IInv, TypeOK, Deny
  <2> QED
    BY <1>1, <1>2, <2>1, <2>2 DEF IInv, TypeOK
<1>5. CallInv'
  BY <1>1, <1>2, <1>3 DEF IInv, CallInv, At, Early, Late, Steady, Over
<1>6. TargetInv'
  <2>1. \A d \in Calls : Foreign(d)' <=> Foreign(d)
    BY <1>1, <1>2 DEF Foreign, Visible, tenant_isolation
  <2> QED
    BY <1>1, <1>2, <2>1 DEF IInv, TargetInv, Over
<1> QED
  BY <1>4, <1>5, <1>6 DEF IInv

LEMMA AnswerFact ==
    ASSUME TypeOK, NEW c \in Calls, NEW K \in SUBSET Keys, Answer(c, K),
           \A k \in K : rows[k] # Absent
    PROVE  /\ call' \in [Calls -> Invocations]
           /\ call'[c].phase = "returned"
           /\ call'[c].tool = call[c].tool /\ call'[c].key = call[c].key
           /\ call'[c].tenant = call[c].tenant
           /\ \A t \in call'[c].result : \E k \in K : t = rows[k].tenant
           /\ \A d \in Calls : d # c => call'[d] = call[d]
<1> DEFINE res == {rows[k].tenant : k \in K}
<1>1. \A k \in K : rows[k].tenant \in Tenants \cup {""}
  BY DEF TypeOK, Rows
<1>2. res \in SUBSET (Tenants \cup {""})
  BY <1>1
<1>3. call' = [call EXCEPT ![c].phase = "returned", ![c].result = res]
  BY DEF Answer
<1>4. \A t \in res : \E k \in K : t = rows[k].tenant
  OBVIOUS
<1> HIDE DEF res
<1>5. /\ call' \in [Calls -> Invocations]
      /\ call'[c].phase = "returned"
      /\ call'[c].tool = call[c].tool /\ call'[c].key = call[c].key
      /\ call'[c].tenant = call[c].tenant
      /\ call'[c].result = res
      /\ \A d \in Calls : d # c => call'[d] = call[d]
  BY ZenonT(60), <1>2, <1>3 DEF TypeOK, Invocations, Phases
<1> QED
  BY <1>4, <1>5

\* An answer from rows that are no other tenant's, or of an update whose target may have
\* changed hands.
LEMMA AnswerIInv ==
    ASSUME IInv, NEW c \in Calls, NEW K \in SUBSET Keys, Answer(c, K), UNCHANGED Fixed,
           UNCHANGED events, call[c].phase \notin Over,
           rows' \in [Keys -> Rows \cup {Absent}],
           \A k \in K : rows[k] # Absent,
           Steady(c) => \A k \in K : ~_is_foreign(rows[k].tenant, call[c].tenant)
    PROVE  IInv'
<1>1. /\ call' \in [Calls -> Invocations]
      /\ call'[c].phase = "returned"
      /\ call'[c].tool = call[c].tool /\ call'[c].key = call[c].key
      /\ call'[c].tenant = call[c].tenant
      /\ \A t \in call'[c].result : \E k \in K : t = rows[k].tenant
      /\ \A d \in Calls : d # c => call'[d] = call[d]
  BY AnswerFact DEF IInv
<1>2. TypeOK'
  BY <1>1 DEF IInv, TypeOK, Fixed
<1>3. CallInv'
  <2>1. Steady(c) => \A t \in call'[c].result : ~_is_foreign(t, call[c].tenant)
    BY <1>1
  <2>2. call[c].tenant \in Tenants /\ call[c].tool \in Methods(table)
    BY DEF IInv, CallInv, At, Over
  <2> QED
    BY <1>1, <2>1, <2>2 DEF IInv, CallInv, At, Early, Late, Steady, Fixed
<1>4. TargetInv'
  <2> SUFFICES ASSUME orderly PROVE TargetInv'
    BY DEF TargetInv, Fixed
  <2>1. \A d \in Calls : {call[c].phase, call[d].phase} \cap Over = {} => c = d
    BY DEF IInv, TargetInv
  <2>2. \A d \in Calls : d # c => call[d].phase \in Over
    BY <2>1
  <2>3. \A d \in Calls : d # c => call'[d].phase \in Over
    BY <1>1, <2>2
  <2> QED
    BY <1>1, <2>3 DEF TargetInv, Over
<1> QED
  BY <1>2, <1>3, <1>4 DEF IInv

\* A call that writes is over before anyone else can look.
LEMMA WroteIInv ==
    ASSUME IInv, NEW c \in Calls, Goto(c, "returned"), UNCHANGED Fixed, UNCHANGED events,
           call[c].phase \in {"inner", "found", "missing"},
           rows' \in [Keys -> Rows \cup {Absent}]
    PROVE  IInv'
<1>1. /\ call' \in [Calls -> Invocations]
      /\ call'[c].phase = "returned"
      /\ call'[c].tool = call[c].tool /\ call'[c].key = call[c].key
      /\ call'[c].tenant = call[c].tenant
      /\ call'[c].result = {}
      /\ \A d \in Calls : d # c => call'[d] = call[d]
  BY GotoFact DEF IInv, CallInv, Phases, Early
<1>2. TypeOK'
  BY <1>1 DEF IInv, TypeOK, Fixed
<1>3. CallInv'
  BY <1>1 DEF IInv, CallInv, At, Early, Late, Steady, Fixed
<1>4. TargetInv'
  <2> SUFFICES ASSUME orderly PROVE TargetInv'
    BY DEF TargetInv, Fixed
  <2>1. \A d \in Calls : d # c => call'[d].phase \in Over
    BY <1>1 DEF IInv, TargetInv, Over
  <2> QED
    BY <1>1, <2>1 DEF TargetInv, Over
<1> QED
  BY <1>2, <1>3, <1>4 DEF IInv

\* The tenant behind a foreign row or a foreign claim is a tenant.
LEMMA ForeignTenant ==
    ASSUME TypeOK, NEW c \in Calls, Foreign(c)
    PROVE  /\ rows[call[c].key].tenant \in Tenants
           /\ rows[call[c].key].tenant # call[c].tenant
BY DEF TypeOK, Rows, Foreign, Visible, _is_foreign, Invocations

LEMMA ClaimTenant ==
    ASSUME TypeOK, NEW c \in Calls, ~enforce_tenant(call[c].claim, call[c].tenant)
    PROVE  call[c].claim \in Tenants
BY DEF TypeOK, enforce_tenant, Invocations

-----------------------------------------------------------------------------
\* The operations, each by the kind of step it is.

LEMMA NoCallFact ==
    /\ NoCall \in Invocations
    /\ NoCall.phase = "idle"
    /\ NoCall.result = {}
<1>1. (CHOOSE k \in Keys : TRUE) \in Keys
  BY BoundaryAssumptions
<1> QED
  BY <1>1, BoundaryAssumptions DEF NoCall, Invocations, Phases, Tools

LEMMA RequestIInv ==
    ASSUME IInv, NEW c \in Calls, NEW t \in Tenants, NEW tool \in Tools, NEW k \in Keys,
           NEW claim \in Tenants \cup {""}, Request(c, t, tool, k, claim), UNCHANGED Fixed
    PROVE  IInv'
<1> DEFINE new == [NoCall EXCEPT !.phase = "called", !.tool = tool, !.key = k, !.tenant = t,
                                 !.claim = claim]
<1>1. call' = [call EXCEPT ![c] = new] /\ UNCHANGED <<rows, events, table, hardened, orderly>>
  BY DEF Request, Fixed
<1>2. NoCall \in Invocations /\ NoCall.result = {}
  BY NoCallFact
<1>3. new \in Invocations
  BY <1>2 DEF Invocations, Phases
<1>4. /\ new.phase = "called" /\ new.tenant = t /\ new.result = {}
      /\ new.tool = tool /\ tool \in Methods(table)
  BY <1>2 DEF Invocations, Request
<1> HIDE DEF new
<1>5. call' \in [Calls -> Invocations] /\ call'[c] = new
  BY <1>1, <1>3 DEF IInv, TypeOK
<1>6. \A d \in Calls : d # c => call'[d] = call[d]
  BY <1>1 DEF IInv, TypeOK
<1>7. TypeOK'
  BY <1>1, <1>5 DEF IInv, TypeOK
<1>8. CallInv'
  BY ZenonT(60), <1>1, <1>4, <1>5, <1>6 DEF IInv, CallInv, At, Early, Late, Steady
<1>9. TargetInv'
  <2> SUFFICES ASSUME orderly PROVE TargetInv'
    BY <1>1 DEF TargetInv
  <2>1. \A d \in Calls : call[d].phase \in Over
    BY DEF Request
  <2>2. \A d \in Calls : d # c => call'[d].phase \in Over
    BY <1>6, <2>1
  <2> QED
    BY <1>4, <1>5, <2>2 DEF TargetInv, Over
<1> QED
  BY <1>7, <1>8, <1>9 DEF IInv

LEMMA AuthorizeIInv ==
    ASSUME IInv, NEW c \in Calls, Authorize(c), UNCHANGED Fixed
    PROVE  IInv'
<1>1. CASE \E v \in tenant_values(c) :
             ~enforce_tenant(v, call[c].tenant) /\ Deny(c, v)
  <2>1. ~enforce_tenant(call[c].claim, call[c].tenant) /\ Deny(c, call[c].claim)
    BY <1>1 DEF tenant_values
  <2>2. call[c].phase \notin Over
    BY DEF Authorize, At, Over
  <2> QED
    BY <2>1, <2>2, ClaimTenant, DenyIInv DEF IInv
<1>2. CASE Proceed(c, "scoped")
  BY <1>2, ProceedIInv DEF Authorize, At, Early, Phases
<1> QED
  BY <1>1, <1>2 DEF Authorize

LEMMA StampIInv ==
    ASSUME IInv, NEW c \in Calls, Stamp(c), UNCHANGED Fixed, At(c, "scoped"),
           call[c].tool = "create"
    PROVE  IInv'
<1>1. CASE Proceed(c, "inner")
  BY <1>1, ProceedIInv DEF At, Early, Phases
<1>2. CASE /\ ~enforce_tenant(call[c].claim, call[c].tenant)
           /\ Deny(c, call[c].claim)
  BY <1>2, ClaimTenant, DenyIInv DEF IInv, At, Over
<1> QED
  BY <1>1, <1>2 DEF Stamp

LEMMA CheckTargetIInv ==
    ASSUME IInv, NEW c \in Calls, CheckTarget(c), UNCHANGED Fixed, At(c, "scoped"),
           call[c].tool \notin {"get", "list"}
    PROVE  IInv'
<1>1. CASE ~Foreign(c) /\ Proceed(c, "inner")
  BY <1>1, ProceedIInv DEF At, Early, Phases
<1>2. CASE Foreign(c) /\ Deny(c, rows[call[c].key].tenant)
  BY <1>2, ForeignTenant, DenyIInv DEF IInv, At, Over
<1> QED
  BY <1>1, <1>2 DEF CheckTarget

LEMMA StampAndCheckIInv ==
    ASSUME IInv, NEW c \in Calls, StampAndCheck(c), UNCHANGED Fixed, At(c, "scoped"),
           call[c].tool \notin {"get", "list"}
    PROVE  IInv'
<1>1. CASE CheckTarget(c)
  BY <1>1, CheckTargetIInv
<1>2. CASE /\ ~enforce_tenant(call[c].claim, call[c].tenant)
           /\ Deny(c, call[c].claim)
  BY <1>2, ClaimTenant, DenyIInv DEF IInv, At, Over
<1> QED
  BY <1>1, <1>2 DEF StampAndCheck

\* A wrapper's read answers with rows that are there and no other tenant's.
LEMMA ReturnIInv ==
    ASSUME IInv, NEW c \in Calls, NEW K \in SUBSET Keys, Return(c, K), UNCHANGED Fixed,
           At(c, "scoped"),
           \A k \in K : rows[k] # Absent /\ ~_is_foreign(rows[k].tenant, call[c].tenant)
    PROVE  IInv'
<1>1. Answer(c, K) /\ UNCHANGED events /\ rows' = rows
  BY DEF Return
<1>2. rows' \in [Keys -> Rows \cup {Absent}]
  BY <1>1 DEF IInv, TypeOK
<1> QED
  BY <1>1, <1>2, AnswerIInv DEF At, Over

LEMMA GetOwnIInv ==
    ASSUME IInv, NEW c \in Calls, GetOwn(c), UNCHANGED Fixed, At(c, "scoped")
    PROVE  IInv'
<1> DEFINE K == {k \in {call[c].key} : Visible(call[c].tenant, k)}
<1>1. CASE Foreign(c) /\ Deny(c, rows[call[c].key].tenant)
  BY <1>1, ForeignTenant, DenyIInv DEF IInv, At, Over
<1>2. CASE ~Foreign(c) /\ Return(c, K)
  <2>1. call[c].key \in Keys
    BY DEF IInv, TypeOK, Invocations
  <2>2. \A k \in K : rows[k] # Absent /\ ~_is_foreign(rows[k].tenant, call[c].tenant)
    BY <1>2 DEF Foreign, Visible
  <2> QED
    BY <1>2, <2>1, <2>2, ReturnIInv
<1> QED
  BY <1>1, <1>2 DEF GetOwn

LEMMA ListOwnIInv ==
    ASSUME IInv, NEW c \in Calls, ListOwn(c), UNCHANGED Fixed, At(c, "scoped")
    PROVE  IInv'
<1> DEFINE K == {k \in Keys : /\ Visible(call[c].tenant, k)
                              /\ ~_is_foreign(rows[k].tenant, call[c].tenant)}
<1>1. Return(c, K)
  BY DEF ListOwn
<1>2. \A k \in K : rows[k] # Absent /\ ~_is_foreign(rows[k].tenant, call[c].tenant)
  BY DEF Visible
<1>3. K \in SUBSET Keys
  OBVIOUS
<1> HIDE DEF K
<1> QED
  BY <1>1, <1>2, <1>3, ReturnIInv

LEMMA InsertIInv ==
    ASSUME IInv, NEW c \in Calls, Insert(c), UNCHANGED Fixed,
           call[c].phase \in {"inner", "missing"}
    PROVE  IInv'
<1>1. CASE Write(c, call[c].key)
  <2>1. call[c].tenant \in Tenants
    BY DEF IInv, CallInv, At
  <2>2. rows' \in [Keys -> Rows \cup {Absent}]
    BY <1>1, <2>1 DEF Write, IInv, TypeOK, Rows
  <2> QED
    BY <1>1, <2>2, WroteIInv DEF Write
<1>2. CASE Proceed(c, "raised")
  BY <1>2, ProceedIInv DEF Early, Phases
<1> QED
  BY <1>1, <1>2 DEF Insert

LEMMA SelectIInv ==
    ASSUME IInv, NEW c \in Calls, Select(c), UNCHANGED Fixed, At(c, "inner")
    PROVE  IInv'
<1>1. PICK p \in {"found", "missing"} : Proceed(c, p)
  BY DEF Select
<1>2. /\ orderly /\ call[c].tool \in {"save", "update"} => ~Foreign(c)
      /\ call[c].tool \notin {"get", "list"}
  BY DEF IInv, TargetInv, CallInv, At
<1> QED
  BY <1>1, <1>2, ProceedIInv DEF At, Early, Phases

LEMMA OverwriteIInv ==
    ASSUME IInv, NEW c \in Calls, Overwrite(c), UNCHANGED Fixed, At(c, "found")
    PROVE  IInv'
<1>1. CASE Write(c, call[c].key)
  <2>1. call[c].tenant \in Tenants
    BY DEF IInv, CallInv, At
  <2>2. rows' \in [Keys -> Rows \cup {Absent}]
    BY <1>1, <2>1 DEF Write, IInv, TypeOK, Rows
  <2> QED
    BY <1>1, <2>2, WroteIInv DEF Write, At
<1>2. CASE Proceed(c, "returned")
  BY <1>2, ProceedIInv DEF Early, Phases, At
<1> QED
  BY <1>1, <1>2 DEF Overwrite

LEMMA UpdateOwnedIInv ==
    ASSUME IInv, NEW c \in Calls, UpdateOwned(c), UNCHANGED Fixed, At(c, "inner")
    PROVE  IInv'
<1>1. CASE Proceed(c, "raised")
  BY <1>1, ProceedIInv DEF Early, Phases, At
<1>2. CASE ~Proceed(c, "raised")
  <2>1. /\ Visible(call[c].tenant, call[c].key)
        /\ rows' = [rows EXCEPT ![call[c].key].by = c]
        /\ Goto(c, "returned") /\ UNCHANGED events
    BY <1>2 DEF UpdateOwned
  <2>2. rows' \in [Keys -> Rows \cup {Absent}]
    BY <2>1 DEF Visible, IInv, TypeOK, Rows
  <2> QED
    BY <2>1, <2>2, WroteIInv DEF At
<1> QED
  BY <1>1, <1>2

LEMMA ClearIInv ==
    ASSUME IInv, NEW c \in Calls, SqlTransactionStore(c), UNCHANGED Fixed,
           call[c].tool = "clear"
    PROVE  IInv'
<1>1. /\ At(c, "inner")
      /\ rows' = [k \in Keys |->
                    IF /\ Visible(call[c].tenant, k) /\ _owned(call[c].tenant, k)
                    THEN Absent ELSE rows[k]]
      /\ Goto(c, "returned") /\ UNCHANGED events
  BY DEF SqlTransactionStore, Inner
<1>2. rows' \in [Keys -> Rows \cup {Absent}]
  BY <1>1 DEF IInv, TypeOK
<1> QED
  BY <1>1, <1>2, WroteIInv DEF At

\* The one write that answers: what it found before it wrote is not another
\* tenant's, where the role or the absence of overlap keeps it so.
LEMMA AdvanceIInv ==
    ASSUME IInv, NEW c \in Calls, SqlMessageStore(c), UNCHANGED Fixed,
           At(c, "inner"), call[c].tool = "update"
    PROVE  IInv'
<1> DEFINE k == call[c].key
<1>1. k \in Keys /\ call[c].phase \notin Over
  BY DEF IInv, TypeOK, Invocations, At, Over
<1>2. CASE /\ Visible(call[c].tenant, k) /\ Answer(c, {k})
           /\ rows' = [rows EXCEPT ![k].by = c] /\ UNCHANGED events
  <2>1. rows' \in [Keys -> Rows \cup {Absent}]
    BY <1>1, <1>2 DEF Visible, IInv, TypeOK, Rows
  <2>2. rows[k] # Absent
    BY <1>2 DEF Visible
  <2>3. Steady(c) => ~_is_foreign(rows[k].tenant, call[c].tenant)
    <3>1. CASE hardened
      BY <1>2, <3>1 DEF Visible, tenant_isolation, _is_foreign
    <3>2. CASE orderly
      <4>1. ~Foreign(c)
        BY <3>2 DEF IInv, TargetInv, At
      <4> QED
        BY <1>2, <4>1 DEF Foreign
    <3> QED
      BY <3>1, <3>2 DEF Steady
  <2>4. {k} \in SUBSET Keys
    BY <1>1
  <2>5. /\ \A q \in {k} : rows[q] # Absent
        /\ Steady(c) => \A q \in {k} : ~_is_foreign(rows[q].tenant, call[c].tenant)
    BY <2>2, <2>3
  <2> HIDE DEF k
  <2> QED
    BY <1>1, <1>2, <2>1, <2>4, <2>5, AnswerIInv
<1>3. CASE Answer(c, {}) /\ rows' = rows /\ UNCHANGED events
  <2>1. rows' \in [Keys -> Rows \cup {Absent}]
    BY <1>3 DEF IInv, TypeOK
  <2>2. {} \in SUBSET Keys /\ \A q \in {} : FALSE
    OBVIOUS
  <2> QED
    BY <1>1, <1>3, <2>1, <2>2, AnswerIInv
<1> QED
  BY <1>2, <1>3 DEF SqlMessageStore, Inner, At

LEMMA FilterResponseIInv ==
    ASSUME IInv, NEW c \in Calls, FilterResponse(c), UNCHANGED Fixed
    PROVE  IInv'
<1>1. At(c, "returned") /\ call[c].result \subseteq Tenants \cup {""}
  BY DEF FilterResponse, IInv, TypeOK, Invocations
<1>2. CASE Proceed(c, "done")
  BY <1>1, <1>2, ProceedIInv DEF Phases
<1>3. CASE \E t \in call[c].result :
             ~enforce_tenant(t, call[c].tenant) /\ Deny(c, t)
  <2>1. PICK t \in call[c].result : ~enforce_tenant(t, call[c].tenant) /\ Deny(c, t)
    BY <1>3
  <2>2. t \in Tenants
    BY <1>1, <2>1 DEF enforce_tenant
  <2> QED
    BY <1>1, <2>1, <2>2, DenyIInv DEF At, Over
<1> QED
  BY <1>2, <1>3 DEF FilterResponse

-----------------------------------------------------------------------------
LEMMA ScopedIInv ==
    ASSUME IInv, NEW c \in Calls, UNCHANGED Fixed,
           \/ ScopedTransactionStore(c) \/ ScopedFeedbackStore(c) \/ ScopedMessageStore(c)
           \/ ScopedDocumentStore(c) \/ ScopedApprovalRepo(c)
    PROVE  IInv'
<1>1. CASE ScopedTransactionStore(c)
  <2>1. CASE Scoped(c, "transactions", "clear") /\ Proceed(c, "inner")
    BY <2>1, ProceedIInv DEF Scoped, At, Early, Phases
  <2> QED
    BY <1>1, <2>1, StampIInv, GetOwnIInv, ListOwnIInv, CheckTargetIInv
    DEF ScopedTransactionStore, Scoped
<1>2. CASE ScopedFeedbackStore(c)
  BY <1>2, StampAndCheckIInv, GetOwnIInv, ListOwnIInv DEF ScopedFeedbackStore, Scoped
<1>3. CASE ScopedMessageStore(c)
  BY <1>3, StampAndCheckIInv, GetOwnIInv, ListOwnIInv, CheckTargetIInv, ReturnIInv
  DEF ScopedMessageStore, Scoped
<1>4. CASE ScopedDocumentStore(c)
  BY <1>4, StampAndCheckIInv, GetOwnIInv, ListOwnIInv DEF ScopedDocumentStore, Scoped
<1>5. CASE ScopedApprovalRepo(c)
  BY <1>5, StampIInv, GetOwnIInv, ListOwnIInv, CheckTargetIInv
  DEF ScopedApprovalRepo, Scoped
<1> QED
  BY <1>1, <1>2, <1>3, <1>4, <1>5

LEMMA SqlIInv ==
    ASSUME IInv, NEW c \in Calls, UNCHANGED Fixed,
           \/ SqlTransactionStore(c) \/ SqlFeedbackStore(c) \/ SqlMessageStore(c)
           \/ SqlDocumentStore(c) \/ SqlApprovalRepo(c)
    PROVE  IInv'
<1>1. CASE SqlTransactionStore(c)
  <2>1. CASE call[c].tool = "clear"
    BY <1>1, <2>1, ClearIInv
  <2> QED
    BY <1>1, <2>1, InsertIInv, UpdateOwnedIInv DEF SqlTransactionStore, Inner, At
<1>2. CASE SqlFeedbackStore(c)
  BY <1>2, SelectIInv, InsertIInv, OverwriteIInv DEF SqlFeedbackStore, At
<1>3. CASE SqlMessageStore(c)
  <2>1. CASE At(c, "inner") /\ call[c].tool = "update"
    BY <1>3, <2>1, AdvanceIInv
  <2> QED
    BY <1>3, <2>1, SelectIInv, InsertIInv, OverwriteIInv DEF SqlMessageStore, Inner, At
<1>4. CASE SqlDocumentStore(c)
  BY <1>4, InsertIInv DEF SqlDocumentStore, Inner, At
<1>5. CASE SqlApprovalRepo(c)
  BY <1>5, InsertIInv, UpdateOwnedIInv DEF SqlApprovalRepo, Inner, At
<1> QED
  BY <1>1, <1>2, <1>3, <1>4, <1>5

LEMMA InitIInv ==
    ASSUME Init
    PROVE  IInv
<1>1. TypeOK
  BY NoCallFact, BoundaryAssumptions DEF Init, TypeOK, Rows
<1>2. \A c \in Calls : call[c] = NoCall
  BY DEF Init
<1>3. CallInv
  BY <1>2, NoCallFact DEF CallInv, At, Early
<1>4. TargetInv
  BY <1>2, NoCallFact DEF TargetInv, Over
<1> QED
  BY <1>1, <1>3, <1>4 DEF IInv

LEMMA NextIInv ==
    ASSUME IInv, [Next]_vars
    PROVE  IInv'
<1>1. CASE Next
  <2>1. UNCHANGED Fixed
    BY <1>1 DEF Next, Fixed
  <2>2. PICK c \in Calls :
          \/ \E t \in Tenants, tool \in Tools, k \in Keys, claim \in Tenants \cup {""} :
                Request(c, t, tool, k, claim)
          \/ Step(c)
    BY <1>1 DEF Next
  <2>3. CASE \E t \in Tenants, tool \in Tools, k \in Keys, claim \in Tenants \cup {""} :
                Request(c, t, tool, k, claim)
    BY <2>1, <2>3, RequestIInv
  <2>4. CASE Step(c)
    BY <2>1, <2>4, AuthorizeIInv, ScopedIInv, SqlIInv, FilterResponseIInv
    DEF Step
  <2> QED
    BY <2>2, <2>3, <2>4
<1>2. CASE UNCHANGED vars
  BY <1>2 DEF vars, IInv, TypeOK, CallInv, TargetInv, At, Steady, Foreign, Visible,
              tenant_isolation
<1> QED
  BY <1>1, <1>2

\* The invariant holds throughout: what a call holds is what its place in the layers
\* allows, and what it found of its target is still so where nothing overlaps.
THEOREM BoundaryInvariant == Spec => []IInv
<1>1. Init => IInv
  BY InitIInv
<1>2. IInv /\ [Next]_vars => IInv'
  BY NextIInv
<1> QED
  BY <1>1, <1>2, PTL DEF Spec

\* No read hands a caller a row that another tenant owns, whichever role the deploy
\* connects as and however calls overlap.
THEOREM NoForeignRowCorrect == Spec => []NoForeignRow
<1>1. IInv => NoForeignRow
  BY DEF IInv, CallInv, NoForeignRow, At, Late, Steady, _is_foreign
<1> QED
  BY <1>1, BoundaryInvariant, PTL

-----------------------------------------------------------------------------
\* What call c does to the stamped rows that are there: it moves on, and it changes
\* only its own tenant's, which stay its own tenant's unless they go.
Keeps(c) ==
    \A k \in Keys : rows[k] # Absent /\ rows[k].tenant # "" /\ rows'[k] # rows[k] =>
        /\ call'[c] # call[c] /\ call[c].tenant = rows[k].tenant
        /\ rows'[k] # Absent => rows'[k].tenant = rows[k].tenant

LEMMA InsertKeeps ==
    ASSUME IInv, NEW c \in Calls, Insert(c)
    PROVE  Keeps(c)
BY DEF Insert, Write, Proceed, Keeps, IInv, TypeOK

LEMMA OverwriteKeeps ==
    ASSUME IInv, NEW c \in Calls, Overwrite(c), At(c, "found"), hardened \/ orderly,
           table \in {"call_records", "outbound_messages"}
    PROVE  Keeps(c)
<1>1. CASE Proceed(c, "returned")
  BY <1>1 DEF Proceed, Keeps
<1>2. CASE Visible(call[c].tenant, call[c].key) /\ Write(c, call[c].key)
  <2>1. call[c].key \in Keys
    BY DEF IInv, TypeOK, Invocations
  <2>2. rows[call[c].key].tenant \in {call[c].tenant, ""}
    <3>1. CASE hardened
      BY <1>2, <3>1 DEF Visible, tenant_isolation
    <3>2. CASE orderly
      <4>1. call[c].tool \in {"save", "update"}
        BY DEF IInv, CallInv, At, Methods
      <4>2. ~Foreign(c)
        BY <3>2, <4>1 DEF IInv, TargetInv, At
      <4> QED
        BY <1>2, <4>2 DEF Foreign, _is_foreign
    <3> QED
      BY <3>1, <3>2
  <2>3. call'[c].phase = "returned"
    BY <1>2, GotoFact DEF Write, IInv, Phases
  <2>4. call'[c] # call[c]
    BY <2>3 DEF At
  <2>5. \A k \in Keys : rows'[k] = IF k = call[c].key THEN [tenant |-> call[c].tenant, by |-> c]
                                   ELSE rows[k]
    BY <1>2 DEF Write, IInv, TypeOK
  <2>6. rows'[call[c].key].tenant = call[c].tenant
    BY <2>1, <2>5
  <2>7. \A k \in Keys : k # call[c].key => rows'[k] = rows[k]
    BY <2>5
  <2> SUFFICES ASSUME NEW k \in Keys, rows[k] # Absent, rows[k].tenant # "",
                      rows'[k] # rows[k]
               PROVE  call[c].tenant = rows[k].tenant /\ rows'[k].tenant = rows[k].tenant
    BY <2>4 DEF Keeps
  <2>8. k = call[c].key
    BY <2>7
  <2>9. rows[k].tenant = call[c].tenant
    BY <2>2, <2>8
  <2> QED
    BY <2>6, <2>8, <2>9
<1> QED
  BY <1>1, <1>2 DEF Overwrite

\* A row whose other columns change keeps the tenant it had.
LEMMA TouchKeeps ==
    ASSUME IInv, NEW c \in Calls, rows' = [rows EXCEPT ![call[c].key].by = c],
           rows[call[c].key] # Absent, rows[call[c].key].tenant \in {call[c].tenant, ""},
           call'[c] # call[c]
    PROVE  Keeps(c)
BY DEF Keeps, IInv, TypeOK, Rows

LEMMA UpdateOwnedKeeps ==
    ASSUME IInv, NEW c \in Calls, UpdateOwned(c), At(c, "inner")
    PROVE  Keeps(c)
<1> DEFINE k == call[c].key
<1>1. CASE Proceed(c, "raised")
  BY <1>1 DEF Proceed, Keeps
<1>2. CASE /\ Visible(call[c].tenant, k) /\ _owned(call[c].tenant, k)
           /\ rows' = [rows EXCEPT ![k].by = c] /\ Goto(c, "returned")
  <2>1. k \in Keys
    BY DEF IInv, TypeOK, Invocations
  <2>2. rows[k] # Absent /\ rows[k].tenant \in {call[c].tenant, ""}
    BY <1>2 DEF Visible, _owned
  <2>3. call'[c].phase = "returned"
    BY <1>2, GotoFact DEF IInv, Phases
  <2>4. call'[c] # call[c]
    BY <2>3 DEF At
  <2> QED
    BY <1>2, <2>2, <2>4, TouchKeeps
<1> QED
  BY <1>1, <1>2 DEF UpdateOwned

LEMMA SqlTransactionStoreKeeps ==
    ASSUME IInv, NEW c \in Calls, SqlTransactionStore(c)
    PROVE  Keeps(c)
<1>1. CASE At(c, "inner") /\ UpdateOwned(c)
  BY <1>1, UpdateOwnedKeeps
<1>2. CASE Insert(c)
  BY <1>2, InsertKeeps
<1>3. CASE /\ At(c, "inner") /\ Goto(c, "returned")
           /\ rows' = [k \in Keys |->
                         IF /\ Visible(call[c].tenant, k) /\ _owned(call[c].tenant, k)
                         THEN Absent ELSE rows[k]]
  <2>1. call'[c].phase = "returned"
    BY <1>3, GotoFact DEF IInv, Phases
  <2>2. call'[c] # call[c]
    BY <1>3, <2>1 DEF At
  <2> QED
    BY <1>3, <2>2 DEF Keeps, _owned
<1> QED
  BY <1>1, <1>2, <1>3 DEF SqlTransactionStore, Inner

LEMMA SqlMessageStoreKeeps ==
    ASSUME IInv, NEW c \in Calls, SqlMessageStore(c), hardened \/ orderly
    PROVE  Keeps(c)
<1> DEFINE k == call[c].key
<1>1. CASE Inner(c, "outbound_messages", "save") /\ Select(c)
  BY <1>1 DEF Select, Proceed, Keeps
<1>2. CASE Insert(c)
  BY <1>2, InsertKeeps
<1>3. CASE At(c, "found") /\ table = "outbound_messages" /\ Overwrite(c)
  BY <1>3, OverwriteKeeps
<1>4. CASE rows' = rows
  BY <1>4 DEF Keeps
<1>5. CASE /\ Inner(c, "outbound_messages", "update") /\ Visible(call[c].tenant, k)
           /\ rows' = [rows EXCEPT ![k].by = c] /\ Answer(c, {k})
  <2>1. k \in Keys
    BY DEF IInv, TypeOK, Invocations
  <2>2. rows[k] # Absent
    BY <1>5 DEF Visible
  <2>3. rows[k].tenant \in {call[c].tenant, ""}
    <3>1. CASE hardened
      BY <1>5, <3>1 DEF Visible, tenant_isolation
    <3>2. CASE orderly
      <4>1. ~Foreign(c)
        BY <1>5, <3>2 DEF IInv, TargetInv, At, Inner
      <4> QED
        BY <1>5, <4>1 DEF Foreign, _is_foreign
    <3> QED
      BY <3>1, <3>2
  <2>4. call'[c].phase = "returned"
    BY <1>5, <2>1, <2>2, AnswerFact DEF IInv
  <2>5. call'[c] # call[c]
    BY <1>5, <2>4 DEF At, Inner
  <2> QED
    BY <1>5, <2>2, <2>3, <2>5, TouchKeeps
<1> QED
  BY <1>1, <1>2, <1>3, <1>4, <1>5 DEF SqlMessageStore

LEMMA StepKeeps ==
    ASSUME IInv, NEW c \in Calls, Step(c), hardened \/ orderly
    PROVE  Keeps(c)
<1>1. CASE rows' = rows
  BY <1>1 DEF Keeps
<1>2. CASE SqlTransactionStore(c)
  BY <1>2, SqlTransactionStoreKeeps
<1>3. CASE SqlFeedbackStore(c)
  <2>1. CASE Select(c)
    BY <2>1, <1>1 DEF Select, Proceed
  <2> QED
    BY <1>3, <2>1, InsertKeeps, OverwriteKeeps DEF SqlFeedbackStore
<1>4. CASE SqlMessageStore(c)
  BY <1>4, SqlMessageStoreKeeps
<1>5. CASE SqlDocumentStore(c)
  BY <1>5, InsertKeeps DEF SqlDocumentStore
<1>6. CASE SqlApprovalRepo(c)
  BY <1>6, InsertKeeps, UpdateOwnedKeeps DEF SqlApprovalRepo, Inner
<1>7. CASE Authorize(c) \/ FilterResponse(c)
  BY <1>1, <1>7 DEF Authorize, FilterResponse, Deny, Proceed
<1>8. CASE \/ ScopedTransactionStore(c) \/ ScopedFeedbackStore(c) \/ ScopedMessageStore(c)
           \/ ScopedDocumentStore(c) \/ ScopedApprovalRepo(c)
  BY <1>1, <1>8 DEF ScopedTransactionStore, ScopedFeedbackStore, ScopedMessageStore,
     ScopedDocumentStore, ScopedApprovalRepo, Stamp, CheckTarget, StampAndCheck, GetOwn,
     ListOwn, Return, Deny, Proceed
<1> QED
  BY <1>2, <1>3, <1>4, <1>5, <1>6, <1>7, <1>8 DEF Step

\* No call of another tenant changes a row, takes it over or deletes it: under a role
\* that row-level security binds, however calls overlap between the wrapper's look at
\* the target and the write; under one that
\* bypasses it, of calls that do not overlap.
THEOREM RowKeepsItsTenantCorrect == Spec => RowKeepsItsTenant
<1> DEFINE Kept == hardened \/ orderly =>
                     \A k \in Keys :
                        rows[k] # Absent /\ rows[k].tenant # "" /\ rows'[k] # rows[k] =>
                        /\ \E c \in Calls : call'[c] # call[c] /\ call[c].tenant = rows[k].tenant
                        /\ rows'[k] # Absent => rows'[k].tenant = rows[k].tenant
<1>1. ASSUME IInv, [Next]_vars
      PROVE  [Kept]_vars
  <2>1. CASE Next
    <3>1. CASE rows' = rows
      BY <3>1
    <3>2. CASE \E c \in Calls : Step(c)
      <4> SUFFICES ASSUME hardened \/ orderly PROVE Kept
        OBVIOUS
      <4>1. PICK c \in Calls : Keeps(c)
        BY <1>1, <3>2, StepKeeps
      <4> QED
        BY <4>1 DEF Keeps
    <3> QED
      BY <2>1, <3>1, <3>2 DEF Next, Request
  <2> QED
    BY <1>1, <2>1
<1> QED
  BY <1>1, BoundaryInvariant, PTL DEF Spec, RowKeepsItsTenant
=============================================================================
