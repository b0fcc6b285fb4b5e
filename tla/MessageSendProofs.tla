-------------------------- MODULE MessageSendProofs --------------------------
(***************************************************************************)
(* For any messages, any number of handlers and both regimes.              *)
(*                                                                         *)
(* A drafted message's row tells what humans said of it: REJECTED that one *)
(* of them rejected it, the sending states that one approved.  A provider  *)
(* id, in a row that says SENT, in a handler's copy about to say so or     *)
(* under an idempotency key, names a send the provider accepted with that  *)
(* very text.  In the orderly regime there is one verdict, one handler     *)
(* works on a message at a time and what it read at its start still holds. *)
(***************************************************************************)
EXTENDS MessageSend, TLAPS

\* The text a direct message is always stored and sent with.
DirectText(m) == _dlp_scrub(Content[m])

Sending == {"claim", "provider", "complete", "save_failed", "save_sent"}
Ended == {"done", "crashed"}
Started(h) == pc[h] # "idle"

\* The phases in which a handler's copy of the row is going to be written.
Writing == Sending \cup {"save_draft", "save_edit", "save_rejected"}

\* A provider id shows what was accepted under it; the message was accepted at all.
SidBacked(m, r) ==
    r.sid \in Handlers => [msg |-> m, text |-> r.text, by |-> r.sid] \in sent
SidSent(m, r) == r.sid \in Handlers => \E x \in sent : x.msg = m

\* What a started handler is: where it can be, on which message, by whose decision.
KindInv ==
    \A h \in Handlers : Started(h) =>
        /\ kind[h] = "direct" =>
             /\ msg[h] \in Direct
             /\ pc[h] \in Sending \cup Ended \cup {"save_draft"}
        /\ kind[h] = "draft" =>
             /\ msg[h] \in Drafted
             /\ pc[h] \in Ended \cup {"save_draft"}
        /\ kind[h] = "approve" =>
             /\ msg[h] \in Drafted /\ "approved" \in decision[msg[h]]
             /\ pc[h] \in Sending \cup Ended \cup {"read", "save_edit"}
        /\ kind[h] = "reject" =>
             /\ msg[h] \in Drafted /\ "rejected" \in decision[msg[h]]
             /\ pc[h] \in Ended \cup {"read_reject", "save_rejected"}
        /\ kind[h] = "retry" =>
             /\ msg[h] \in Drafted => "approved" \in decision[msg[h]]
             /\ pc[h] \in Sending \cup Ended \cup {"read"}
        /\ kind[h] \notin {"direct", "draft"} => row[msg[h]] # NoRow

\* What a handler is about to write.
SnapInv ==
    \A h \in Handlers :
        /\ pc[h] \in Writing =>
             /\ snap[h].text # "secret"
             /\ SidSent(msg[h], snap[h])
             /\ msg[h] \in Direct => snap[h].text = DirectText(msg[h])
        /\ pc[h] = "save_draft" =>
             /\ snap[h].sid = NoSid
             /\ snap[h].status = IF kind[h] = "draft" THEN "PENDING_APPROVAL" ELSE "DRAFTED"
        /\ pc[h] = "save_edit" =>
             \/ snap[h].status = "PENDING_APPROVAL" /\ snap[h].sid = NoSid
             \/ snap[h].status = "FAILED"
        /\ pc[h] = "save_rejected" => snap[h].status = "REJECTED"
        /\ pc[h] = "complete" => Accepted(h) \in sent
        /\ pc[h] = "save_sent" => snap[h].sid \in Handlers /\ SidBacked(msg[h], snap[h])

\* What a stored row says.
RowOK(m, r) ==
    /\ r.text # "secret"
    /\ SidSent(m, r)
    /\ r.status \in {"DRAFTED", "PENDING_APPROVAL"} => r.sid = NoSid
    /\ r.status \in {"SENT", "DELIVERED"} => SidBacked(m, r) /\ \E x \in sent : x.msg = m
    /\ m \in Direct =>
         /\ r.text = DirectText(m)
         /\ r.status \notin {"PENDING_APPROVAL", "REJECTED"}
    /\ m \in Drafted =>
         /\ r.status # "DRAFTED"
         /\ r.status = "REJECTED" => "rejected" \in decision[m]
         /\ r.status \in {"SENT", "DELIVERED", "FAILED"} => "approved" \in decision[m]

RowInv == \A m \in Messages : row[m] # NoRow => RowOK(m, row[m])

SentInv ==
    /\ \A x \in sent :
         /\ x.text # "secret"
         /\ x.msg \in Drafted => "approved" \in decision[x.msg]
         /\ x.msg \in Direct => x.text = DirectText(x.msg)
    /\ \A k \in Keys : claims[k] \in Handlers =>
         [msg |-> k[2], text |-> k[3], by |-> claims[k]] \in sent

CallbackInv ==
    \A c \in callbacks : row[c.msg] # NoRow /\ \E x \in sent : x.msg = c.msg

\* A message is drafted by one handler, and only a drafted one is decided.
GateInv ==
    /\ \A g, h \in Handlers :
         /\ kind[h] = "draft" /\ pc[h] = "save_draft"
         => /\ row[msg[h]] = NoRow
            /\ InFlight(g) /\ msg[g] = msg[h] => g = h
    /\ \A m \in Drafted : decision[m] # {} => row[m] # NoRow

Deciding(h) == Started(h) /\ kind[h] \in {"approve", "reject"}

\* One decision, in one handler's hands until it is carried out.
OneVerdict ==
    /\ \A g, h \in Handlers : Deciding(g) /\ Deciding(h) /\ msg[g] = msg[h] => g = h
    /\ \A m \in Drafted : ~({"approved", "rejected"} \subseteq decision[m])
    /\ \A h \in Handlers :
         \/ pc[h] \in {"read_reject", "save_rejected", "save_edit"}
         \/ kind[h] = "approve" /\ pc[h] = "read"
         => row[msg[h]].status = "PENDING_APPROVAL"

\* One handler at a time, and what it read at its start still holds.
OneHandler ==
    /\ \A g, h \in Handlers : InFlight(g) /\ InFlight(h) /\ msg[g] = msg[h] => g = h
    /\ \A c \in callbacks :
         /\ row[c.msg].sid \in Handlers
         /\ \A h \in Handlers : InFlight(h) => msg[h] # c.msg
    /\ \A h \in Handlers : InFlight(h) /\ row[msg[h]] # NoRow =>
         /\ row[msg[h]].status \notin {"SENT", "DELIVERED"}
         /\ kind[h] = "retry" => row[msg[h]].status = "FAILED"
    /\ \A m \in Messages : row[m] # NoRow =>
         /\ row[m].status \in {"SENT", "DELIVERED"} => row[m].sid \in Handlers
         /\ row[m].status = "DRAFTED" =>
              \E h \in Handlers : msg[h] = m /\ pc[h] \in Sending
         /\ m \in Drafted /\ decision[m] # {} /\ row[m].status = "PENDING_APPROVAL" =>
              \E h \in Handlers : msg[h] = m /\ InFlight(h)

OrderlyInv == orderly => OneVerdict /\ OneHandler

IInv == TypeOK /\ KindInv /\ SnapInv /\ RowInv /\ SentInv /\ CallbackInv /\ GateInv
        /\ OrderlyInv


LEMMA MoveTo ==
    ASSUME TypeOK, NEW h \in Handlers, NEW p \in Phases, Goto(h, p)
    PROVE  /\ pc' \in [Handlers -> Phases]
           /\ pc'[h] = p
           /\ \A g \in Handlers : g # h => pc'[g] = pc[g]
BY DEF TypeOK, Goto

\* The phases in which a handler writes its row.
Saving == {"save_draft", "save_edit", "save_failed", "save_sent", "save_rejected"}

\* What a handler's write of its row must satisfy, whichever handler it is.
LEMMA SaveIInv ==
    ASSUME IInv, NEW h \in Handlers, NEW r \in Rows, NEW p \in {"claim", "done"},
           pc[h] \in Saving,
           save_message(h, r), Goto(h, p),
           UNCHANGED <<orderly, claims, world, kind, msg, snap>>,
           RowOK(msg[h], r),
           p = "claim" => /\ pc[h] \in {"save_draft", "save_edit"}
                          /\ kind[h] \in {"direct", "approve"}
                          /\ r.status \notin {"SENT", "DELIVERED"},
           p = "done" => /\ r.status # "DRAFTED"
                         /\ r.status = "PENDING_APPROVAL" => kind[h] = "draft",
           r.status \in {"SENT", "DELIVERED"} => r.sid \in Handlers
    PROVE  IInv'
<1> DEFINE m == msg[h]
<1>1. m \in Messages /\ r # NoRow /\ row' \in [Messages -> Rows \cup {NoRow}]
  BY NoRowAssumption DEF IInv, TypeOK, save_message
<1>2. row'[m] = r /\ \A n \in Messages : n # m => row'[n] = row[n]
  BY DEF IInv, TypeOK, save_message
<1>3. pc' \in [Handlers -> Phases] /\ pc'[h] = p /\ \A g \in Handlers : g # h => pc'[g] = pc[g]
  BY MoveTo DEF IInv, Phases
<1>4. Started(h) /\ InFlight(h)
  BY DEF Started, InFlight, Saving
<1>5. TypeOK'
  BY <1>1, <1>3 DEF IInv, TypeOK, world
<1>6. KindInv'
  BY <1>1, <1>2, <1>3, <1>4 DEF IInv, KindInv, Started, Sending, Ended, world, TypeOK
<1>7. SnapInv'
  BY <1>3 DEF IInv, SnapInv, Saving, Writing, Sending, SidBacked, SidSent, Accepted, world
<1>8. RowInv'
  <2> SUFFICES ASSUME NEW n \in Messages, row'[n] # NoRow PROVE RowOK(n, row[n])'
    BY DEF RowInv
  <2>1. RowOK(n, row'[n])
    BY <1>2 DEF IInv, RowInv
  <2> QED
    BY <2>1 DEF RowOK, SidBacked, SidSent, world
<1>9. SentInv'
  BY DEF IInv, SentInv, world
<1>11. CallbackInv'
  <2> SUFFICES ASSUME NEW c \in callbacks
               PROVE  row'[c.msg] # NoRow /\ \E x \in sent : x.msg = c.msg
    BY DEF CallbackInv, world
  <2>1. c.msg \in Messages
    BY DEF IInv, TypeOK
  <2> QED
    BY <1>1, <1>2, <2>1 DEF IInv, CallbackInv
<1>12. GateInv'
  <2>4. ASSUME NEW f \in Handlers, NEW g \in Handlers, kind[g] = "draft",
               pc'[g] = "save_draft"
        PROVE  row'[msg[g]] = NoRow /\ (InFlight(f)' /\ msg[f] = msg[g] => f = g)
    <3>1. g # h /\ pc'[g] = pc[g]
      BY <1>3, <2>4
    <3>2. msg[g] # m
      BY <1>4, <2>4, <3>1 DEF IInv, GateInv
    <3> QED
      BY <1>2, <1>3, <1>4, <2>4, <3>1, <3>2 DEF IInv, GateInv, TypeOK, InFlight
  <2>5. \A n \in Drafted : decision[n] # {} => row'[n] # NoRow
    BY <1>1, <1>2 DEF IInv, GateInv, Messages
  <2> QED
    BY <2>4, <2>5 DEF GateInv, world
<1>13. OrderlyInv'
  <2> SUFFICES ASSUME orderly PROVE OneVerdict' /\ OneHandler'
    BY DEF OrderlyInv
  <2> USE DEF IInv, OrderlyInv
  <2>1. \A g \in Handlers : InFlight(g)' => InFlight(g)
    BY <1>3, <1>4 DEF InFlight
  <2>2. \A f, g \in Handlers : InFlight(f)' /\ InFlight(g)' /\ msg[f] = msg[g] => f = g
    BY <2>1 DEF OneHandler
  <2>3. \A c \in callbacks :
          row'[c.msg].sid \in Handlers /\ \A g \in Handlers : InFlight(g)' => msg[g] # c.msg
    BY <1>2, <1>4, <2>1 DEF OneHandler, TypeOK
  <2>4. ASSUME NEW g \in Handlers, InFlight(g)', row'[msg[g]] # NoRow
        PROVE  /\ row'[msg[g]].status \notin {"SENT", "DELIVERED"}
               /\ kind[g] = "retry" => row'[msg[g]].status = "FAILED"
    <3>1. CASE g = h
      BY <1>2, <1>3, <2>4, <3>1 DEF InFlight
    <3>2. CASE g # h
      BY <1>2, <1>4, <2>1, <2>4, <3>2 DEF OneHandler, TypeOK
    <3> QED
      BY <3>1, <3>2
  <2>5. ASSUME NEW n \in Messages, row'[n] # NoRow
        PROVE  /\ row'[n].status \in {"SENT", "DELIVERED"} => row'[n].sid \in Handlers
               /\ row'[n].status = "DRAFTED" =>
                    \E g \in Handlers : msg[g] = n /\ pc'[g] \in Sending
               /\ n \in Drafted /\ decision[n] # {} /\ row'[n].status = "PENDING_APPROVAL" =>
                    \E g \in Handlers : msg[g] = n /\ InFlight(g)'
    <3>1. CASE n # m
      <4>1. \A g \in Handlers : msg[g] = n => pc'[g] = pc[g]
        BY <1>3, <3>1
      <4> QED
        BY <1>2, <2>5, <3>1, <4>1 DEF OneHandler, InFlight
    <3>2. CASE n = m /\ p = "claim"
      BY <1>2, <1>3, <3>2 DEF InFlight, Sending
    <3>3. CASE n = m /\ p = "done"
      BY <1>2, <1>4, <3>3 DEF KindInv, GateInv, Ended, Saving
    <3> QED
      BY <3>1, <3>2, <3>3
  <2>6. OneHandler'
    BY <2>2, <2>3, <2>4, <2>5 DEF OneHandler, world
  <2>7. ASSUME NEW g \in Handlers,
               \/ pc'[g] \in {"read_reject", "save_rejected", "save_edit"}
               \/ kind[g] = "approve" /\ pc'[g] = "read"
        PROVE  row'[msg[g]].status = "PENDING_APPROVAL"
    <3>1. g # h /\ pc'[g] = pc[g] /\ InFlight(g)
      BY <1>3, <2>7 DEF InFlight
    <3>2. msg[g] # m
      BY <1>4, <3>1 DEF OneHandler
    <3> QED
      BY <1>2, <2>7, <3>1, <3>2 DEF OneVerdict, TypeOK
  <2>8. \A g \in Handlers : Deciding(g)' => Deciding(g)
    BY <1>3, <1>4 DEF Deciding, Started
  <2>9. OneVerdict'
    BY <2>7, <2>8 DEF OneVerdict, world
  <2> QED
    BY <2>6, <2>9
<1> QED
  BY <1>5, <1>6, <1>7, <1>8, <1>9, <1>11, <1>12, <1>13 DEF IInv

LEMMA SaveDraftIInv ==
    ASSUME IInv, NEW h \in Handlers, SaveDraft(h), UNCHANGED orderly
    PROVE  IInv'
<1> USE DEF SaveDraft, IInv
<1>1. /\ snap[h] \in Rows /\ Started(h) /\ msg[h] \in Messages
      /\ kind[h] \in {"draft", "direct"}
  BY DEF TypeOK, Started, KindInv, Sending, Ended, Kinds
<1>2. RowOK(msg[h], snap[h])
  BY <1>1, MessageAssumptions DEF SnapInv, RowOK, Writing, KindInv, Messages
<1>3. snap[h].status = IF kind[h] = "draft" THEN "PENDING_APPROVAL" ELSE "DRAFTED"
  BY DEF SnapInv
<1>4. CASE kind[h] = "draft"
  <2>1. Goto(h, "done")
    BY <1>4
  <2> QED
    BY <1>1, <1>2, <1>3, <1>4, <2>1, SaveIInv DEF Saving
<1>5. CASE kind[h] = "direct"
  <2>1. Goto(h, "claim")
    BY <1>5
  <2> QED
    BY <1>1, <1>2, <1>3, <1>5, <2>1, SaveIInv DEF Saving
<1> QED
  BY <1>1, <1>4, <1>5

LEMMA SaveEditIInv ==
    ASSUME IInv, NEW h \in Handlers, SaveEdit(h), UNCHANGED orderly
    PROVE  IInv'
<1> USE DEF SaveEdit, IInv
<1>1. /\ snap[h] \in Rows /\ Started(h) /\ msg[h] \in Drafted /\ kind[h] = "approve"
  BY DEF TypeOK, Started, KindInv, Sending, Ended, Kinds
<1>2. /\ snap[h].status \in {"PENDING_APPROVAL", "FAILED"}
      /\ snap[h].status = "PENDING_APPROVAL" => snap[h].sid = NoSid
      /\ "approved" \in decision[msg[h]]
  BY <1>1 DEF SnapInv, KindInv
<1>3. RowOK(msg[h], snap[h])
  BY <1>1, <1>2, MessageAssumptions DEF SnapInv, RowOK, Writing
<1> QED
  BY <1>1, <1>2, <1>3, SaveIInv DEF Saving

LEMMA SaveFailedIInv ==
    ASSUME IInv, NEW h \in Handlers, SaveFailed(h), UNCHANGED orderly
    PROVE  IInv'
<1> DEFINE r == [snap[h] EXCEPT !.status = "FAILED"]
<1> USE DEF SaveFailed, IInv
<1>1. /\ r \in Rows /\ r.text = snap[h].text /\ r.sid = snap[h].sid /\ r.status = "FAILED"
      /\ Started(h) /\ msg[h] \in Messages
  BY DEF TypeOK, Rows, MessageStatus, Started
<1>2. msg[h] \in Drafted => "approved" \in decision[msg[h]]
  BY <1>1, MessageAssumptions DEF KindInv, Sending, Ended, TypeOK, Kinds
<1>3. RowOK(msg[h], r)
  BY <1>1, <1>2 DEF SnapInv, RowOK, SidBacked, SidSent, Writing, Sending
<1> HIDE DEF r
<1> QED
  BY <1>1, <1>3, SaveIInv DEF Saving, r

LEMMA SaveSentIInv ==
    ASSUME IInv, NEW h \in Handlers, SaveSent(h), UNCHANGED orderly
    PROVE  IInv'
<1> DEFINE r == [snap[h] EXCEPT !.status = "SENT"]
<1> USE DEF SaveSent, IInv
<1>1. /\ r \in Rows /\ r.text = snap[h].text /\ r.sid = snap[h].sid /\ r.status = "SENT"
      /\ Started(h) /\ msg[h] \in Messages
  BY DEF TypeOK, Rows, MessageStatus, Started
<1>2. msg[h] \in Drafted => "approved" \in decision[msg[h]]
  BY <1>1, MessageAssumptions DEF KindInv, Sending, Ended, TypeOK, Kinds
<1>3. r.sid \in Handlers
  BY <1>1 DEF SnapInv
<1>4. \E x \in sent : x.msg = msg[h]
  BY <1>1, <1>3 DEF SnapInv, SidBacked, SidSent, Writing, Sending
<1>5. RowOK(msg[h], r)
  BY <1>1, <1>2, <1>3, <1>4 DEF SnapInv, RowOK, SidBacked, SidSent, Writing, Sending
<1> HIDE DEF r
<1> QED
  BY <1>1, <1>3, <1>5, SaveIInv DEF Saving, r

LEMMA SaveRejectedIInv ==
    ASSUME IInv, NEW h \in Handlers, SaveRejected(h), UNCHANGED orderly
    PROVE  IInv'
<1> USE DEF SaveRejected, IInv
<1>1. /\ snap[h] \in Rows /\ Started(h) /\ msg[h] \in Drafted
      /\ "rejected" \in decision[msg[h]]
  BY DEF TypeOK, Started, KindInv, Sending, Ended, Kinds
<1>2. snap[h].status = "REJECTED"
  BY DEF SnapInv
<1>3. RowOK(msg[h], snap[h])
  BY <1>1, <1>2, MessageAssumptions DEF SnapInv, RowOK, Writing
<1> QED
  BY <1>1, <1>2, <1>3, SaveIInv DEF Saving

LEMMA ReadForSendIInv ==
    ASSUME IInv, NEW h \in Handlers, ReadForSend(h), UNCHANGED orderly
    PROVE  IInv'
<1> DEFINE r == row[msg[h]]
<1>1. /\ Started(h) /\ InFlight(h) /\ pc[h] = "read"
      /\ msg[h] \in Messages /\ kind[h] \in {"approve", "retry"}
      /\ r \in Rows /\ r # NoRow /\ RowOK(msg[h], r)
  BY DEF ReadForSend, IInv, TypeOK, KindInv, Started, InFlight, Kinds, Sending, Ended, RowInv
<1>2. \/ Goto(h, "done") /\ snap' = snap /\ r.status \notin {"PENDING_APPROVAL", "FAILED"}
      \/ \E s \in Rows :
           /\ snap' = [snap EXCEPT ![h] = s]
           /\ s.text # "secret" /\ s.status = r.status /\ s.sid = r.sid
           /\ \/ s = r /\ Goto(h, "claim")
              \/ kind[h] = "approve" /\ Goto(h, "save_edit")
  <2>1. CASE r.status \notin {"PENDING_APPROVAL", "FAILED"}
    BY <2>1 DEF ReadForSend
  <2>2. CASE r.status \in {"PENDING_APPROVAL", "FAILED"}
    <3>1. PICK t \in {_dlp_scrub(body) : body \in BodyFor(h)} :
            /\ snap' = [snap EXCEPT ![h] = [r EXCEPT !.text = t]]
            /\ Goto(h, IF t # r.text THEN "save_edit" ELSE "claim")
      BY <2>2 DEF ReadForSend
    <3> DEFINE s == [r EXCEPT !.text = t]
    <3>2. BodyFor(h) \subseteq Texts /\ (kind[h] = "retry" => BodyFor(h) = {r.text})
      BY <1>1 DEF BodyFor, IInv, TypeOK, Rows
    <3>3. t \in Texts /\ t # "secret" /\ (kind[h] = "retry" => t = r.text)
      BY <1>1, <3>2 DEF Texts, _dlp_scrub, RowOK
    <3>4. /\ s \in Rows /\ s.text = t /\ s.status = r.status /\ s.sid = r.sid
          /\ t = r.text => s = r
      BY <1>1, <3>3 DEF Rows
    <3> HIDE DEF s
    <3> QED
      BY <1>1, <3>1, <3>3, <3>4 DEF s
  <2> QED
    BY <2>1, <2>2
<1>3. UNCHANGED <<row, claims, sent, fate, callbacks, decision, kind, msg>>
  BY DEF ReadForSend, world
<1>4. \E p \in {"done", "claim", "save_edit"} : Goto(h, p) /\ (p = "save_edit" => kind[h] = "approve")
  BY <1>2
<1>5. PICK p \in {"done", "claim", "save_edit"} :
        /\ pc' \in [Handlers -> Phases] /\ pc'[h] = p
        /\ \A g \in Handlers : g # h => pc'[g] = pc[g]
        /\ p = "save_edit" => kind[h] = "approve"
  BY <1>4, MoveTo DEF IInv, Phases
<1>6. TypeOK'
  BY <1>2, <1>3, <1>5 DEF IInv, TypeOK
<1>7. KindInv'
  BY <1>1, <1>3, <1>5 DEF IInv, KindInv, Started, Sending, Ended
<1>8. SnapInv'
  <2>1. \A g \in Handlers : g # h => snap'[g] = snap[g]
    BY <1>2 DEF IInv, TypeOK
  <2>2. CASE p = "done"
    BY <1>3, <1>5, <2>1, <2>2 DEF IInv, SnapInv, Writing, Sending, SidBacked, SidSent, Accepted
  <2>3. CASE p # "done"
    <3>1. /\ snap'[h].text # "secret" /\ snap'[h].status = r.status /\ snap'[h].sid = r.sid
          /\ \/ p = "claim" /\ snap'[h] = r
             \/ kind[h] = "approve" /\ p = "save_edit"
      <4>1. ~Goto(h, "done")
        BY <1>5, <2>3 DEF IInv, TypeOK, Goto
      <4> QED
        BY <1>2, <1>5, <4>1, MoveTo DEF IInv, TypeOK, Phases
    <3>2. kind[h] = "approve" => msg[h] \in Drafted /\ msg[h] \notin Direct
      BY <1>1, MessageAssumptions DEF IInv, KindInv
    <3>3. /\ r.status \in {"PENDING_APPROVAL", "FAILED"} /\ SidSent(msg[h], snap'[h])
          /\ r.status = "PENDING_APPROVAL" => r.sid = NoSid
      <4>1. ~Goto(h, "done")
        BY <1>5, <2>3 DEF IInv, TypeOK, Goto
      <4> QED
        BY <1>1, <3>1, <4>1 DEF ReadForSend, RowOK, SidSent
    <3>4. \A g \in Handlers : g # h => Accepted(g)' = Accepted(g)
      BY <1>3, <2>1 DEF Accepted
    <3> QED
      BY <1>1, <1>3, <1>5, <2>1, <2>3, <3>1, <3>2, <3>3, <3>4
         DEF IInv, SnapInv, Writing, Sending, SidBacked, SidSent, RowOK
  <2> QED
    BY <2>2, <2>3
<1>9. RowInv' /\ SentInv' /\ CallbackInv'
  BY <1>3 DEF IInv, RowInv, RowOK, SidBacked, SidSent, SentInv, CallbackInv
<1>10. GateInv'
  BY <1>1, <1>3, <1>5 DEF IInv, GateInv, Started, InFlight
<1>11. OrderlyInv'
  <2>1. r.status = "PENDING_APPROVAL" => p # "done"
    BY <1>2, <1>5, MoveTo DEF IInv, TypeOK, Phases
  <2> QED
    BY <1>1, <1>3, <1>5, <2>1 DEF ReadForSend, IInv, OrderlyInv, OneVerdict, OneHandler, Deciding, Started, InFlight, Sending
<1> QED
  BY <1>6, <1>7, <1>8, <1>9, <1>10, <1>11 DEF IInv

\* A send's key names its message and its text.
LEMMA SendKeyFact ==
    ASSUME TypeOK, NEW h \in Handlers
    PROVE  SendKey(h) \in Keys /\ SendKey(h)[2] = msg[h] /\ SendKey(h)[3] = snap[h].text
BY DEF TypeOK, SendKey, Keys, Rows, Messages

LEMMA ClaimSendIInv ==
    ASSUME IInv, NEW h \in Handlers, ClaimSend(h), UNCHANGED orderly
    PROVE  IInv'
<1> DEFINE k == SendKey(h)
<1>1. /\ Started(h) /\ InFlight(h) /\ pc[h] = "claim" /\ msg[h] \in Messages
      /\ kind[h] \in {"direct", "approve", "retry"} /\ snap[h] \in Rows
  BY DEF ClaimSend, IInv, TypeOK, KindInv, Started, InFlight, Kinds, Sending, Ended
<1>2. k \in Keys /\ k[2] = msg[h] /\ k[3] = snap[h].text
  BY SendKeyFact DEF IInv
<1> HIDE DEF k
<1>3. UNCHANGED <<row, sent, fate, callbacks, decision, kind, msg>>
  BY DEF ClaimSend, world
<1>4. PICK p \in {"provider", "save_failed", "save_sent"} :
        /\ Goto(h, p)
        /\ \/ p = "provider" /\ claims' = [claims EXCEPT ![k] = "pending"] /\ snap' = snap
           \/ p = "save_failed" /\ claims' = claims /\ snap' = snap
           \/ /\ p = "save_sent" /\ claims' = claims /\ claims[k] \in Handlers
              /\ snap' = [snap EXCEPT ![h].sid = claims[k]]
  BY DEF ClaimSend, k
<1>5. /\ pc' \in [Handlers -> Phases] /\ pc'[h] = p
      /\ \A g \in Handlers : g # h => pc'[g] = pc[g]
  BY <1>4, MoveTo DEF IInv, Phases
<1>6. /\ snap' \in [Handlers -> Rows]
      /\ \A g \in Handlers : g # h => snap'[g] = snap[g]
      /\ snap'[h].text = snap[h].text /\ snap'[h].status = snap[h].status
      /\ p = "save_sent" => snap'[h].sid = claims[k] /\ claims[k] \in Handlers
      /\ p # "save_sent" => snap'[h] = snap[h]
  BY <1>1, <1>4 DEF IInv, TypeOK, Rows
<1>7. TypeOK'
  BY <1>2, <1>3, <1>4, <1>5, <1>6 DEF IInv, TypeOK
<1>8. KindInv'
  BY <1>1, <1>3, <1>5 DEF IInv, KindInv, Started, Sending, Ended
<1>9. SnapInv'
  <2>1. p = "save_sent" => [msg |-> msg[h], text |-> snap'[h].text, by |-> snap'[h].sid] \in sent
    BY <1>2, <1>6 DEF IInv, SentInv
  <2>2. \A g \in Handlers : g # h => Accepted(g)' = Accepted(g)
    BY <1>3, <1>6 DEF Accepted
  <2>3. /\ snap'[h].text # "secret"
        /\ msg[h] \in Direct => snap'[h].text = DirectText(msg[h])
        /\ SidSent(msg[h], snap'[h])
        /\ p = "save_sent" => snap'[h].sid \in Handlers /\ SidBacked(msg[h], snap'[h])
    <3>1. CASE p = "save_sent"
      <4>1. \E x \in sent : x.msg = msg[h]
        BY <2>1, <3>1
      <4>2. snap[h].text # "secret" /\ (msg[h] \in Direct => snap[h].text = DirectText(msg[h]))
        BY <1>1 DEF IInv, SnapInv, Writing, Sending
      <4> QED
        BY <1>6, <2>1, <3>1, <4>1, <4>2 DEF SidBacked, SidSent
    <3>2. CASE p # "save_sent"
      BY <1>1, <1>6, <3>2 DEF IInv, SnapInv, Writing, Sending
    <3> QED
      BY <3>1, <3>2
  <2> QED
    BY <1>3, <1>5, <1>6, <2>2, <2>3 DEF IInv, SnapInv, Writing, Sending, SidBacked, SidSent
<1>10. RowInv' /\ CallbackInv'
  BY <1>3 DEF IInv, RowInv, RowOK, SidBacked, SidSent, CallbackInv
<1>11. SentInv'
  BY <1>2, <1>3, <1>4, MessageAssumptions DEF IInv, SentInv, TypeOK
<1>12. GateInv'
  BY <1>1, <1>3, <1>5 DEF IInv, GateInv, Started, InFlight
<1>13. OrderlyInv'
  BY <1>1, <1>3, <1>5 DEF IInv, OrderlyInv, OneVerdict, OneHandler, Deciding, Started, InFlight, Sending
<1> QED
  BY <1>7, <1>8, <1>9, <1>10, <1>11, <1>12, <1>13 DEF IInv

LEMMA ProviderAcceptsIInv ==
    ASSUME IInv, NEW h \in Handlers, ProviderAccepts(h), UNCHANGED orderly
    PROVE  IInv'
<1> USE MessageAssumptions, NoRowAssumption DEF IInv, Messages, ProviderAccepts, Goto, Accepted
<1>1. TypeOK'
  BY DEF TypeOK, Rows, Texts, Kinds, Phases, MessageStatus, Keys
<1>2. KindInv'
  BY DEF KindInv, Started, Sending, Ended, TypeOK, GateInv
<1>3. SnapInv'
  BY DEF SnapInv, Writing, Sending, SidBacked, SidSent, TypeOK, Accepted, DirectText, KindInv, RowInv,
     RowOK, Started, Ended, GateInv
<1>4. RowInv'
  BY DEF RowInv, RowOK, SidBacked, SidSent, TypeOK, KindInv, Started
<1>5. SentInv'
  <2>1. /\ snap[h].text # "secret"
        /\ msg[h] \in Drafted => "approved" \in decision[msg[h]]
        /\ msg[h] \in Direct => snap[h].text = DirectText(msg[h])
    BY DEF SnapInv, Writing, KindInv, Started, Sending, Ended, TypeOK, Kinds
  <2> QED
    BY <2>1 DEF SentInv
<1>6. CallbackInv'
  BY DEF CallbackInv, TypeOK, RowInv, RowOK, SidBacked, SidSent
<1>7. GateInv'
  BY DEF GateInv, TypeOK, KindInv, Started, InFlight, Sending, Ended
<1>8. OrderlyInv'
  BY DEF OrderlyInv, OneVerdict, OneHandler, Deciding, TypeOK, KindInv, InFlight, Started, Free, Sending, Ended, RowInv, RowOK,
     GateInv
<1> QED
  BY <1>1, <1>2, <1>3, <1>4, <1>5, <1>6, <1>7, <1>8

LEMMA ProviderRaisesIInv ==
    ASSUME IInv, NEW h \in Handlers, ProviderRaises(h), UNCHANGED orderly
    PROVE  IInv'
<1> USE MessageAssumptions, NoRowAssumption DEF IInv, Messages, ProviderRaises, Goto, Accepted
<1>1. TypeOK'
  BY DEF TypeOK, Rows, Texts, Kinds, Phases, MessageStatus, Keys
<1>2. KindInv'
  BY DEF KindInv, Started, Sending, Ended, TypeOK, GateInv
<1>3. SnapInv'
  BY DEF SnapInv, Writing, Sending, SidBacked, SidSent, TypeOK, Accepted, DirectText, KindInv, RowInv,
     RowOK, Started, Ended, GateInv
<1>4. RowInv'
  BY DEF RowInv, RowOK, SidBacked, SidSent, TypeOK, KindInv, Started
<1>5. SentInv'
  <2>1. /\ snap[h].text # "secret"
        /\ msg[h] \in Drafted => "approved" \in decision[msg[h]]
        /\ msg[h] \in Direct => snap[h].text = DirectText(msg[h])
    BY DEF SnapInv, Writing, KindInv, Started, Sending, Ended, TypeOK, Kinds
  <2> QED
    BY <2>1 DEF SentInv
<1>6. CallbackInv'
  BY DEF CallbackInv, TypeOK, RowInv, RowOK, SidBacked, SidSent
<1>7. GateInv'
  BY DEF GateInv, TypeOK, KindInv, Started, InFlight, Sending, Ended
<1>8. OrderlyInv'
  BY DEF OrderlyInv, OneVerdict, OneHandler, Deciding, TypeOK, KindInv, InFlight, Started, Free, Sending, Ended, RowInv, RowOK,
     GateInv
<1> QED
  BY <1>1, <1>2, <1>3, <1>4, <1>5, <1>6, <1>7, <1>8

LEMMA CompleteSendIInv ==
    ASSUME IInv, NEW h \in Handlers, CompleteSend(h), UNCHANGED orderly
    PROVE  IInv'
<1> USE MessageAssumptions, NoRowAssumption DEF IInv, Messages, CompleteSend, Goto, world, SendKey
<1>1. TypeOK'
  BY SMTT(30) DEF TypeOK, Rows, Texts, Kinds, Phases, MessageStatus, Keys
<1>2. KindInv'
  BY DEF KindInv, Started, Sending, Ended, TypeOK, GateInv
<1>3. SnapInv'
  BY DEF SnapInv, Writing, Sending, SidBacked, SidSent, TypeOK, Accepted, DirectText, KindInv, RowInv,
     RowOK, Started, Ended, GateInv
<1>4. RowInv'
  BY DEF RowInv, RowOK, SidBacked, SidSent, TypeOK, KindInv, Started
<1>5. SentInv'
  <2>1. [msg |-> SendKey(h)[2], text |-> SendKey(h)[3], by |-> h] \in sent
    BY SendKeyFact DEF SnapInv, Accepted
  <2>2. \A k \in Keys : claims'[k] = IF k = SendKey(h) THEN h ELSE claims[k]
    BY SendKeyFact DEF TypeOK
  <2> HIDE DEF SendKey
  <2> QED
    BY <2>1, <2>2 DEF SentInv
<1>6. CallbackInv'
  BY DEF CallbackInv, TypeOK, RowInv, RowOK, SidBacked, SidSent
<1>7. GateInv'
  BY DEF GateInv, TypeOK, KindInv, Started, InFlight, Sending, Ended
<1>8. OrderlyInv'
  BY DEF OrderlyInv, OneVerdict, OneHandler, Deciding, TypeOK, KindInv, InFlight, Started, Free, Sending, Ended, RowInv, RowOK,
     GateInv
<1> QED
  BY <1>1, <1>2, <1>3, <1>4, <1>5, <1>6, <1>7, <1>8

LEMMA ReadForRejectIInv ==
    ASSUME IInv, NEW h \in Handlers, ReadForReject(h), UNCHANGED orderly
    PROVE  IInv'
<1> DEFINE r == row[msg[h]]
           s == [r EXCEPT !.status = "REJECTED"]
<1>1. /\ Started(h) /\ InFlight(h) /\ pc[h] = "read_reject"
      /\ msg[h] \in Drafted /\ msg[h] \in Messages /\ kind[h] = "reject"
      /\ r \in Rows /\ r # NoRow /\ RowOK(msg[h], r)
      /\ orderly => r.status = "PENDING_APPROVAL"
  BY DEF ReadForReject, IInv, TypeOK, KindInv, Started, InFlight, Kinds, Sending, Ended,
         RowInv, OrderlyInv, OneVerdict, Messages
<1>2. s \in Rows /\ s.status = "REJECTED" /\ s.text = r.text /\ s.sid = r.sid
  BY <1>1 DEF Rows, MessageStatus
<1>3. PICK p \in {"done", "save_rejected"} :
        /\ Goto(h, p)
        /\ p = "done" => snap' = snap /\ r.status # "PENDING_APPROVAL"
        /\ p = "save_rejected" => snap' = [snap EXCEPT ![h] = s]
  BY DEF ReadForReject
<1>4. UNCHANGED <<row, claims, sent, fate, callbacks, decision, kind, msg>>
  BY DEF ReadForReject, world
<1>5. /\ pc' \in [Handlers -> Phases] /\ pc'[h] = p
      /\ \A g \in Handlers : g # h => pc'[g] = pc[g]
  BY <1>3, MoveTo DEF IInv, Phases
<1> HIDE DEF s
<1>a. /\ snap' \in [Handlers -> Rows] /\ \A g \in Handlers : g # h => snap'[g] = snap[g]
      /\ p = "save_rejected" => snap'[h] = s
  BY <1>2, <1>3 DEF IInv, TypeOK
<1>6. TypeOK'
  BY <1>4, <1>5, <1>a DEF IInv, TypeOK
<1>7. KindInv'
  BY <1>1, <1>4, <1>5 DEF IInv, KindInv, Started, Sending, Ended
<1>8. SnapInv'
  <2>1. \A g \in Handlers : g # h => Accepted(g)' = Accepted(g)
    BY <1>4, <1>a DEF Accepted
  <2>2. p = "save_rejected" =>
          /\ snap'[h].text # "secret" /\ SidSent(msg[h], snap'[h])
          /\ snap'[h].status = "REJECTED" /\ msg[h] \notin Direct
    BY <1>1, <1>2, <1>a, MessageAssumptions DEF RowOK, SidSent
  <2> QED
    BY <1>4, <1>5, <1>a, <2>1, <2>2 DEF IInv, SnapInv, Writing, Sending, SidBacked, SidSent
<1>9. RowInv' /\ SentInv' /\ CallbackInv'
  BY <1>4 DEF IInv, RowInv, RowOK, SidBacked, SidSent, SentInv, CallbackInv
<1>10. GateInv'
  BY <1>1, <1>4, <1>5 DEF IInv, GateInv, Started, InFlight
<1>11. OrderlyInv'
  <2>1. orderly => p = "save_rejected"
    BY <1>1, <1>3
  <2> QED
    BY <1>1, <1>4, <1>5, <2>1 DEF IInv, OrderlyInv, OneVerdict, OneHandler, Deciding, Started,
       InFlight, Sending
<1> QED
  BY <1>6, <1>7, <1>8, <1>9, <1>10, <1>11 DEF IInv

LEMMA SettleIInv ==
    ASSUME IInv, NEW h \in Handlers, Settle(h), UNCHANGED orderly
    PROVE  IInv'
<1> USE MessageAssumptions, NoRowAssumption DEF IInv, Messages, Settle
<1>1. TypeOK'
  BY DEF TypeOK, Rows, Texts, Kinds, Phases, MessageStatus, Keys
<1>2. KindInv'
  BY DEF KindInv, Started, Sending, Ended, TypeOK, GateInv
<1>3. SnapInv'
  BY DEF SnapInv, Writing, Sending, SidBacked, SidSent, TypeOK, Accepted, DirectText, KindInv, RowInv,
     RowOK, Started, Ended, GateInv
<1>4. RowInv'
  BY DEF RowInv, RowOK, SidBacked, SidSent, TypeOK, KindInv, Started
<1>5. SentInv'
  BY DEF SentInv, TypeOK, KindInv, Started, SnapInv, Writing, Sending
<1>6. CallbackInv'
  BY DEF CallbackInv, TypeOK, RowInv, RowOK, SidBacked, SidSent
<1>7. GateInv'
  BY DEF GateInv, TypeOK, KindInv, Started, InFlight, Sending, Ended
<1>8. OrderlyInv'
  BY DEF OrderlyInv, OneVerdict, OneHandler, Deciding, TypeOK, KindInv, InFlight, Started, Free, Sending, Ended, RowInv, RowOK,
     GateInv
<1> QED
  BY <1>1, <1>2, <1>3, <1>4, <1>5, <1>6, <1>7, <1>8

LEMMA CrashIInv ==
    ASSUME IInv, NEW h \in Handlers, Crash(h), UNCHANGED orderly
    PROVE  IInv'
<1> USE MessageAssumptions, NoRowAssumption DEF IInv, Messages, Crash, Goto, world, InFlight
<1>1. TypeOK'
  BY DEF TypeOK, Rows, Texts, Kinds, Phases, MessageStatus, Keys
<1>2. KindInv'
  BY DEF KindInv, Started, Sending, Ended, TypeOK, GateInv
<1>3. SnapInv'
  BY DEF SnapInv, Writing, Sending, SidBacked, SidSent, TypeOK, Accepted, DirectText, KindInv, RowInv,
     RowOK, Started, Ended, GateInv
<1>4. RowInv'
  BY DEF RowInv, RowOK, SidBacked, SidSent, TypeOK, KindInv, Started
<1>5. SentInv'
  BY DEF SentInv, TypeOK, KindInv, Started, SnapInv, Writing, Sending
<1>6. CallbackInv'
  BY DEF CallbackInv, TypeOK, RowInv, RowOK, SidBacked, SidSent
<1>7. GateInv'
  BY DEF GateInv, TypeOK, KindInv, Started, InFlight, Sending, Ended
<1>8. OrderlyInv'
  BY DEF OrderlyInv, OneVerdict, OneHandler, Deciding, TypeOK, KindInv, InFlight, Started, Free, Sending, Ended, RowInv, RowOK,
     GateInv
<1> QED
  BY <1>1, <1>2, <1>3, <1>4, <1>5, <1>6, <1>7, <1>8

LEMMA SendIInv ==
    ASSUME IInv, NEW h \in Handlers, NEW m \in Messages, Send(h, m), UNCHANGED orderly
    PROVE  IInv'
<1> USE MessageAssumptions, NoRowAssumption DEF IInv, Messages, Send, Begin, BlankRow, world, _dlp_scrub
<1>1. TypeOK'
  BY DEF TypeOK, Rows, Texts, Kinds, Phases, MessageStatus, Keys
<1>2. KindInv'
  BY DEF KindInv, Started, Sending, Ended, TypeOK, GateInv
<1>3. SnapInv'
  BY DEF SnapInv, Writing, Sending, SidBacked, SidSent, TypeOK, Accepted, DirectText, KindInv, RowInv,
     RowOK, Started, Ended, GateInv
<1>4. RowInv'
  BY DEF RowInv, RowOK, SidBacked, SidSent, TypeOK, KindInv, Started
<1>5. SentInv'
  BY DEF SentInv, TypeOK, KindInv, Started, SnapInv, Writing, Sending
<1>6. CallbackInv'
  BY DEF CallbackInv, TypeOK, RowInv, RowOK, SidBacked, SidSent
<1>7. GateInv'
  BY DEF GateInv, TypeOK, KindInv, Started, InFlight, Sending, Ended
<1>8. OrderlyInv'
  BY SMTT(30) DEF OrderlyInv, OneVerdict, OneHandler, Deciding, TypeOK, KindInv, InFlight, Started, Free, Sending, Ended, RowInv, RowOK,
     GateInv
<1> QED
  BY <1>1, <1>2, <1>3, <1>4, <1>5, <1>6, <1>7, <1>8

LEMMA DraftForApprovalIInv ==
    ASSUME IInv, NEW h \in Handlers, NEW m \in Messages, DraftForApproval(h, m), UNCHANGED orderly
    PROVE  IInv'
<1> USE MessageAssumptions, NoRowAssumption DEF IInv, Messages, DraftForApproval, Begin, world, _dlp_scrub
<1>1. TypeOK'
  BY DEF TypeOK, Rows, Texts, Kinds, Phases, MessageStatus, Keys
<1>2. KindInv'
  BY DEF KindInv, Started, Sending, Ended, TypeOK, GateInv
<1>3. SnapInv'
  BY DEF SnapInv, Writing, Sending, SidBacked, SidSent, TypeOK, Accepted, DirectText, KindInv, RowInv,
     RowOK, Started, Ended, GateInv
<1>4. RowInv'
  BY DEF RowInv, RowOK, SidBacked, SidSent, TypeOK, KindInv, Started
<1>5. SentInv'
  BY DEF SentInv, TypeOK, KindInv, Started, SnapInv, Writing, Sending
<1>6. CallbackInv'
  BY DEF CallbackInv, TypeOK, RowInv, RowOK, SidBacked, SidSent
<1>7. GateInv'
  BY DEF GateInv, TypeOK, KindInv, Started, InFlight, Sending, Ended
<1>8. OrderlyInv'
  BY SMTT(30) DEF OrderlyInv, OneVerdict, OneHandler, Deciding, TypeOK, KindInv, InFlight, Started, Free, Sending, Ended, RowInv, RowOK,
     GateInv
<1> QED
  BY <1>1, <1>2, <1>3, <1>4, <1>5, <1>6, <1>7, <1>8

LEMMA ApproveIInv ==
    ASSUME IInv, NEW h \in Handlers, NEW m \in Messages, Approve(h, m), UNCHANGED orderly
    PROVE  IInv'
<1> USE MessageAssumptions, NoRowAssumption DEF IInv, Messages, Approve, Begin
<1>1. TypeOK'
  BY SMTT(30) DEF TypeOK, Rows, Texts, Kinds, Phases, MessageStatus, Keys
<1>2. KindInv'
  BY DEF KindInv, Started, Sending, Ended, TypeOK, GateInv
<1>3. SnapInv'
  BY DEF SnapInv, Writing, Sending, SidBacked, SidSent, TypeOK, Accepted, DirectText, KindInv, RowInv,
     RowOK, Started, Ended, GateInv
<1>4. RowInv'
  BY DEF RowInv, RowOK, SidBacked, SidSent, TypeOK, KindInv, Started
<1>5. SentInv'
  BY DEF SentInv, TypeOK, KindInv, Started, SnapInv, Writing, Sending
<1>6. CallbackInv'
  BY DEF CallbackInv, TypeOK, RowInv, RowOK, SidBacked, SidSent
<1>7. GateInv'
  BY DEF GateInv, TypeOK, InFlight
<1>8. OrderlyInv'
  <2> SUFFICES ASSUME orderly PROVE OneVerdict' /\ OneHandler'
    BY DEF OrderlyInv
  <2>1. /\ m \in Drafted /\ decision[m] = {} /\ row[m] \in Rows /\ pc[h] = "idle"
        /\ row[m].status = "PENDING_APPROVAL" /\ UNCHANGED <<row, callbacks>>
    BY DEF RowInv, RowOK, TypeOK, Rows, MessageStatus
  <2>2. /\ \A g \in Handlers : InFlight(g) => msg[g] # m
        /\ \A c \in callbacks : c.msg # m
        /\ \A g \in Handlers : Deciding(g) => msg[g] # m
    BY <2>1 DEF Free, KindInv, Deciding
  <2>3. /\ kind'[h] = "approve" /\ msg'[h] = m /\ pc'[h] = "read"
        /\ \A g \in Handlers : g # h => kind'[g] = kind[g] /\ msg'[g] = msg[g] /\ pc'[g] = pc[g]
    BY DEF TypeOK
  <2>4. decision'[m] = {"approved"} /\ \A n \in Drafted : n # m => decision'[n] = decision[n]
    BY <2>1 DEF TypeOK
  <2> HIDE DEF Approve, Begin
  <2>5. OneVerdict'
    BY <2>1, <2>2, <2>3, <2>4 DEF OrderlyInv, OneVerdict, Deciding, Started
  <2>6. OneHandler'
    BY <2>1, <2>2, <2>3, <2>4 DEF OrderlyInv, OneHandler, InFlight, Sending
  <2> QED
    BY <2>5, <2>6
<1> QED
  BY <1>1, <1>2, <1>3, <1>4, <1>5, <1>6, <1>7, <1>8

LEMMA RejectIInv ==
    ASSUME IInv, NEW h \in Handlers, NEW m \in Messages, Reject(h, m), UNCHANGED orderly
    PROVE  IInv'
<1> USE MessageAssumptions, NoRowAssumption DEF IInv, Messages, Reject, Begin
<1>1. TypeOK'
  BY DEF TypeOK, Rows, Texts, Kinds, Phases, MessageStatus, Keys
<1>2. KindInv'
  BY DEF KindInv, Started, Sending, Ended, TypeOK, GateInv
<1>3. SnapInv'
  BY DEF SnapInv, Writing, Sending, SidBacked, SidSent, TypeOK, Accepted, DirectText, KindInv, RowInv,
     RowOK, Started, Ended, GateInv
<1>4. RowInv'
  BY DEF RowInv, RowOK, SidBacked, SidSent, TypeOK, KindInv, Started
<1>5. SentInv'
  BY DEF SentInv, TypeOK, KindInv, Started, SnapInv, Writing, Sending
<1>6. CallbackInv'
  BY DEF CallbackInv, TypeOK, RowInv, RowOK, SidBacked, SidSent
<1>7. GateInv'
  BY DEF GateInv, TypeOK, InFlight
<1>8. OrderlyInv'
  <2> SUFFICES ASSUME orderly PROVE OneVerdict' /\ OneHandler'
    BY DEF OrderlyInv
  <2>1. /\ m \in Drafted /\ decision[m] = {} /\ row[m] \in Rows /\ pc[h] = "idle"
        /\ row[m].status = "PENDING_APPROVAL" /\ UNCHANGED <<row, callbacks>>
    BY DEF RowInv, RowOK, TypeOK, Rows, MessageStatus
  <2>2. /\ \A g \in Handlers : InFlight(g) => msg[g] # m
        /\ \A c \in callbacks : c.msg # m
        /\ \A g \in Handlers : Deciding(g) => msg[g] # m
    BY <2>1 DEF Free, KindInv, Deciding
  <2>3. /\ kind'[h] = "reject" /\ msg'[h] = m /\ pc'[h] = "read_reject"
        /\ \A g \in Handlers : g # h => kind'[g] = kind[g] /\ msg'[g] = msg[g] /\ pc'[g] = pc[g]
    BY DEF TypeOK
  <2>4. decision'[m] = {"rejected"} /\ \A n \in Drafted : n # m => decision'[n] = decision[n]
    BY <2>1 DEF TypeOK
  <2> HIDE DEF Reject, Begin
  <2>5. OneVerdict'
    BY <2>1, <2>2, <2>3, <2>4 DEF OrderlyInv, OneVerdict, Deciding, Started
  <2>6. OneHandler'
    BY <2>1, <2>2, <2>3, <2>4 DEF OrderlyInv, OneHandler, InFlight, Sending
  <2> QED
    BY <2>5, <2>6
<1> QED
  BY <1>1, <1>2, <1>3, <1>4, <1>5, <1>6, <1>7, <1>8

LEMMA RetryIInv ==
    ASSUME IInv, NEW h \in Handlers, NEW m \in Messages, Retry(h, m), UNCHANGED orderly
    PROVE  IInv'
<1> USE MessageAssumptions, NoRowAssumption DEF IInv, Messages, Retry, Begin, world
<1>1. TypeOK'
  BY DEF TypeOK, Rows, Texts, Kinds, Phases, MessageStatus, Keys
<1>2. KindInv'
  <2>1. m \in Drafted => "approved" \in decision[m]
    BY DEF RowInv, RowOK
  <2> QED
    BY <2>1 DEF KindInv, TypeOK, Started, Sending, Ended
<1>3. SnapInv'
  BY DEF SnapInv, Writing, Sending, SidBacked, SidSent, TypeOK, Accepted, DirectText, KindInv, RowInv,
     RowOK, Started, Ended, GateInv
<1>4. RowInv'
  BY DEF RowInv, RowOK, SidBacked, SidSent, TypeOK, KindInv, Started
<1>5. SentInv'
  BY DEF SentInv, TypeOK, KindInv, Started, SnapInv, Writing, Sending
<1>6. CallbackInv'
  BY DEF CallbackInv, TypeOK, RowInv, RowOK, SidBacked, SidSent
<1>7. GateInv'
  BY DEF GateInv, TypeOK, KindInv, Started, InFlight, Sending, Ended
<1>8. OrderlyInv'
  BY DEF OrderlyInv, OneVerdict, OneHandler, Deciding, TypeOK, KindInv, InFlight, Started, Free, Sending, Ended, RowInv, RowOK,
     GateInv
<1> QED
  BY <1>1, <1>2, <1>3, <1>4, <1>5, <1>6, <1>7, <1>8

LEMMA CallbackLookupIInv ==
    ASSUME IInv, NEW m \in Messages, CallbackLookup(m), UNCHANGED orderly
    PROVE  IInv'
<1> USE MessageAssumptions, NoRowAssumption DEF IInv, Messages, CallbackLookup, CallbackStatus
<1>1. TypeOK'
  BY DEF TypeOK, Rows, Texts, Kinds, Phases, MessageStatus, Keys
<1>2. KindInv'
  BY DEF KindInv, Started, Sending, Ended, TypeOK, GateInv
<1>3. SnapInv'
  BY DEF SnapInv, Writing, Sending, SidBacked, SidSent, TypeOK, Accepted, DirectText, KindInv, RowInv,
     RowOK, Started, Ended, GateInv
<1>4. RowInv'
  BY DEF RowInv, RowOK, SidBacked, SidSent, TypeOK, KindInv, Started
<1>5. SentInv'
  BY DEF SentInv, TypeOK, KindInv, Started, SnapInv, Writing, Sending
<1>6. CallbackInv'
  <2>1. \E x \in sent : x.msg = m
    BY DEF RowInv, RowOK, SidSent
  <2> QED
    BY <2>1 DEF CallbackInv
<1>7. GateInv'
  BY DEF GateInv, TypeOK, KindInv, Started, InFlight, Sending, Ended
<1>8. OrderlyInv'
  BY DEF OrderlyInv, OneVerdict, OneHandler, Deciding, TypeOK, KindInv, InFlight, Started, Free, Sending, Ended, RowInv, RowOK,
     GateInv
<1> QED
  BY <1>1, <1>2, <1>3, <1>4, <1>5, <1>6, <1>7, <1>8

LEMMA CallbackAdvanceIInv ==
    ASSUME IInv, NEW c \in callbacks, CallbackAdvance(c), UNCHANGED orderly
    PROVE  IInv'
<1> DEFINE m == c.msg
<1>1. /\ m \in Messages /\ c.status \in {"SENT", "DELIVERED", "FAILED"}
      /\ row[m] \in Rows /\ row[m] # NoRow /\ RowOK(m, row[m])
      /\ \E x \in sent : x.msg = m
      /\ m \in Drafted => "approved" \in decision[m]
  BY DEF IInv, TypeOK, CallbackInv, RowInv, SentInv
<1>2. /\ UNCHANGED <<claims, sent, fate, decision, kind, msg, pc, snap>>
      /\ callbacks' \subseteq callbacks
  BY DEF CallbackAdvance
<1>3. \/ row' = row
      \/ /\ row' = [row EXCEPT ![m].status = c.status]
         /\ row[m].status \in {"DRAFTED", "PENDING_APPROVAL", "SENT"}
  BY <1>1 DEF CallbackAdvance, STATUS_RANK, MessageStatus, Rows
<1>4. CASE row' = row
  BY <1>2, <1>4 DEF IInv, TypeOK, KindInv, SnapInv, RowInv, RowOK, SidBacked, SidSent, Accepted,
                    SentInv, CallbackInv, GateInv, OrderlyInv, OneVerdict, OneHandler, Deciding, Started, InFlight
<1>5. CASE /\ row' = [row EXCEPT ![m].status = c.status]
           /\ row[m].status \in {"DRAFTED", "PENDING_APPROVAL", "SENT"}
  <2> DEFINE r == [row[m] EXCEPT !.status = c.status]
  <2>1. r \in Rows /\ r.status = c.status /\ r.text = row[m].text /\ r.sid = row[m].sid
    BY <1>1 DEF Rows, MessageStatus
  <2>2. r # NoRow /\ row' = [row EXCEPT ![m] = r]
    BY <2>1, <1>5, <1>1, NoRowAssumption DEF IInv, TypeOK
  <2> HIDE DEF r
  <2>3. /\ row' \in [Messages -> Rows \cup {NoRow}] /\ row'[m] = r
        /\ \A n \in Messages : n # m => row'[n] = row[n]
    BY <1>1, <2>1, <2>2 DEF IInv, TypeOK
  <2>4. SidBacked(m, r)
    BY <1>1, <1>5, <2>1, MessageAssumptions DEF RowOK, SidBacked
  <2>5. RowOK(m, r)
    BY <1>1, <2>1, <2>4 DEF RowOK, SidSent
  <2>6. TypeOK'
    BY <1>2, <2>3 DEF IInv, TypeOK
  <2>7. KindInv'
    BY <1>2, <2>2, <2>3 DEF IInv, KindInv, Started, TypeOK
  <2>8. SnapInv' /\ SentInv'
    BY <1>2 DEF IInv, SnapInv, SidBacked, SidSent, Accepted, SentInv
  <2>9. RowInv'
    BY <1>2, <2>3, <2>5 DEF IInv, RowInv, RowOK, SidBacked, SidSent
  <2>10. CallbackInv'
    BY <1>1, <1>2, <2>1, <2>2, <2>3 DEF IInv, CallbackInv, TypeOK
  <2>12. GateInv'
    BY <1>1, <1>2, <2>1, <2>2, <2>3 DEF IInv, GateInv, Started, InFlight, TypeOK, Messages
  <2>13. OrderlyInv'
    BY <1>1, <1>2, <2>1, <2>2, <2>3 DEF IInv, OrderlyInv, OneVerdict, OneHandler, Deciding, Started, InFlight, TypeOK
  <2> QED
    BY <2>6, <2>7, <2>8, <2>9, <2>10, <2>12, <2>13 DEF IInv
<1> QED
  BY <1>3, <1>4, <1>5

LEMMA InitIInv == Init => IInv
<1> SUFFICES ASSUME Init PROVE IInv
  OBVIOUS
<1>1. TypeOK
  <2>1. (CHOOSE m \in Messages : TRUE) \in Messages
    BY MessageAssumptions
  <2>2. BlankRow \in Rows
    BY DEF BlankRow, Rows, MessageStatus, Texts
  <2> QED
    BY <2>1, <2>2, MessageAssumptions DEF Init, TypeOK, Kinds, Phases
<1>2. KindInv /\ SnapInv /\ RowInv /\ SentInv /\ CallbackInv /\ GateInv /\ OrderlyInv
  BY MessageAssumptions
     DEF Init, KindInv, SnapInv, RowInv, SentInv, CallbackInv, GateInv, OrderlyInv, OneVerdict, OneHandler, Deciding, Started,
         InFlight, Writing, Sending, Messages
<1> QED
  BY <1>1, <1>2 DEF IInv

LEMMA NextIInv == IInv /\ [Next]_vars => IInv'
<1> SUFFICES ASSUME IInv, [Next]_vars PROVE IInv'
  OBVIOUS
<1>1. CASE UNCHANGED vars
  BY <1>1 DEF vars, IInv, TypeOK, KindInv, SnapInv, RowInv, RowOK, SidBacked, SidSent, SentInv,
              CallbackInv, GateInv, OrderlyInv, OneVerdict, OneHandler, Deciding, Started, InFlight, Accepted
<1>2. ASSUME NEW h \in Handlers, Advance(h) \/ Settle(h) \/ Crash(h), UNCHANGED orderly
      PROVE  IInv'
  BY <1>2, SaveDraftIInv, ReadForSendIInv, SaveEditIInv, ClaimSendIInv, ProviderAcceptsIInv,
     ProviderRaisesIInv, CompleteSendIInv, SaveFailedIInv, SaveSentIInv, ReadForRejectIInv,
     SaveRejectedIInv, SettleIInv, CrashIInv DEF Advance
<1>3. ASSUME NEW h \in Handlers, NEW m \in Messages, Start(h, m), UNCHANGED orderly
      PROVE  IInv'
  BY <1>3, SendIInv, DraftForApprovalIInv, ApproveIInv, RejectIInv, RetryIInv DEF Start
<1>4. ASSUME NEW m \in Messages, CallbackLookup(m), UNCHANGED orderly
      PROVE  IInv'
  BY <1>4, CallbackLookupIInv
<1>5. ASSUME NEW c \in callbacks, CallbackAdvance(c), UNCHANGED orderly
      PROVE  IInv'
  BY <1>5, CallbackAdvanceIInv
<1> QED
  BY <1>1, <1>2, <1>3, <1>4, <1>5 DEF Next

\* The invariant that ties every row, every handler's copy of it, the provider's
\* record and the human decision together (message_send.py, routes/messages.py,
\* routes/webhooks.py).
THEOREM MessageInvariant == Spec => []IInv
BY InitIInv, NextIInv, PTL DEF Spec

\* Nothing a workflow drafted reaches the provider without a human's approval,
\* whatever is retried, replayed, overlapping or crashing (send_approved,
\* retry_failed_message).
THEOREM NoSendWithoutApprovalCorrect == Spec => []NoSendWithoutApproval
<1>1. IInv => NoSendWithoutApproval
  BY DEF IInv, SentInv, NoSendWithoutApproval
<1> QED
  BY <1>1, MessageInvariant, PTL

\* A row that says SENT or DELIVERED is of a message the provider accepted, and with
\* a provider id it shows the very text accepted under that id, however decisions,
\* retries and callbacks overlap; in the orderly regime it always has one
\* (send_approved, twilio_sms_webhook).
THEOREM HistoryShowsWhatShippedCorrect == Spec => []HistoryShowsWhatShipped
<1>1. IInv => HistoryShowsWhatShipped
  <2> SUFFICES ASSUME IInv, NEW m \in Messages, row[m] # NoRow,
                      row[m].status \in {"SENT", "DELIVERED"}
               PROVE  \E x \in sent :
                        /\ x.msg = m
                        /\ orderly \/ row[m].sid # NoSid => x.by = row[m].sid
                        /\ orderly \/ row[m].sid # NoSid \/ m \in Direct => x.text = row[m].text
    BY DEF HistoryShowsWhatShipped
  <2>1. CASE row[m].sid \in Handlers
    BY <2>1 DEF IInv, RowInv, RowOK, SidBacked
  <2>2. CASE row[m].sid \notin Handlers
    <3>1. row[m].sid = NoSid /\ ~orderly
      BY <2>2 DEF IInv, TypeOK, Rows, OrderlyInv, OneHandler
    <3>2. PICK x \in sent : x.msg = m
      BY DEF IInv, RowInv, RowOK
    <3>3. m \in Direct => x.text = row[m].text
      BY <3>2 DEF IInv, RowInv, RowOK, SentInv
    <3> QED
      BY <3>1, <3>2, <3>3
  <2> QED
    BY <2>1, <2>2
<1> QED
  BY <1>1, MessageInvariant, PTL

\* No credential is stored for an approver to see or handed to the provider,
\* through a draft, an edit or a retry (_dlp_scrub).
THEOREM NoSecretLeavesCorrect == Spec => []NoSecretLeaves
<1>1. IInv => NoSecretLeaves
  BY DEF IInv, SentInv, RowInv, RowOK, NoSecretLeaves
<1> QED
  BY <1>1, MessageInvariant, PTL

\* In the orderly regime no row is left half-way when nothing works on it any more
\* (the except clauses of message_send.py).
THEOREM SettledWhenIdleCorrect == Spec => []SettledWhenIdle
<1>1. IInv => SettledWhenIdle
  BY DEF IInv, OrderlyInv, OneHandler, SettledWhenIdle, InFlight, Sending
<1> QED
  BY <1>1, MessageInvariant, PTL

\* Who writes a row: a handler that saves its copy, or a callback that advances it.
LEMMA RowWriters ==
    ASSUME Next
    PROVE  \/ UNCHANGED row
           \/ \E h \in Handlers : pc[h] \in Saving /\ \E r :
                save_message(h, r) /\ (pc[h] = "save_rejected" => r = snap[h])
           \/ \E c \in callbacks : CallbackAdvance(c)
<1>1. ASSUME NEW h \in Handlers, Advance(h)
      PROVE  \/ UNCHANGED row
             \/ pc[h] \in Saving /\ \E r :
                  save_message(h, r) /\ (pc[h] = "save_rejected" => r = snap[h])
  BY <1>1 DEF Advance, SaveDraft, ReadForSend, SaveEdit, ClaimSend, ProviderAccepts,
              ProviderRaises, CompleteSend, SaveFailed, SaveSent, ReadForReject, SaveRejected,
              Saving
<1>2. ASSUME NEW h \in Handlers, Settle(h) \/ Crash(h) PROVE UNCHANGED row
  BY <1>2 DEF Settle, Crash
<1>3. ASSUME NEW h \in Handlers, NEW m \in Messages, Start(h, m) PROVE UNCHANGED row
  BY <1>3 DEF Start, Send, DraftForApproval, Approve, Reject, Retry
<1>4. ASSUME NEW m \in Messages, CallbackLookup(m) PROVE UNCHANGED row
  BY <1>4 DEF CallbackLookup
<1> QED
  BY <1>1, <1>2, <1>3, <1>4 DEF Next

\* A row whose rank is the highest is out of a callback's reach.
LEMMA TopRank ==
    ASSUME IInv, NEW c \in callbacks, CallbackAdvance(c), NEW m \in Messages, row[m] # NoRow,
           row[m].status \in {"DELIVERED", "FAILED", "REJECTED"}
    PROVE  row'[m] = row[m]
<1>1. c.status \in {"SENT", "DELIVERED", "FAILED"} /\ c.msg \in Messages
  BY DEF IInv, TypeOK
<1>2. CASE c.msg = m
  BY <1>1, <1>2 DEF CallbackAdvance, STATUS_RANK, MessageStatus
<1>3. CASE c.msg # m
  BY <1>1, <1>3 DEF CallbackAdvance, IInv, TypeOK
<1> QED
  BY <1>2, <1>3

\* A human's no is final where nothing overlaps, and under any overlap of retries,
\* callbacks, drafts and other rejections as long as nobody has approved the message
\* too (send_approved and mark_rejected look at the row's status).
THEOREM RejectedIsFinalCorrect == Spec => RejectedIsFinal
<1> DEFINE Final == \A m \in Drafted :
                      /\ row[m] # NoRow /\ row[m].status = "REJECTED"
                      /\ orderly \/ "approved" \notin decision'[m]
                      => row'[m].status = "REJECTED" /\ \A x \in sent' : x.msg # m
<1>1. IInv /\ IInv' /\ [Next]_vars => [Final]_vars
  <2> SUFFICES ASSUME IInv, IInv', Next, NEW m \in Drafted, row[m] # NoRow,
                      row[m].status = "REJECTED", orderly \/ "approved" \notin decision'[m]
               PROVE  row'[m].status = "REJECTED" /\ \A x \in sent' : x.msg # m
    BY DEF vars
  <2>1. m \in Messages /\ "rejected" \in decision[m]
    BY DEF IInv, RowInv, RowOK, Messages
  <2>2. decision[m] \subseteq decision'[m]
    <3>1. \/ decision' = decision
          \/ \E h \in Handlers, n \in Messages : Approve(h, n) \/ Reject(h, n)
      BY DEF Next, Advance, SaveDraft, ReadForSend, SaveEdit, ClaimSend, ProviderAccepts,
             ProviderRaises, CompleteSend, SaveFailed, SaveSent, ReadForReject, SaveRejected,
             Settle, Crash, Start, Send, DraftForApproval, Retry, CallbackLookup,
             CallbackAdvance, world
    <3>2. ASSUME NEW h \in Handlers, NEW n \in Messages, Approve(h, n) \/ Reject(h, n)
          PROVE  decision[m] \subseteq decision'[m]
      <4>1. PICK v : decision' = [decision EXCEPT ![n] = @ \cup {v}]
        BY <3>2 DEF Approve, Reject
      <4> QED
        BY <4>1 DEF IInv, TypeOK
    <3> QED
      BY <3>1, <3>2
  <2>a. orderly' = orderly
    BY DEF Next
  <2>3. "approved" \notin decision[m] /\ "approved" \notin decision'[m]
    BY <2>1, <2>2, <2>a DEF IInv, OrderlyInv, OneVerdict
  <2>4. ASSUME NEW h \in Handlers, pc[h] \in Saving, msg[h] = m
        PROVE  pc[h] = "save_rejected"
    <3>1. Started(h) /\ kind[h] \in {"draft", "reject"}
      BY <2>3, <2>4, MessageAssumptions DEF IInv, KindInv, TypeOK, Kinds, Started, Saving
    <3>2. kind[h] # "draft"
      BY <2>4, <3>1 DEF IInv, KindInv, GateInv, Saving, Ended
    <3> QED
      BY <2>4, <3>1, <3>2 DEF IInv, KindInv, Saving, Ended
  <2>5. row'[m].status = "REJECTED"
    <3>1. CASE UNCHANGED row
      BY <3>1
    <3>2. ASSUME NEW c \in callbacks, CallbackAdvance(c) PROVE row'[m].status = "REJECTED"
      BY <2>1, <3>2, TopRank
    <3>3. ASSUME NEW h \in Handlers, pc[h] \in Saving, NEW r, save_message(h, r),
                 pc[h] = "save_rejected" => r = snap[h]
          PROVE  row'[m].status = "REJECTED"
      <4>1. CASE msg[h] # m
        BY <2>1, <3>3, <4>1 DEF save_message, IInv, TypeOK
      <4>2. CASE msg[h] = m
        BY <2>1, <2>4, <3>3, <4>2 DEF save_message, IInv, TypeOK, SnapInv
      <4> QED
        BY <4>1, <4>2
    <3> QED
      BY <3>1, <3>2, <3>3, RowWriters
  <2>6. \A x \in sent' : x.msg # m
    BY <2>3 DEF IInv, SentInv
  <2> QED
    BY <2>5, <2>6
<1> QED
  BY <1>1, MessageInvariant, PTL DEF Spec, RejectedIsFinal

\* In the orderly regime DELIVERED is never left (the status checks of send_message
\* and send_approved, and the rank in advance_message_status).
THEOREM OrderlyDeliveredIsFinalCorrect == Spec => OrderlyDeliveredIsFinal
<1>1. IInv /\ [Next]_vars => [orderly => DeliveredStays]_vars
  <2> SUFFICES ASSUME IInv, Next, orderly, NEW m \in Messages, row[m] # NoRow,
                      row[m].status = "DELIVERED"
               PROVE  row'[m] = row[m]
    BY DEF vars, DeliveredStays
  <2>1. ASSUME NEW h \in Handlers, pc[h] \in Saving PROVE msg[h] # m
    BY <2>1 DEF IInv, OrderlyInv, OneVerdict, OneHandler, Deciding, Started, InFlight, Saving
  <2> QED
    BY <2>1, RowWriters, TopRank DEF IInv, TypeOK, save_message
<1> QED
  BY <1>1, MessageInvariant, PTL DEF Spec, OrderlyDeliveredIsFinal

\* In the orderly regime a retry reaches the provider only for a row that is still
\* FAILED (retry_failed_message's check).
THEOREM OrderlyRetryNeverResendsCorrect == Spec => OrderlyRetryNeverResends
<1>1. IInv /\ [Next]_vars => [orderly => RetriesUnsettled]_vars
  <2> SUFFICES ASSUME IInv, Next, orderly, NEW x \in sent' \ sent, kind[x.by] = "retry"
               PROVE  row[x.msg].status = "FAILED"
    BY DEF vars, RetriesUnsettled
  <2>1. PICK h \in Handlers : pc[h] = "provider" /\ x = Accepted(h)
    BY DEF Next, Advance, SaveDraft, ReadForSend, SaveEdit, ClaimSend, ProviderAccepts,
           ProviderRaises, CompleteSend, SaveFailed, SaveSent, ReadForReject, SaveRejected,
           Settle, Crash, Start, Send, DraftForApproval, Approve, Reject, Retry,
           CallbackLookup, CallbackAdvance, world
  <2>2. x.by = h /\ x.msg = msg[h]
    BY <2>1 DEF Accepted
  <2>3. row[msg[h]] # NoRow
    BY <2>1, <2>2 DEF IInv, KindInv, Started
  <2> QED
    BY <2>1, <2>2, <2>3 DEF IInv, OrderlyInv, OneVerdict, OneHandler, Deciding, Started, InFlight
<1> QED
  BY <1>1, MessageInvariant, PTL DEF Spec, OrderlyRetryNeverResends

-----------------------------------------------------------------------------
(***************************************************************************)
(* The provider is reached once: what the idempotency keys are for.  A     *)
(* direct send may be replayed by its caller, an approval may be given     *)
(* twice and then retried, a timeout may hide an accepted message: outside *)
(* the admin's retries one text of a message is accepted at most once.     *)
(* Only approvals that overlap with different edits (two keys) get a       *)
(* second text of one draft accepted.                                      *)
(***************************************************************************)
\* Across overlapping sends, decisions, replays, crashes and timeouts that hide an
\* accepted message, the provider accepts each text of a message at most once outside
\* admin retries; a direct message has one text, and where decisions on a draft do
\* not overlap it is sent with one (_send, send_approved and the key claimed around
\* port.send).
AcceptedOnce ==
    \A x, y \in sent :
        /\ x.msg = y.msg /\ kind[x.by] # "retry" /\ kind[y.by] # "retry"
        /\ orderly \/ x.msg \in Direct \/ x.text = y.text
        => x = y

\* The key an accepted message was sent under.
SentKey(x) == <<IF kind[x.by] = "retry" THEN x.by ELSE x.msg, x.msg, x.text>>

\* An accepted message has used up its handler and its key; whoever calls the
\* provider holds a key nobody else holds and nothing was sent under.
OnceInv ==
    /\ \A x \in sent :
         /\ pc[x.by] \in {"complete", "save_failed", "save_sent"} \cup Ended
         /\ msg[x.by] = x.msg
         /\ kind[x.by] \in {"direct", "approve", "retry"}
         /\ claims[SentKey(x)] # "absent"
    /\ \A h \in Handlers : pc[h] = "provider" =>
         /\ claims[SendKey(h)] # "absent"
         /\ \A x \in sent : SentKey(x) # SendKey(h)
    /\ \A g, h \in Handlers :
         pc[g] = "provider" /\ pc[h] = "provider" /\ SendKey(g) = SendKey(h) => g = h
    /\ \A x, y \in sent : SentKey(x) = SentKey(y) => x = y
    /\ \A x, y \in sent : x.by = y.by => x = y

Used == {"complete", "save_failed", "save_sent"} \cup Ended

LEMMA SentKeyFact ==
    ASSUME TypeOK, NEW x \in sent
    PROVE  SentKey(x) \in Keys /\ x.by \in Handlers /\ x.msg \in Messages
BY DEF TypeOK, SentKey, Keys, Messages

\* A step in which nobody claims a key or reaches the provider.
LEMMA QuietOnce ==
    ASSUME IInv, OnceInv, sent' = sent,
           \A h \in Handlers : pc'[h] = "provider" =>
               pc[h] = "provider" /\ kind'[h] = kind[h] /\ msg'[h] = msg[h]
                                 /\ snap'[h].text = snap[h].text,
           \A h \in Handlers : pc[h] \in Used =>
               pc'[h] \in Used /\ kind'[h] = kind[h] /\ msg'[h] = msg[h],
           \A k \in Keys : claims[k] # "absent" => claims'[k] # "absent"
    PROVE  OnceInv'
<1>1. \A h \in Handlers : pc'[h] = "provider" => SendKey(h)' = SendKey(h) /\ SendKey(h) \in Keys
  BY SendKeyFact DEF SendKey, IInv
<1>2. \A x \in sent : /\ x.by \in Handlers /\ pc'[x.by] \in Used /\ msg'[x.by] = x.msg
                      /\ kind'[x.by] = kind[x.by]
                      /\ SentKey(x)' = SentKey(x) /\ SentKey(x) \in Keys
  BY SentKeyFact DEF OnceInv, Used, SentKey, IInv
<1> HIDE DEF SendKey, SentKey
<1> QED
  BY <1>1, <1>2 DEF OnceInv, Used

LEMMA ClaimOnce ==
    ASSUME IInv, OnceInv, NEW h \in Handlers, ClaimSend(h)
    PROVE  OnceInv'
<1> DEFINE k == SendKey(h)
<1>1. k \in Keys /\ h \in Handlers /\ pc[h] = "claim"
  BY SendKeyFact DEF IInv, ClaimSend
<1>2. UNCHANGED <<sent, kind, msg>>
  BY DEF ClaimSend, world
<1>3. PICK p \in {"provider", "save_failed", "save_sent"} : Goto(h, p)
  BY DEF ClaimSend
<1>4. pc'[h] = p /\ \A g \in Handlers : g # h => pc'[g] = pc[g]
  BY <1>3, MoveTo DEF IInv, Phases
<1>5. \A g \in Handlers : snap'[g].text = snap[g].text /\ SendKey(g)' = SendKey(g)
  <2>1. \A g \in Handlers : snap'[g].text = snap[g].text
    BY DEF ClaimSend, IInv, TypeOK, Rows
  <2> QED
    BY <1>2, <2>1 DEF SendKey
<1>6. CASE claims[k] = "absent" /\ claims' = [claims EXCEPT ![k] = "pending"]
  <2>1. \A j \in Keys : claims'[j] = IF j = k THEN "pending" ELSE claims[j]
    BY <1>1, <1>6 DEF IInv, TypeOK
  <2>2. \A x \in sent : SentKey(x)' = SentKey(x) /\ SentKey(x) \in Keys /\ x.by \in Handlers
    BY <1>2, SentKeyFact DEF SentKey, IInv
  <2>3. \A g \in Handlers : SendKey(g) \in Keys
    BY SendKeyFact DEF IInv
  <2>4. \A x \in sent : SentKey(x) # k /\ x.by # h
    BY <1>1, <1>6 DEF OnceInv, Ended
  <2>5. \A g \in Handlers : pc[g] = "provider" => SendKey(g) # k
    BY <1>6 DEF OnceInv
  <2> HIDE DEF k
  <2>6. \A x \in sent : /\ pc'[x.by] \in {"complete", "save_failed", "save_sent"} \cup Ended
                        /\ msg'[x.by] = x.msg /\ claims'[SentKey(x)'] # "absent"
                        /\ kind'[x.by] \in {"direct", "approve", "retry"}
    BY <1>2, <1>4, <2>1, <2>2, <2>4 DEF OnceInv
  <2>7. \A g \in Handlers : pc'[g] = "provider" =>
          /\ claims'[SendKey(g)'] # "absent"
          /\ \A x \in sent : SentKey(x)' # SendKey(g)'
    BY <1>4, <1>5, <2>1, <2>2, <2>3, <2>4 DEF OnceInv, k
  <2>8. \A f, g \in Handlers :
          pc'[f] = "provider" /\ pc'[g] = "provider" /\ SendKey(f)' = SendKey(g)' => f = g
    BY <1>4, <1>5, <2>5 DEF OnceInv, k
  <2>9. /\ \A x, y \in sent : SentKey(x)' = SentKey(y)' => x = y
        /\ \A x, y \in sent : x.by = y.by => x = y
    BY <2>2 DEF OnceInv
  <2> QED
    BY <1>2, <2>6, <2>7, <2>8, <2>9 DEF OnceInv
<1>7. CASE claims' = claims /\ p # "provider"
  <2>1. \A g \in Handlers : pc[g] \in Used => pc'[g] = pc[g]
    BY <1>1, <1>4 DEF Used, Ended
  <2>2. \A g \in Handlers : pc'[g] = "provider" => pc[g] = "provider"
    BY <1>4, <1>7
  <2> QED
    BY <1>2, <1>5, <1>7, <2>1, <2>2, QuietOnce
<1>8. (claims' = claims /\ p # "provider")
      \/ (claims[k] = "absent" /\ claims' = [claims EXCEPT ![k] = "pending"])
  BY <1>1, <1>3 DEF ClaimSend, Goto, IInv, TypeOK
<1> QED
  BY <1>6, <1>7, <1>8

\* The provider takes the message, whether the handler gets to know it or not.
LEMMA AcceptOnce ==
    ASSUME IInv, OnceInv, NEW h \in Handlers, pc[h] = "provider",
           sent' = sent \cup {Accepted(h)}, NEW p \in {"complete", "save_failed"}, Goto(h, p),
           UNCHANGED <<claims, kind, msg, snap>>
    PROVE  OnceInv'
<1> DEFINE a == Accepted(h)
<1>1. pc'[h] = p /\ \A g \in Handlers : g # h => pc'[g] = pc[g]
  BY MoveTo DEF IInv, Phases
<1>2. a.by = h /\ a.msg = msg[h] /\ SentKey(a) = SendKey(h)
  BY DEF Accepted, SentKey, SendKey
<1>a. kind[h] \in {"direct", "approve", "retry"}
  BY DEF IInv, TypeOK, KindInv, Kinds, Started, Ended
<1>3. \A g \in Handlers : SendKey(g)' = SendKey(g)
  BY DEF SendKey
<1>4. \A x : SentKey(x)' = SentKey(x)
  BY DEF SentKey
<1>5. \A x \in sent : x.by \in Handlers /\ x.by # h /\ SentKey(x) # SendKey(h)
  BY SentKeyFact DEF IInv, OnceInv, Ended
<1> HIDE DEF a
<1>6. \A x \in sent' : x \in sent \/ x = a
  BY DEF a
<1>7. \A x \in sent' : /\ pc'[x.by] \in {"complete", "save_failed", "save_sent"} \cup Ended
                       /\ msg'[x.by] = x.msg /\ claims'[SentKey(x)'] # "absent"
                       /\ kind'[x.by] \in {"direct", "approve", "retry"}
  BY <1>1, <1>2, <1>a, <1>4, <1>5, <1>6 DEF OnceInv
<1>8. \A g \in Handlers : pc'[g] = "provider" =>
        /\ claims'[SendKey(g)'] # "absent"
        /\ \A x \in sent' : SentKey(x)' # SendKey(g)'
  BY <1>1, <1>2, <1>3, <1>4, <1>6 DEF OnceInv
<1>9. \A f, g \in Handlers :
        pc'[f] = "provider" /\ pc'[g] = "provider" /\ SendKey(f)' = SendKey(g)' => f = g
  BY <1>1, <1>3 DEF OnceInv
<1>10. /\ \A x, y \in sent' : SentKey(x)' = SentKey(y)' => x = y
       /\ \A x, y \in sent' : x.by = y.by => x = y
  BY <1>2, <1>4, <1>5, <1>6 DEF OnceInv
<1> QED
  BY <1>7, <1>8, <1>9, <1>10 DEF OnceInv

LEMMA StepOnce ==
    ASSUME IInv, OnceInv, Next
    PROVE  OnceInv'
<1> USE DEF IInv
<1>1. ASSUME NEW h \in Handlers, ProviderAccepts(h) PROVE OnceInv'
  BY <1>1, AcceptOnce DEF ProviderAccepts
<1>2. ASSUME NEW h \in Handlers, ProviderRaises(h) PROVE OnceInv'
  <2>1. CASE sent' = sent
    <3>1. pc[h] = "provider" /\ pc'[h] = "save_failed" /\ \A g \in Handlers : g # h => pc'[g] = pc[g]
      BY <1>2, MoveTo DEF ProviderRaises, Phases
    <3>2. UNCHANGED <<claims, kind, msg, snap>>
      BY <1>2 DEF ProviderRaises
    <3> QED
      BY <2>1, <3>1, <3>2, QuietOnce DEF Used, Ended
  <2>2. CASE sent' = sent \cup {Accepted(h)}
    BY <1>2, <2>2, AcceptOnce DEF ProviderRaises
  <2> QED
    BY <1>2, <2>1, <2>2 DEF ProviderRaises
<1>3. ASSUME NEW h \in Handlers, CompleteSend(h) PROVE OnceInv'
  <2>1. pc[h] = "complete" /\ pc'[h] = "save_sent" /\ \A g \in Handlers : g # h => pc'[g] = pc[g]
    BY <1>3, MoveTo DEF CompleteSend, Phases
  <2>2. UNCHANGED <<sent, kind, msg>> /\ \A g \in Handlers : g # h => snap'[g] = snap[g]
    BY <1>3 DEF CompleteSend, world, TypeOK
  <2>3. \A j \in Keys : claims'[j] \in {claims[j], h}
    BY <1>3, SendKeyFact DEF CompleteSend, TypeOK
  <2>4. h # "absent"
    BY MessageAssumptions
  <2> QED
    BY <2>1, <2>2, <2>3, <2>4, QuietOnce DEF Used, Ended
<1>4. ASSUME NEW h \in Handlers, NEW p \in {"done", "claim", "save_edit", "save_rejected", "crashed"},
             pc[h] # "idle", pc[h] \in Used => p \in Ended,
             Goto(h, p), UNCHANGED <<claims, sent, kind, msg>>,
             \A g \in Handlers : g # h => snap'[g] = snap[g]
      PROVE  OnceInv'
  <2>1. pc'[h] = p /\ \A g \in Handlers : g # h => pc'[g] = pc[g]
    BY <1>4, MoveTo DEF Phases
  <2> QED
    BY <1>4, <2>1, QuietOnce DEF Used, Ended
<1>5. ASSUME NEW h \in Handlers, SaveDraft(h) \/ SaveEdit(h) \/ SaveFailed(h) \/ SaveSent(h)
                                 \/ SaveRejected(h) \/ Crash(h)
      PROVE  OnceInv'
  BY <1>4, <1>5 DEF SaveDraft, SaveEdit, SaveFailed, SaveSent, SaveRejected, Crash, world,
                   InFlight, Used, Ended
<1>6. ASSUME NEW h \in Handlers, ReadForSend(h) \/ ReadForReject(h) PROVE OnceInv'
  <2>1. \A g \in Handlers : g # h => snap'[g] = snap[g]
    BY <1>6 DEF ReadForSend, ReadForReject, TypeOK
  <2> QED
    BY <1>4, <1>6, <2>1 DEF ReadForSend, ReadForReject, world, Used, Ended
<1>7. ASSUME NEW h \in Handlers, NEW m \in Messages, Start(h, m) PROVE OnceInv'
  <2>1. PICK k, r, p : Begin(h, k, m, r, p) /\ p # "provider"
    BY <1>7 DEF Start, Send, DraftForApproval, Approve, Reject, Retry, Kinds, Phases
  <2>2. /\ pc[h] = "idle" /\ pc'[h] = p
        /\ \A g \in Handlers : g # h =>
             pc'[g] = pc[g] /\ kind'[g] = kind[g] /\ msg'[g] = msg[g] /\ snap'[g] = snap[g]
    BY <2>1 DEF Begin, TypeOK
  <2>3. UNCHANGED <<claims, sent>>
    BY <1>7 DEF Start, Send, DraftForApproval, Approve, Reject, Retry, world
  <2> QED
    BY <2>1, <2>2, <2>3, QuietOnce DEF Used, Ended
<1>8. CASE UNCHANGED <<claims, sent, kind, msg, pc, snap>>
  BY <1>8, QuietOnce DEF Used
<1>9. ASSUME NEW h \in Handlers, Advance(h) \/ Settle(h) \/ Crash(h) PROVE OnceInv'
  BY <1>1, <1>2, <1>3, <1>5, <1>6, <1>8, <1>9, ClaimOnce DEF Advance, Settle
<1> QED
  BY <1>7, <1>8, <1>9 DEF Next, CallbackLookup, CallbackAdvance

\* Outside the admin's retries the provider accepts a text of a message at most once,
\* however sends, decisions and replays of it overlap, crash or lose the provider's
\* answer, and a message itself at most once where no two decisions on it overlap
\* (_send, send_approved, the claim around port.send).
THEOREM AcceptedOnceCorrect == Spec => []AcceptedOnce
<1>1. Init => OnceInv
  BY DEF Init, OnceInv
<1>2. IInv /\ OnceInv /\ [Next]_vars => OnceInv'
  <2>1. ASSUME IInv, OnceInv, UNCHANGED vars PROVE OnceInv'
    BY <2>1, QuietOnce DEF vars, Used
  <2> QED
    BY <2>1, StepOnce
<1>3. IInv /\ OnceInv => AcceptedOnce
  <2> SUFFICES ASSUME IInv, OnceInv, NEW x \in sent, NEW y \in sent, x.msg = y.msg,
                      kind[x.by] # "retry", kind[y.by] # "retry",
                      orderly \/ x.msg \in Direct \/ x.text = y.text
               PROVE  x = y
    BY DEF AcceptedOnce
  <2>1. /\ x.by \in Handlers /\ y.by \in Handlers
        /\ Started(x.by) /\ Started(y.by) /\ msg[x.by] = x.msg /\ msg[y.by] = x.msg
    BY SentKeyFact DEF IInv, OnceInv, Started, Ended
  <2>2. CASE x.text = y.text
    <3>1. SentKey(x) = SentKey(y)
      BY <2>2 DEF SentKey
    <3> QED
      BY <3>1 DEF OnceInv
  <2>3. CASE x.msg \in Direct
    BY <2>2, <2>3 DEF IInv, SentInv
  <2>4. CASE x.msg \in Drafted /\ orderly
    <3>1. kind[x.by] = "approve" /\ kind[y.by] = "approve"
      BY <2>1, <2>4, MessageAssumptions DEF IInv, KindInv, OnceInv
    <3> QED
      BY <2>1, <2>4, <3>1 DEF IInv, OrderlyInv, OneVerdict, Deciding, OnceInv
  <2> QED
    BY <2>2, <2>3, <2>4, SentKeyFact DEF IInv, Messages
<1> QED
  BY <1>1, <1>2, <1>3, MessageInvariant, PTL DEF Spec
=============================================================================
