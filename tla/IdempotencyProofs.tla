-------------------------- MODULE IdempotencyProofs --------------------------
(***************************************************************************)
(* The write boundary is at-most-once for any number of invocations, runs, *)
(* tools and arguments, and implements AtMostOnceWrite.                    *)
(***************************************************************************)
EXTENDS Idempotency, TLAPS

\* The key of a write is the triple of its run, tool and semantic arguments,
\* so equal keys are the same write of the same run.
LEMMA KeyOfWrite ==
    ASSUME NEW w \in Writes
    PROVE  /\ idempotency_key(w) \in Keys
           /\ idempotency_key(w) = <<w.run, w.tool, w.args>>
BY DEF Keys, idempotency_key

\* SameKey is equality of keys for writes that have one.
LEMMA SameKeyIsEqualKey ==
    ASSUME TypeOK, NEW a \in Attempts, NEW b \in Attempts
    PROVE  SameKey(a, b) <=> /\ call[a] # NoWrite /\ call[b] # NoWrite
                             /\ Deduped(call[a]) /\ Deduped(call[b])
                             /\ MyKey(a) = MyKey(b)
BY KeyOfWrite DEF SameKey, MyKey, TypeOK, idempotency_key

\* The initial state satisfies the inductive invariant.
LEMMA InitIInv == Init => IInv
BY DistinctMarkers, NoWriteIsNoWrite
   DEF Init, IInv, TypeOK, PhaseInv, OwnerInv, EffectInv, LedgerInv, ResultInv,
       ReplayReturnsOriginal, Phases, Keys

\* A write outside any run starts; no row is touched.
LEMMA ClaimWithoutRunIInv ==
    ASSUME IInv, NEW a \in Attempts, NEW w \in Writes, ClaimWithoutRun(a, w)
    PROVE  IInv'
<1> USE DEF IInv, ClaimWithoutRun, Goto, Answered
<1>1. idempotency_key(w) \in Keys /\ w # NoWrite
  BY KeyOfWrite, NoWriteIsNoWrite
<1>2. \A b \in Attempts : b # a => call'[b] = call[b] /\ MyKey(b)' = MyKey(b)
  BY DEF TypeOK, MyKey
<1>3. call'[a] = w /\ MyKey(a)' = idempotency_key(w) /\ claim[a] = "none"
  BY DEF TypeOK, MyKey, PhaseInv
<1>4. TypeOK'
  BY <1>1, <1>2, <1>3, DistinctMarkers DEF TypeOK, Phases, Outcomes
<1>5. PhaseInv'
  BY <1>1, <1>2, <1>3, DistinctMarkers DEF PhaseInv, TypeOK
<1>6. OwnerInv'
  BY <1>1, <1>2, <1>3, DistinctMarkers DEF OwnerInv, TypeOK, PhaseInv
<1>7. EffectInv'
  BY <1>1, <1>2, <1>3, DistinctMarkers DEF EffectInv, TypeOK, PhaseInv
<1>8. LedgerInv'
  BY <1>1, <1>2, <1>3, DistinctMarkers DEF LedgerInv, TypeOK, PhaseInv, Outcomes
<1>9. ResultInv'
  BY <1>1, <1>2, <1>3, DistinctMarkers DEF ResultInv, TypeOK, PhaseInv, OwnerInv, EffectInv,
     LedgerInv
<1>10. ReplayReturnsOriginal'
  BY <1>1, <1>2, <1>3, DistinctMarkers DEF ReplayReturnsOriginal, SameKey, TypeOK, PhaseInv,
     ResultInv, EffectInv
<1> QED
  BY <1>4, <1>5, <1>6, <1>7, <1>8, <1>9, <1>10

\* The insert succeeds: the invocation becomes the key's only owner.
LEMMA ClaimNewIInv ==
    ASSUME IInv, NEW a \in Attempts, NEW w \in Writes, ClaimNew(a, w)
    PROVE  IInv'
<1> USE DEF IInv, ClaimNew, Goto, Answered
<1>1. idempotency_key(w) \in Keys /\ w # NoWrite
  BY KeyOfWrite, NoWriteIsNoWrite
<1>2. \A b \in Attempts : b # a => call'[b] = call[b] /\ MyKey(b)' = MyKey(b)
  BY DEF TypeOK, MyKey
<1>3. call'[a] = w /\ MyKey(a)' = idempotency_key(w) /\ claim[a] = "none"
  BY DEF TypeOK, MyKey, PhaseInv
<1>4. TypeOK'
  BY <1>1, <1>2, <1>3, DistinctMarkers DEF TypeOK, Phases, Outcomes
<1>5. PhaseInv'
  BY <1>1, <1>2, <1>3, DistinctMarkers DEF PhaseInv, TypeOK
<1>6. OwnerInv'
  BY <1>1, <1>2, <1>3, DistinctMarkers DEF OwnerInv, TypeOK, PhaseInv
<1>7. EffectInv'
  BY <1>1, <1>2, <1>3, DistinctMarkers DEF EffectInv, TypeOK, PhaseInv
<1>8. LedgerInv'
  BY <1>1, <1>2, <1>3, DistinctMarkers DEF LedgerInv, TypeOK, PhaseInv, Outcomes
<1>9. ResultInv'
  BY <1>1, <1>2, <1>3, DistinctMarkers DEF ResultInv, TypeOK, PhaseInv, OwnerInv, EffectInv,
     LedgerInv
<1>10. ReplayReturnsOriginal'
  BY <1>1, <1>2, <1>3, DistinctMarkers DEF ReplayReturnsOriginal, SameKey, TypeOK, PhaseInv,
     ResultInv, EffectInv
<1> QED
  BY <1>4, <1>5, <1>6, <1>7, <1>8, <1>9, <1>10

\* The insert conflicts: the key already has a row.
LEMMA ClaimConflictIInv ==
    ASSUME IInv, NEW a \in Attempts, NEW w \in Writes, ClaimConflict(a, w)
    PROVE  IInv'
<1> USE DEF IInv, ClaimConflict, Goto, Answered
<1>1. idempotency_key(w) \in Keys /\ w # NoWrite
  BY KeyOfWrite, NoWriteIsNoWrite
<1>2. \A b \in Attempts : b # a => call'[b] = call[b] /\ MyKey(b)' = MyKey(b)
  BY DEF TypeOK, MyKey
<1>3. call'[a] = w /\ MyKey(a)' = idempotency_key(w) /\ claim[a] = "none"
  BY DEF TypeOK, MyKey, PhaseInv
<1>4. TypeOK'
  BY <1>1, <1>2, <1>3, DistinctMarkers DEF TypeOK, Phases, Outcomes
<1>5. PhaseInv'
  BY <1>1, <1>2, <1>3, DistinctMarkers DEF PhaseInv, TypeOK
<1>6. OwnerInv'
  BY <1>1, <1>2, <1>3, DistinctMarkers DEF OwnerInv, TypeOK, PhaseInv
<1>7. EffectInv'
  BY <1>1, <1>2, <1>3, DistinctMarkers DEF EffectInv, TypeOK, PhaseInv
<1>8. LedgerInv'
  BY <1>1, <1>2, <1>3, DistinctMarkers DEF LedgerInv, TypeOK, PhaseInv, Outcomes
<1>9. ResultInv'
  BY <1>1, <1>2, <1>3, DistinctMarkers DEF ResultInv, TypeOK, PhaseInv, OwnerInv, EffectInv,
     LedgerInv
<1>10. ReplayReturnsOriginal'
  BY <1>1, <1>2, <1>3, DistinctMarkers DEF ReplayReturnsOriginal, SameKey, TypeOK, PhaseInv,
     ResultInv, EffectInv
<1> QED
  BY <1>4, <1>5, <1>6, <1>7, <1>8, <1>9, <1>10

\* A replay of a pending key is refused.
LEMMA ReadClaimPendingIInv ==
    ASSUME IInv, NEW a \in Attempts, ReadClaimPending(a)
    PROVE  IInv'
<1> USE DEF IInv, ReadClaimPending, Goto, Answered
<1>1. call[a] \in Writes /\ MyKey(a) \in Keys
  BY KeyOfWrite, DistinctMarkers DEF TypeOK, PhaseInv, MyKey
<1>2. \A b \in Attempts : call'[b] = call[b] /\ MyKey(b)' = MyKey(b)
  BY DEF MyKey
<1>4. TypeOK'
  BY <1>1, <1>2, DistinctMarkers DEF TypeOK, Phases, Outcomes
<1>5. PhaseInv'
  BY <1>1, <1>2, DistinctMarkers DEF PhaseInv, TypeOK
<1>6. OwnerInv'
  BY <1>1, <1>2, DistinctMarkers DEF OwnerInv, TypeOK, PhaseInv
<1>7. EffectInv'
  BY <1>1, <1>2, DistinctMarkers DEF EffectInv, TypeOK, PhaseInv
<1>8. LedgerInv'
  BY <1>1, <1>2, DistinctMarkers DEF LedgerInv, TypeOK, PhaseInv, Outcomes
<1>9. ResultInv'
  BY <1>1, <1>2, DistinctMarkers DEF ResultInv, TypeOK, PhaseInv, OwnerInv, EffectInv, LedgerInv
<1>10. ReplayReturnsOriginal'
  BY <1>1, <1>2, DistinctMarkers DEF ReplayReturnsOriginal, SameKey, TypeOK, PhaseInv,
     ResultInv, EffectInv
<1> QED
  BY <1>4, <1>5, <1>6, <1>7, <1>8, <1>9, <1>10

\* A replay of a completed key is handed the stored result.
LEMMA ReadClaimCompletedIInv ==
    ASSUME IInv, NEW a \in Attempts, ReadClaimCompleted(a)
    PROVE  IInv'
<1> USE DEF IInv, ReadClaimCompleted, Goto, Answered
<1>1. call[a] \in Writes /\ MyKey(a) \in Keys
  BY KeyOfWrite, DistinctMarkers DEF TypeOK, PhaseInv, MyKey
<1>2. \A b \in Attempts : call'[b] = call[b] /\ MyKey(b)' = MyKey(b)
  BY DEF MyKey
<1>3. result[MyKey(a)] \in Attempts
  BY <1>1 DEF ResultInv, TypeOK
<1>4. TypeOK'
  BY <1>1, <1>2, DistinctMarkers DEF TypeOK, Phases, Outcomes
<1>5. PhaseInv'
  BY <1>1, <1>2, <1>3, DistinctMarkers DEF PhaseInv, ResultInv, TypeOK
<1>6. OwnerInv'
  BY <1>1, <1>2, DistinctMarkers DEF OwnerInv, TypeOK, PhaseInv
<1>7. EffectInv'
  BY <1>1, <1>2, DistinctMarkers DEF EffectInv, TypeOK, PhaseInv
<1>8. LedgerInv'
  BY <1>1, <1>2, DistinctMarkers DEF LedgerInv, TypeOK, PhaseInv, Outcomes
<1>9. ResultInv'
  BY <1>1, <1>2, DistinctMarkers DEF ResultInv, TypeOK, PhaseInv, OwnerInv, EffectInv, LedgerInv
<1>10. ReplayReturnsOriginal'
  <2>0. PICK r \in Attempts : r = result[MyKey(a)]
    BY <1>3
  <2>1. r \in effects /\ claim[r] = "new" /\ MyKey(r) = MyKey(a)
    BY <1>1, <2>0 DEF ResultInv
  <2>2. r \in Attempts /\ call[r] # NoWrite /\ Deduped(call[r])
    BY <2>1 DEF TypeOK, PhaseInv
  <2>3. call[a] # NoWrite /\ Deduped(call[a])
    BY <1>1, NoWriteIsNoWrite DEF PhaseInv
  <2>4. SameKey(a, r)
    BY <2>1, <2>2, <2>3, SameKeyIsEqualKey
  <2>5. SameKey(a, r)'
    BY <2>4 DEF SameKey
  <2>6. answer'[a] = r /\ r \in effects'
    BY <2>0, <2>1 DEF TypeOK
  <2>7. \A b \in Attempts : b # a => answer'[b] = answer[b]
    BY DEF TypeOK
  <2>8. \A b, c \in Attempts : SameKey(b, c)' <=> SameKey(b, c)
    BY DEF SameKey
  <2> QED
    BY <2>2, <2>5, <2>6, <2>7, <2>8 DEF ReplayReturnsOriginal, TypeOK
<1> QED
  BY <1>4, <1>5, <1>6, <1>7, <1>8, <1>9, <1>10

\* The vendor call returns.
LEMMA InnerReturnsIInv ==
    ASSUME IInv, NEW a \in Attempts, InnerReturns(a)
    PROVE  IInv'
<1> USE DEF IInv, InnerReturns, Goto, Answered
<1>1. call[a] \in Writes /\ MyKey(a) \in Keys
  BY KeyOfWrite, DistinctMarkers DEF TypeOK, PhaseInv, MyKey
<1>2. \A b \in Attempts : call'[b] = call[b] /\ MyKey(b)' = MyKey(b)
  BY DEF MyKey
<1>4. TypeOK'
  BY <1>1, <1>2, DistinctMarkers DEF TypeOK, Phases, Outcomes
<1>5. PhaseInv'
  BY <1>1, <1>2, DistinctMarkers DEF PhaseInv, TypeOK
<1>6. OwnerInv'
  BY <1>1, <1>2, DistinctMarkers DEF OwnerInv, TypeOK, PhaseInv
<1>7. EffectInv'
  BY <1>1, <1>2, DistinctMarkers DEF EffectInv, TypeOK, PhaseInv
<1>8. LedgerInv'
  BY <1>1, <1>2, DistinctMarkers DEF LedgerInv, TypeOK, PhaseInv, Outcomes
<1>9. ResultInv'
  BY <1>1, <1>2, DistinctMarkers DEF ResultInv, TypeOK, PhaseInv, OwnerInv, EffectInv, LedgerInv
<1>10. ReplayReturnsOriginal'
  BY <1>1, <1>2, DistinctMarkers DEF ReplayReturnsOriginal, SameKey, TypeOK, PhaseInv,
     ResultInv, EffectInv
<1> QED
  BY <1>4, <1>5, <1>6, <1>7, <1>8, <1>9, <1>10

\* The vendor call raises, with or without an effect.
LEMMA InnerRaisesIInv ==
    ASSUME IInv, NEW a \in Attempts, InnerRaises(a)
    PROVE  IInv'
<1> USE DEF IInv, InnerRaises, Goto, Answered
<1>1. call[a] \in Writes /\ MyKey(a) \in Keys
  BY KeyOfWrite, DistinctMarkers DEF TypeOK, PhaseInv, MyKey
<1>2. \A b \in Attempts : call'[b] = call[b] /\ MyKey(b)' = MyKey(b)
  BY DEF MyKey
<1>4. TypeOK'
  BY <1>1, <1>2, DistinctMarkers DEF TypeOK, Phases, Outcomes
<1>5. PhaseInv'
  BY <1>1, <1>2, DistinctMarkers DEF PhaseInv, TypeOK
<1>6. OwnerInv'
  BY <1>1, <1>2, DistinctMarkers DEF OwnerInv, TypeOK, PhaseInv
<1>7. EffectInv'
  BY <1>1, <1>2, DistinctMarkers DEF EffectInv, TypeOK, PhaseInv
<1>8. LedgerInv'
  BY <1>1, <1>2, DistinctMarkers DEF LedgerInv, TypeOK, PhaseInv, Outcomes
<1>9. ResultInv'
  BY <1>1, <1>2, DistinctMarkers DEF ResultInv, TypeOK, PhaseInv, OwnerInv, EffectInv, LedgerInv
<1>10. ReplayReturnsOriginal'
  BY <1>1, <1>2, DistinctMarkers DEF ReplayReturnsOriginal, SameKey, TypeOK, PhaseInv,
     ResultInv, EffectInv
<1> QED
  BY <1>4, <1>5, <1>6, <1>7, <1>8, <1>9, <1>10

\* SUCCESS is appended to the ledger.
LEMMA EmitSuccessIInv ==
    ASSUME IInv, NEW a \in Attempts, EmitSuccess(a)
    PROVE  IInv'
<1> USE DEF IInv, EmitSuccess, Goto, Answered
<1>1. call[a] \in Writes /\ MyKey(a) \in Keys
  BY KeyOfWrite, DistinctMarkers DEF TypeOK, PhaseInv, MyKey
<1>2. \A b \in Attempts : call'[b] = call[b] /\ MyKey(b)' = MyKey(b)
  BY DEF MyKey
<1>4. TypeOK'
  BY <1>1, <1>2, DistinctMarkers DEF TypeOK, Phases, Outcomes
<1>5. PhaseInv'
  BY <1>1, <1>2, DistinctMarkers DEF PhaseInv, TypeOK
<1>6. OwnerInv'
  BY <1>1, <1>2, DistinctMarkers DEF OwnerInv, TypeOK, PhaseInv
<1>7. EffectInv'
  BY <1>1, <1>2, DistinctMarkers DEF EffectInv, TypeOK, PhaseInv
<1>8. LedgerInv'
  BY <1>1, <1>2, DistinctMarkers DEF LedgerInv, TypeOK, PhaseInv, Outcomes
<1>9. ResultInv'
  BY <1>1, <1>2, DistinctMarkers DEF ResultInv, TypeOK, PhaseInv, OwnerInv, EffectInv, LedgerInv
<1>10. ReplayReturnsOriginal'
  BY <1>1, <1>2, DistinctMarkers DEF ReplayReturnsOriginal, SameKey, TypeOK, PhaseInv,
     ResultInv, EffectInv
<1> QED
  BY <1>4, <1>5, <1>6, <1>7, <1>8, <1>9, <1>10

\* FAILURE is appended to the ledger.
LEMMA EmitFailureIInv ==
    ASSUME IInv, NEW a \in Attempts, EmitFailure(a)
    PROVE  IInv'
<1> USE DEF IInv, EmitFailure, Goto, Answered
<1>1. call[a] \in Writes /\ MyKey(a) \in Keys
  BY KeyOfWrite, DistinctMarkers DEF TypeOK, PhaseInv, MyKey
<1>2. \A b \in Attempts : call'[b] = call[b] /\ MyKey(b)' = MyKey(b)
  BY DEF MyKey
<1>4. TypeOK'
  BY <1>1, <1>2, DistinctMarkers DEF TypeOK, Phases, Outcomes
<1>5. PhaseInv'
  BY <1>1, <1>2, DistinctMarkers DEF PhaseInv, TypeOK
<1>6. OwnerInv'
  BY <1>1, <1>2, DistinctMarkers DEF OwnerInv, TypeOK, PhaseInv
<1>7. EffectInv'
  BY <1>1, <1>2, DistinctMarkers DEF EffectInv, TypeOK, PhaseInv
<1>8. LedgerInv'
  BY <1>1, <1>2, DistinctMarkers DEF LedgerInv, TypeOK, PhaseInv, Outcomes
<1>9. ResultInv'
  BY <1>1, <1>2, DistinctMarkers DEF ResultInv, TypeOK, PhaseInv, OwnerInv, EffectInv, LedgerInv
<1>10. ReplayReturnsOriginal'
  BY <1>1, <1>2, DistinctMarkers DEF ReplayReturnsOriginal, SameKey, TypeOK, PhaseInv,
     ResultInv, EffectInv
<1> QED
  BY <1>4, <1>5, <1>6, <1>7, <1>8, <1>9, <1>10

\* The ledger append fails.
LEMMA EmitRaisesIInv ==
    ASSUME IInv, NEW a \in Attempts, EmitRaises(a)
    PROVE  IInv'
<1> USE DEF IInv, EmitRaises, Goto, Answered
<1>1. call[a] \in Writes /\ MyKey(a) \in Keys
  BY KeyOfWrite, DistinctMarkers DEF TypeOK, PhaseInv, MyKey
<1>2. \A b \in Attempts : call'[b] = call[b] /\ MyKey(b)' = MyKey(b)
  BY DEF MyKey
<1>4. TypeOK'
  BY <1>1, <1>2, DistinctMarkers DEF TypeOK, Phases, Outcomes
<1>5. PhaseInv'
  BY <1>1, <1>2, DistinctMarkers DEF PhaseInv, TypeOK
<1>6. OwnerInv'
  BY <1>1, <1>2, DistinctMarkers DEF OwnerInv, TypeOK, PhaseInv
<1>7. EffectInv'
  BY <1>1, <1>2, DistinctMarkers DEF EffectInv, TypeOK, PhaseInv
<1>8. LedgerInv'
  BY <1>1, <1>2, DistinctMarkers DEF LedgerInv, TypeOK, PhaseInv, Outcomes
<1>9. ResultInv'
  BY <1>1, <1>2, DistinctMarkers DEF ResultInv, TypeOK, PhaseInv, OwnerInv, EffectInv, LedgerInv
<1>10. ReplayReturnsOriginal'
  BY <1>1, <1>2, DistinctMarkers DEF ReplayReturnsOriginal, SameKey, TypeOK, PhaseInv,
     ResultInv, EffectInv
<1> QED
  BY <1>4, <1>5, <1>6, <1>7, <1>8, <1>9, <1>10

\* The owner stores its result under the key.
LEMMA RecordIInv ==
    ASSUME IInv, NEW a \in Attempts, Record(a)
    PROVE  IInv'
<1> USE DEF IInv, Record, Goto, Answered
<1>1. call[a] \in Writes /\ MyKey(a) \in Keys
  BY KeyOfWrite, DistinctMarkers DEF TypeOK, PhaseInv, MyKey
<1>2. \A b \in Attempts : call'[b] = call[b] /\ MyKey(b)' = MyKey(b)
  BY DEF MyKey
<1>3. /\ status' \in [Keys -> {"absent", "pending", "completed"}]
      /\ \A k \in Keys : status[k] # "absent" => status'[k] # "absent"
  <2>1. CASE claim[a] = "new"
    BY <1>1, <2>1 DEF TypeOK
  <2>2. CASE claim[a] # "new"
    BY <2>2 DEF TypeOK
  <2> QED
    BY <2>1, <2>2
<1>a. \A b \in Attempts : call[b] # NoWrite => MyKey(b) \in Keys
  BY KeyOfWrite DEF TypeOK, MyKey
<1>4. TypeOK'
  BY <1>1, <1>2, DistinctMarkers DEF TypeOK, Phases, Outcomes
<1>5. PhaseInv'
  BY <1>1, <1>2, <1>3, <1>a, NoWriteIsNoWrite, DistinctMarkers DEF PhaseInv, TypeOK
<1>6. OwnerInv'
  BY <1>1, <1>2, <1>3, <1>a, NoWriteIsNoWrite, DistinctMarkers DEF OwnerInv, TypeOK, PhaseInv
<1>7. EffectInv'
  BY <1>1, <1>2, DistinctMarkers DEF EffectInv, TypeOK, PhaseInv
<1>8. LedgerInv'
  BY <1>1, <1>2, DistinctMarkers DEF LedgerInv, TypeOK, PhaseInv, Outcomes
<1>9. ResultInv'
  BY <1>1, <1>2, DistinctMarkers DEF ResultInv, TypeOK, PhaseInv, OwnerInv, EffectInv, LedgerInv
<1>10. ReplayReturnsOriginal'
  BY <1>1, <1>2, DistinctMarkers DEF ReplayReturnsOriginal, SameKey, TypeOK, PhaseInv,
     ResultInv, EffectInv
<1> QED
  BY <1>4, <1>5, <1>6, <1>7, <1>8, <1>9, <1>10

\* Storing the result fails.
LEMMA RecordRaisesIInv ==
    ASSUME IInv, NEW a \in Attempts, RecordRaises(a)
    PROVE  IInv'
<1> USE DEF IInv, RecordRaises, Goto, Answered
<1>1. call[a] \in Writes /\ MyKey(a) \in Keys
  BY KeyOfWrite, DistinctMarkers DEF TypeOK, PhaseInv, MyKey
<1>2. \A b \in Attempts : call'[b] = call[b] /\ MyKey(b)' = MyKey(b)
  BY DEF MyKey
<1>4. TypeOK'
  BY <1>1, <1>2, DistinctMarkers DEF TypeOK, Phases, Outcomes
<1>5. PhaseInv'
  BY <1>1, <1>2, DistinctMarkers DEF PhaseInv, TypeOK
<1>6. OwnerInv'
  BY <1>1, <1>2, DistinctMarkers DEF OwnerInv, TypeOK, PhaseInv
<1>7. EffectInv'
  BY <1>1, <1>2, DistinctMarkers DEF EffectInv, TypeOK, PhaseInv
<1>8. LedgerInv'
  BY <1>1, <1>2, DistinctMarkers DEF LedgerInv, TypeOK, PhaseInv, Outcomes
<1>9. ResultInv'
  BY <1>1, <1>2, DistinctMarkers DEF ResultInv, TypeOK, PhaseInv, OwnerInv, EffectInv, LedgerInv
<1>10. ReplayReturnsOriginal'
  BY <1>1, <1>2, DistinctMarkers DEF ReplayReturnsOriginal, SameKey, TypeOK, PhaseInv,
     ResultInv, EffectInv
<1> QED
  BY <1>4, <1>5, <1>6, <1>7, <1>8, <1>9, <1>10

\* The process dies.
LEMMA CrashIInv ==
    ASSUME IInv, NEW a \in Attempts, Crash(a)
    PROVE  IInv'
<1> USE DEF IInv, Crash, Goto, Answered
<1>1. call[a] \in Writes /\ MyKey(a) \in Keys
  BY KeyOfWrite, DistinctMarkers DEF TypeOK, PhaseInv, MyKey
<1>2. \A b \in Attempts : call'[b] = call[b] /\ MyKey(b)' = MyKey(b)
  BY DEF MyKey
<1>4. TypeOK'
  BY <1>1, <1>2, DistinctMarkers DEF TypeOK, Phases, Outcomes
<1>5. PhaseInv'
  BY <1>1, <1>2, DistinctMarkers DEF PhaseInv, TypeOK
<1>6. OwnerInv'
  BY <1>1, <1>2, DistinctMarkers DEF OwnerInv, TypeOK, PhaseInv
<1>7. EffectInv'
  BY <1>1, <1>2, DistinctMarkers DEF EffectInv, TypeOK, PhaseInv
<1>8. LedgerInv'
  BY <1>1, <1>2, DistinctMarkers DEF LedgerInv, TypeOK, PhaseInv, Outcomes
<1>9. ResultInv'
  BY <1>1, <1>2, DistinctMarkers DEF ResultInv, TypeOK, PhaseInv, OwnerInv, EffectInv, LedgerInv
<1>10. ReplayReturnsOriginal'
  BY <1>1, <1>2, DistinctMarkers DEF ReplayReturnsOriginal, SameKey, TypeOK, PhaseInv,
     ResultInv, EffectInv
<1> QED
  BY <1>4, <1>5, <1>6, <1>7, <1>8, <1>9, <1>10

\* The invariant is inductive: every step of every interleaving preserves it.
LEMMA NextIInv == IInv /\ [Next]_vars => IInv'
<1> SUFFICES ASSUME IInv, [Next]_vars PROVE IInv'
  OBVIOUS
<1>1. ASSUME NEW a \in Attempts, NEW w \in Writes, Claim(a, w) PROVE IInv'
  BY <1>1, ClaimWithoutRunIInv, ClaimNewIInv, ClaimConflictIInv DEF Claim
<1>2. ASSUME NEW a \in Attempts, Step(a) PROVE IInv'
  BY <1>2, ReadClaimPendingIInv, ReadClaimCompletedIInv, InnerReturnsIInv,
     InnerRaisesIInv, EmitSuccessIInv, EmitFailureIInv, EmitRaisesIInv,
     RecordIInv, RecordRaisesIInv DEF Step
<1>3. ASSUME NEW a \in Attempts, Crash(a) PROVE IInv'
  BY <1>3, CrashIInv
<1>4. CASE UNCHANGED vars
  BY <1>4 DEF vars, IInv, TypeOK, PhaseInv, OwnerInv, EffectInv, LedgerInv,
     ResultInv, ReplayReturnsOriginal, SameKey, MyKey
<1> QED
  BY <1>1, <1>2, <1>3, <1>4 DEF Next

\* The inductive invariant holds in every reachable state.
THEOREM InductiveInvariant == Spec => []IInv
BY InitIInv, NextIInv, PTL DEF Spec

\* The write boundary stays within its types.
THEOREM TypeCorrect == Spec => []TypeOK
<1>1. IInv => TypeOK
  BY DEF IInv
<1> QED
  BY <1>1, InductiveInvariant, PTL

\* One effect per key: its performers all own the key, and a key has one owner.
LEMMA AtMostOnceFromIInv == IInv => AtMostOnce
<1> SUFFICES ASSUME IInv, NEW a \in effects, NEW b \in effects, SameKey(a, b)
             PROVE  a = b
  BY DEF AtMostOnce
<1>1. a \in Attempts /\ b \in Attempts
  BY DEF IInv, TypeOK
<1>2. MyKey(a) = MyKey(b) /\ Deduped(call[a]) /\ Deduped(call[b])
  BY <1>1, SameKeyIsEqualKey DEF IInv
<1>3. claim[a] = "new" /\ claim[b] = "new"
  BY <1>1, <1>2 DEF IInv, EffectInv, PhaseInv
<1> QED
  BY <1>1, <1>2, <1>3 DEF IInv, OwnerInv

\* A run's external write takes effect at most once, for any number of
\* concurrent or repeated invocations, whatever fails in between.
THEOREM AtMostOnceCorrect == Spec => []AtMostOnce
BY AtMostOnceFromIInv, InductiveInvariant, PTL

\* A caller is only handed the result of its own write's one effect.
THEOREM ReplayReturnsOriginalCorrect == Spec => []ReplayReturnsOriginal
<1>1. IInv => ReplayReturnsOriginal
  BY DEF IInv
<1> QED
  BY <1>1, InductiveInvariant, PTL

\* A logical write of a run has at most one ledger record.
THEOREM OneMutationRecordCorrect == Spec => []OneMutationRecord
<1>1. IInv => OneMutationRecord
  <2> SUFFICES ASSUME IInv, NEW x \in ledger, NEW y \in ledger,
                      SameKey(x[1], y[1])
               PROVE  x = y
    BY DEF OneMutationRecord
  <2>1. /\ x = <<x[1], x[2]>> /\ x[1] \in Attempts /\ x[2] \in Outcomes
        /\ y = <<y[1], y[2]>> /\ y[1] \in Attempts /\ y[2] \in Outcomes
    BY DEF IInv, TypeOK
  <2>2. /\ MyKey(x[1]) = MyKey(y[1])
        /\ Deduped(call[x[1]]) /\ Deduped(call[y[1]])
    BY <2>1, SameKeyIsEqualKey DEF IInv
  <2>3. claim[x[1]] = "new" /\ claim[y[1]] = "new"
    BY <2>1, <2>2 DEF IInv, LedgerInv, PhaseInv
  <2>4. x[1] = y[1]
    BY <2>1, <2>2, <2>3 DEF IInv, OwnerInv
  <2>5. x[2] = y[2]
    BY <2>1, <2>4 DEF IInv, LedgerInv, Outcomes
  <2> QED
    BY <2>1, <2>4, <2>5
<1> QED
  BY <1>1, InductiveInvariant, PTL

\* A stored result is always one the ledger shows as a success.
THEOREM CompletedIsLedgeredCorrect == Spec => []CompletedIsLedgered
<1>1. IInv => CompletedIsLedgered
  BY DEF IInv, ResultInv, CompletedIsLedgered
<1> QED
  BY <1>1, InductiveInvariant, PTL

\* The ledger shows one outcome per logical write of a run, and every stored
\* result as a success, however retries overlap (audit.py, idempotency.py).
THEOREM LedgerTellsTheTruthCorrect == Spec => []LedgerTellsTheTruth
<1>1. OneMutationRecord /\ CompletedIsLedgered => LedgerTellsTheTruth
  BY DEF LedgerTellsTheTruth
<1> QED
  BY <1>1, OneMutationRecordCorrect, CompletedIsLedgeredCorrect, PTL

\* A claim never goes back and a stored result is never replaced.
THEOREM ClaimsForwardOnlyCorrect == Spec => ClaimsForwardOnly
<1> DEFINE Forward == \A k \in Keys :
         /\ status[k] = "pending" => status'[k] # "absent"
         /\ status[k] = "completed" => /\ status'[k] = "completed"
                                       /\ result'[k] = result[k]
<1>1. IInv /\ [Next]_vars => [Forward]_vars
  <2> SUFFICES ASSUME IInv, Next PROVE Forward
    OBVIOUS
  <2>1. ASSUME NEW a \in Attempts, NEW w \in Writes, Claim(a, w) PROVE Forward
    BY <2>1, KeyOfWrite
       DEF Claim, ClaimWithoutRun, ClaimNew, ClaimConflict, IInv, TypeOK
  <2>2. ASSUME NEW a \in Attempts, Record(a) PROVE Forward
    <3>1. CASE claim[a] = "new"
      <4>1. MyKey(a) \in Keys
        BY <2>2, KeyOfWrite, <3>1 DEF IInv, TypeOK, PhaseInv, MyKey
      <4>2. ASSUME status[MyKey(a)] = "completed" PROVE FALSE
        <5>1. /\ result[MyKey(a)] \in Attempts
              /\ claim[result[MyKey(a)]] = "new"
              /\ MyKey(result[MyKey(a)]) = MyKey(a)
              /\ pc[result[MyKey(a)]] = "answered"
          BY <4>1, <4>2 DEF IInv, ResultInv, TypeOK
        <5>2. result[MyKey(a)] = a
          BY <3>1, <5>1 DEF IInv, OwnerInv
        <5> QED
          BY <2>2, <5>1, <5>2 DEF Record
      <4> QED
        BY <2>2, <3>1, <4>1, <4>2 DEF Record, IInv, TypeOK
    <3>2. CASE claim[a] # "new"
      BY <2>2, <3>2 DEF Record
    <3> QED
      BY <3>1, <3>2
  <2>3. ASSUME NEW a \in Attempts, Step(a) \/ Crash(a), ~Record(a) PROVE Forward
    BY <2>3 DEF Step, Crash, ReadClaimPending, ReadClaimCompleted, InnerReturns,
       InnerRaises, EmitSuccess, EmitFailure, EmitRaises, RecordRaises
  <2> QED
    BY <2>1, <2>2, <2>3 DEF Next
<1> QED
  BY <1>1, InductiveInvariant, PTL DEF Spec, ClaimsForwardOnly

\* The promise's notion of "the same write" is the seam's.
LEMMA SameWriteIsSameKey ==
    ASSUME TypeOK, NEW a \in Attempts, NEW b \in Attempts
    PROVE  Promise!SameWrite(a, b) <=> SameKey(a, b)
BY SameKeyIsEqualKey DEF Promise!SameWrite, MyKey

\* The seam implements the abstract at-most-once write: claiming issues the
\* write, the vendor's effect performs it, and an answer is the result of that
\* one effect or an error; ledger and key bookkeeping are invisible.
THEOREM Implements == Spec => ImplementsAtMostOnceWrite
<1>1. Init => Promise!Init
  BY DEF Init, Promise!Init
<1>a. IInv' => AtMostOnce'
  BY AtMostOnceFromIInv, PTL
<1>2. IInv /\ IInv' /\ [Next]_vars => [Promise!Next]_Promise!vars
  <2> SUFFICES ASSUME IInv, IInv', Next
               PROVE  Promise!Next \/ UNCHANGED <<call, effects, answer>>
    BY DEF vars, Promise!vars
  <2>1. ASSUME NEW a \in Attempts, NEW w \in Writes, Claim(a, w)
        PROVE  Promise!Issue(a)
    BY <2>1 DEF Claim, ClaimWithoutRun, ClaimNew, ClaimConflict, Promise!Issue,
       IInv, PhaseInv
  <2>2. ASSUME NEW a \in Attempts, pc[a] = "inner", effects' = effects \cup {a},
               UNCHANGED <<call, answer, claim>>
        PROVE  Promise!Perform(a)
    <3>1. call[a] # NoWrite /\ answer[a] = NoAnswer
      BY <2>2 DEF IInv, PhaseInv
    <3>2. a \notin effects
      BY <2>2 DEF IInv, EffectInv
    <3>3. AtMostOnce'
      BY <1>a
    <3>4. ASSUME NEW b \in effects, SameKey(a, b) PROVE FALSE
      BY <2>2, <3>2, <3>3, <3>4 DEF AtMostOnce, SameKey
    <3> QED
      BY <2>2, <3>1, <3>2, <3>4, SameWriteIsSameKey
         DEF Promise!Perform, IInv, TypeOK
  <2>3. ASSUME NEW a \in Attempts, pc[a] \notin {"idle", "answered", "crashed"},
               answer' = [answer EXCEPT ![a] = Error], UNCHANGED <<call, effects>>
        PROVE  Promise!Fail(a)
    BY <2>3 DEF Promise!Fail, IInv, PhaseInv
  <2>4. ASSUME NEW a \in Attempts, pc[a] \notin {"idle", "answered", "crashed"},
               NEW r \in Attempts, answer' = [answer EXCEPT ![a] = r],
               UNCHANGED <<call, effects>>
        PROVE  Promise!Return(a)
    <3>1. answer'[a] = r
      BY <2>4 DEF IInv, TypeOK
    <3>2. r \in effects' /\ (r = a \/ SameKey(a, r)')
      BY <3>1 DEF IInv, ReplayReturnsOriginal
    <3>3. r \in effects /\ (r = a \/ SameKey(a, r))
      BY <2>4, <3>2 DEF SameKey
    <3> QED
      BY <2>4, <3>3, SameWriteIsSameKey DEF Promise!Return, IInv, PhaseInv
  <2>5. ASSUME NEW a \in Attempts, Step(a) \/ Crash(a)
        PROVE  \/ Promise!Perform(a) \/ Promise!Return(a) \/ Promise!Fail(a)
               \/ UNCHANGED <<call, effects, answer>>
    <3>1. CASE ReadClaimCompleted(a)
      <4>a. MyKey(a) \in Keys
        BY <3>1, KeyOfWrite
           DEF ReadClaimCompleted, IInv, TypeOK, PhaseInv, MyKey
      <4>1. result[MyKey(a)] \in Attempts
        BY <3>1, <4>a DEF ReadClaimCompleted, IInv, TypeOK, ResultInv
      <4> QED
        BY <3>1, <4>1, <2>4 DEF ReadClaimCompleted, Answered
    <3>2. CASE Record(a)
      BY <3>2, <2>4 DEF Record, Answered
    <3>3. CASE InnerReturns(a) \/ InnerRaises(a)
      BY <3>3, <2>2 DEF InnerReturns, InnerRaises
    <3>4. CASE ReadClaimPending(a) \/ EmitFailure(a) \/ EmitRaises(a)
               \/ RecordRaises(a) \/ Crash(a)
      BY <3>4, <2>3 DEF ReadClaimPending, EmitFailure, EmitRaises, RecordRaises,
         Crash, Answered
    <3>5. CASE EmitSuccess(a)
      BY <3>5 DEF EmitSuccess
    <3> QED
      BY <2>5, <3>1, <3>2, <3>3, <3>4, <3>5 DEF Step
  <2> QED
    BY <2>1, <2>5 DEF Next, Promise!Next
<1> QED
  BY <1>1, <1>2, InductiveInvariant, PTL
     DEF Spec, ImplementsAtMostOnceWrite, Promise!Spec

=============================================================================
