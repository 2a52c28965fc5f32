------------------------- MODULE Aggregator_proofs -------------------------
(***************************************************************************)
(* Proofs about the batch aggregator (module Aggregator), for every set of *)
(* goroutines and every call budget.                                       *)
(*                                                                         *)
(* ScheduleOrderKept is not inductive by itself: Schedule writes back the  *)
(* slice it read, which is right only because nobody changed a.scheduled   *)
(* in between, and that holds only because of a.mu.  IInv adds:            *)
(*   - MutualExclusion: a goroutine past Lock holds a.mu;                  *)
(*   - SnapFresh: Schedule's read is still a.scheduled when it writes;     *)
(*   - CallShape: Schedule is the method reading and writing, every call  *)
(*     other than Flush brought an item, and a call in progress has not   *)
(*     returned a response yet;                                            *)
(*   - OwnLast: ScheduleAndFlush's batch in flight ends with its own item, *)
(*     which AnswerToOwnItem rests on.                                     *)
(***************************************************************************)
EXTENDS Aggregator, SequenceTheorems, TLAPS

LockedPcs == {"read", "write", "issue", "batch"}

MutualExclusion == \A c \in Callers : pc[c] \in LockedPcs => holder = c

SnapFresh == \A c \in Callers : pc[c] = "write" => snap[c] = scheduled

CallShape ==
  \A c \in Callers :
    /\ pc[c] \in {"read", "write"} => op[c] = "Schedule"
    /\ op[c] # "Flush" => item[c] \in ItemIds
    /\ pc[c] # "idle" => got[c] = 0

OwnLast ==
  \A c \in Callers :
    pc[c] = "batch" /\ op[c] = "ScheduleAndFlush" =>
      /\ inflight[c] # <<>>
      /\ inflight[c][Len(inflight[c])] = item[c]

IInv ==
  /\ TypeOK
  /\ MutualExclusion
  /\ SnapFresh
  /\ CallShape
  /\ OwnLast
  /\ ScheduleOrderKept
  /\ AnswerToOwnItem

USE MaxCallsAssumption, NoCallerAssumption

-----------------------------------------------------------------------------
(***************************************************************************)
(* The sequence fact both appends rest on: appending to the pending part  *)
(* of the log appends to the log.                                          *)
(***************************************************************************)
LEMMA ItemLogAppend ==
  ASSUME NEW s \in Seq(ItemIds), NEW t \in Seq(ItemIds), NEW x \in ItemIds
  PROVE  Append(s \o t, x) = s \o Append(t, x)
<1>1. s \o t \in Seq(ItemIds) /\ <<x>> \in Seq(ItemIds)
  BY ConcatProperties
<1>2. Append(s \o t, x) = (s \o t) \o <<x>>
  BY <1>1, AppendIsConcat
<1>3. Append(t, x) = t \o <<x>>
  BY AppendIsConcat
<1>4. QED
  BY <1>1, <1>2, <1>3, ConcatAssociative

LEMMA InitIInv == Init => IInv
<1> SUFFICES ASSUME Init PROVE IInv
  OBVIOUS
<1>1. TypeOK
  BY EmptySeq, MaxCallsAssumption DEF Init, TypeOK, Returns, Ops, ItemIds
<1>2. ScheduleOrderKept
  BY EmptySeq, ConcatEmptySeq DEF Init, ScheduleOrderKept
<1>3. QED
  BY <1>1, <1>2 DEF Init, IInv, MutualExclusion, SnapFresh, CallShape,
                    OwnLast, AnswerToOwnItem, LockedPcs

-----------------------------------------------------------------------------
(***************************************************************************)
(* One lemma per action of a goroutine c.                                  *)
(***************************************************************************)
LEMMA CallIInv ==
  ASSUME NEW c \in Callers, NEW o \in Ops, IInv, Call(c, o) PROVE IInv'
<1>1. calls + 1 \in ItemIds
  BY MaxCallsAssumption DEF Call, IInv, TypeOK, ItemIds
<1>2. TypeOK'
  <2>1. item' \in [Callers -> 0..MaxCalls]
    BY <1>1 DEF Call, IInv, TypeOK, ItemIds
  <2>2. calls' \in 0..MaxCalls
    BY DEF Call, IInv, TypeOK
  <2>3. /\ op' \in [Callers -> Ops]
        /\ got' \in [Callers -> 0..MaxCalls]
        /\ full' \in [Callers -> BOOLEAN]
        /\ pc' \in [Callers -> {"idle", "lock", "read", "write", "issue", "batch"}]
    BY DEF Call, IInv, TypeOK
  <2>4. QED
    BY <2>1, <2>2, <2>3 DEF Call, IInv, TypeOK
<1>3. CallShape'
  <2> SUFFICES ASSUME NEW d \in Callers
               PROVE  /\ pc'[d] \in {"read", "write"} => op'[d] = "Schedule"
                      /\ op'[d] # "Flush" => item'[d] \in ItemIds
                      /\ pc'[d] # "idle" => got'[d] = 0
    BY DEF CallShape
  <2>1. CASE d = c
    BY <2>1, <1>1 DEF Call, IInv, TypeOK
  <2>2. CASE d # c
    BY <2>2 DEF Call, IInv, TypeOK, CallShape
  <2>3. QED
    BY <2>1, <2>2
<1>4. QED
  BY <1>2, <1>3 DEF Call, IInv, TypeOK, MutualExclusion, SnapFresh,
                    OwnLast, ScheduleOrderKept, AnswerToOwnItem, LockedPcs

LEMMA LockIInv ==
  ASSUME NEW c \in Callers, IInv, Lock(c) PROVE IInv'
<1>1. \A d \in Callers : pc[d] \notin LockedPcs
  BY NoCallerAssumption DEF Lock, IInv, MutualExclusion
<1>2. TypeOK'
  BY DEF Lock, IInv, TypeOK
<1>3. QED
  BY <1>1, <1>2 DEF Lock, IInv, TypeOK, MutualExclusion, SnapFresh,
                    CallShape, OwnLast, ScheduleOrderKept, AnswerToOwnItem,
                    LockedPcs

LEMMA ScheduleReadIInv ==
  ASSUME NEW c \in Callers, IInv, ScheduleRead(c) PROVE IInv'
<1>1. \A d \in Callers : pc[d] \in LockedPcs => d = c
  BY DEF ScheduleRead, IInv, MutualExclusion, LockedPcs
<1>2. TypeOK'
  BY DEF ScheduleRead, IInv, TypeOK
<1>3. QED
  BY <1>1, <1>2 DEF ScheduleRead, IInv, TypeOK, MutualExclusion, SnapFresh,
                    CallShape, OwnLast, ScheduleOrderKept, AnswerToOwnItem,
                    LockedPcs

LEMMA ScheduleWriteIInv ==
  ASSUME NEW c \in Callers, IInv, ScheduleWrite(c) PROVE IInv'
<1>1. \A d \in Callers : pc[d] \in LockedPcs => d = c
  BY DEF ScheduleWrite, IInv, MutualExclusion, LockedPcs
<1>2. item[c] \in ItemIds /\ snap[c] = scheduled
  BY DEF ScheduleWrite, IInv, CallShape, SnapFresh
<1>3. TypeOK'
  BY <1>2, AppendProperties DEF ScheduleWrite, Return, IInv, TypeOK, Returns
<1>4. ScheduleOrderKept'
  <2>1. sent \in Seq(ItemIds) /\ scheduled \in Seq(ItemIds)
    BY DEF IInv, TypeOK
  <2>2. Append(sent \o scheduled, item[c]) = sent \o Append(scheduled, item[c])
    BY <1>2, <2>1, ItemLogAppend
  <2>3. QED
    BY <1>2, <2>2 DEF ScheduleWrite, IInv, ScheduleOrderKept
<1>5. QED
  BY <1>1, <1>3, <1>4 DEF ScheduleWrite, Return, IInv, TypeOK,
                          MutualExclusion, SnapFresh, CallShape, OwnLast,
                          AnswerToOwnItem, LockedPcs

LEMMA IssueEmptyIInv ==
  ASSUME NEW c \in Callers, IInv, IssueEmpty(c) PROVE IInv'
<1>1. \A d \in Callers : pc[d] \in LockedPcs => d = c
  BY DEF IssueEmpty, IInv, MutualExclusion, LockedPcs
<1>2. TypeOK'
  BY DEF IssueEmpty, Return, IInv, TypeOK, Returns
<1>3. QED
  BY <1>1, <1>2 DEF IssueEmpty, Return, IInv, TypeOK, MutualExclusion,
                    SnapFresh, CallShape, OwnLast, ScheduleOrderKept,
                    AnswerToOwnItem, LockedPcs

LEMMA IssueBatchIInv ==
  ASSUME NEW c \in Callers, IInv, IssueBatch(c) PROVE IInv'
<1>1. \A d \in Callers : pc[d] \in LockedPcs => d = c
  BY DEF IssueBatch, IInv, MutualExclusion, LockedPcs
<1>2. pc[c] = "issue"
  BY DEF IssueBatch
<1>3. BatchItems(c) \in Seq(ItemIds)
  BY AppendProperties DEF BatchItems, IInv, TypeOK, CallShape
<1>4. TypeOK'
  <2>1. sent' \in Seq(ItemIds)
    BY <1>3, ConcatProperties DEF IssueBatch, IInv, TypeOK
  <2>2. schedLog' \in Seq(ItemIds)
    BY AppendProperties DEF IssueBatch, IInv, TypeOK, CallShape
  <2>3. QED
    BY <1>3, <2>1, <2>2, EmptySeq DEF IssueBatch, IInv, TypeOK
<1>5. ScheduleOrderKept'
  <2>1. CASE op[c] = "ScheduleAndFlush"
    <3>1. item[c] \in ItemIds
      BY <2>1 DEF IInv, CallShape
    <3>2. Append(schedLog, item[c]) = sent \o Append(scheduled, item[c])
      <4>1. sent \in Seq(ItemIds) /\ scheduled \in Seq(ItemIds)
        BY DEF IInv, TypeOK
      <4>2. Append(sent \o scheduled, item[c]) = sent \o Append(scheduled, item[c])
        BY <3>1, <4>1, ItemLogAppend
      <4>3. QED
        BY <4>2 DEF IInv, ScheduleOrderKept
    <3>3. QED
      BY <2>1, <1>3, <3>2, ConcatEmptySeq, ConcatProperties
         DEF IssueBatch, BatchItems, IInv, TypeOK, ScheduleOrderKept
  <2>2. CASE op[c] # "ScheduleAndFlush"
    BY <2>2, ConcatEmptySeq, ConcatProperties
       DEF IssueBatch, BatchItems, IInv, TypeOK, ScheduleOrderKept
  <2>3. QED
    BY <2>1, <2>2
<1>6. OwnLast'
  <2> SUFFICES ASSUME NEW d \in Callers, pc'[d] = "batch",
                      op'[d] = "ScheduleAndFlush"
               PROVE  /\ inflight'[d] # <<>>
                      /\ inflight'[d][Len(inflight'[d])] = item'[d]
    BY DEF OwnLast
  <2>1. CASE d = c
    <3>1. item[c] \in ItemIds /\ scheduled \in Seq(ItemIds)
      BY <2>1 DEF IssueBatch, IInv, TypeOK, CallShape
    <3>2. inflight'[c] = Append(scheduled, item[c])
      BY <2>1 DEF IssueBatch, BatchItems, IInv, TypeOK
    <3>3. QED
      BY <2>1, <3>1, <3>2, AppendProperties DEF IssueBatch
  <2>2. CASE d # c
    BY <2>2, <1>1 DEF IssueBatch, IInv, TypeOK, LockedPcs
  <2>3. QED
    BY <2>1, <2>2
<1>7. QED
  BY <1>1, <1>2, <1>4, <1>5, <1>6
     DEF IssueBatch, IInv, TypeOK, MutualExclusion, SnapFresh, CallShape,
         AnswerToOwnItem, LockedPcs

LEMMA BatchFailIInv ==
  ASSUME NEW c \in Callers, IInv, BatchFail(c) PROVE IInv'
<1>1. \A d \in Callers : pc[d] \in LockedPcs => d = c
  BY DEF BatchFail, IInv, MutualExclusion, LockedPcs
<1>2. TypeOK'
  BY EmptySeq DEF BatchFail, Return, IInv, TypeOK, Returns
<1>3. QED
  BY <1>1, <1>2 DEF BatchFail, Return, IInv, TypeOK, MutualExclusion,
                    SnapFresh, CallShape, OwnLast, ScheduleOrderKept,
                    AnswerToOwnItem, LockedPcs

LEMMA BatchAnswerIInv ==
  ASSUME NEW c \in Callers, NEW k \in 0..Len(inflight[c]), IInv,
         BatchAnswer(c, k)
  PROVE  IInv'
<1>1. \A d \in Callers : pc[d] \in LockedPcs => d = c
  BY DEF BatchAnswer, IInv, MutualExclusion, LockedPcs
<1>2. pc[c] = "batch" /\ got[c] = 0
  BY DEF BatchAnswer, IInv, CallShape
<1>3. CASE op[c] = "ScheduleAndFlush" /\ k = 0
  \* "missing batch responses": nothing but the return changes.
  <2>1. /\ holder' = NoCaller
        /\ pc' = [pc EXCEPT ![c] = "idle"]
        /\ ret' = [ret EXCEPT ![c] = "missing"]
        /\ inflight' = [inflight EXCEPT ![c] = <<>>]
        /\ UNCHANGED <<scheduled, op, item, snap, calls, schedLog, sent, got,
                       full>>
    BY <1>3 DEF BatchAnswer, Return
  <2>2. TypeOK'
    BY <2>1, EmptySeq DEF IInv, TypeOK, Returns
  <2>3. QED
    BY <1>1, <2>1, <2>2
       DEF IInv, TypeOK, MutualExclusion, SnapFresh, CallShape, OwnLast,
           ScheduleOrderKept, AnswerToOwnItem, LockedPcs
<1>4. CASE ~(op[c] = "ScheduleAndFlush" /\ k = 0)
  <2>1. /\ got' = IF op[c] = "ScheduleAndFlush"
                   THEN [got EXCEPT ![c] = inflight[c][k]] ELSE got
        /\ full' = [full EXCEPT ![c] = (k = Len(inflight[c]))]
        /\ holder' = NoCaller
        /\ pc' = [pc EXCEPT ![c] = "idle"]
        /\ ret' = [ret EXCEPT ![c] = "ok"]
        /\ inflight' = [inflight EXCEPT ![c] = <<>>]
        /\ UNCHANGED <<scheduled, op, item, snap, calls, schedLog, sent>>
    BY <1>4 DEF BatchAnswer, Return
  <2>2. op[c] = "ScheduleAndFlush" => inflight[c][k] \in ItemIds
    <3>1. inflight[c] \in Seq(ItemIds)
      BY DEF IInv, TypeOK
    <3>2. QED
      BY <1>4, <3>1, ElementOfSeq
  <2>3. TypeOK'
    <3>1. got' \in [Callers -> 0..MaxCalls]
      <4>1. got \in [Callers -> 0..MaxCalls]
        BY DEF IInv, TypeOK
      <4>2. CASE op[c] = "ScheduleAndFlush"
        <5>1. inflight[c][k] \in 0..MaxCalls
          BY <2>2, <4>2 DEF ItemIds
        <5>2. QED
          BY <2>1, <4>1, <4>2, <5>1
      <4>3. CASE op[c] # "ScheduleAndFlush"
        BY <2>1, <4>1, <4>3
      <4>4. QED
        BY <4>2, <4>3
    <3>2. QED
      BY <2>1, <3>1, EmptySeq DEF IInv, TypeOK, Returns
  <2>4. AnswerToOwnItem'
    <3> SUFFICES ASSUME NEW d \in Callers, got'[d] # 0, full'[d]
                 PROVE  got'[d] = item'[d]
      BY DEF AnswerToOwnItem
    <3>1. CASE d = c /\ op[c] = "ScheduleAndFlush"
      <4>1. k = Len(inflight[c])
        BY <2>1, <3>1 DEF IInv, TypeOK
      <4>2. inflight[c][Len(inflight[c])] = item[c]
        BY <1>2, <3>1 DEF IInv, OwnLast
      <4>3. QED
        BY <2>1, <3>1, <4>1, <4>2 DEF IInv, TypeOK
    <3>2. CASE d = c /\ op[c] # "ScheduleAndFlush"
      BY <1>2, <2>1, <3>2 DEF IInv, TypeOK
    <3>3. CASE d # c
      BY <2>1, <3>3 DEF IInv, TypeOK, AnswerToOwnItem
    <3>4. QED
      BY <3>1, <3>2, <3>3
  <2>5. CallShape'
    BY <2>1 DEF IInv, TypeOK, CallShape
  <2>6. QED
    BY <1>1, <2>1, <2>3, <2>4, <2>5
       DEF IInv, TypeOK, MutualExclusion, SnapFresh, OwnLast,
           ScheduleOrderKept, LockedPcs
<1>5. QED
  BY <1>3, <1>4

LEMMA StutterIInv == IInv /\ UNCHANGED vars => IInv'
  BY DEF IInv, vars, TypeOK, MutualExclusion, SnapFresh, CallShape, OwnLast,
         ScheduleOrderKept, AnswerToOwnItem

LEMMA NextIInv == IInv /\ [Next]_vars => IInv'
<1> SUFFICES ASSUME IInv, [Next]_vars PROVE IInv'
  OBVIOUS
<1>1. ASSUME NEW c \in Callers, Step(c) PROVE IInv'
  <2>1. CASE \E o \in Ops : Call(c, o)
    BY <2>1, CallIInv
  <2>2. CASE Lock(c)
    BY <2>2, LockIInv
  <2>3. CASE ScheduleRead(c)
    BY <2>3, ScheduleReadIInv
  <2>4. CASE ScheduleWrite(c)
    BY <2>4, ScheduleWriteIInv
  <2>5. CASE IssueEmpty(c)
    BY <2>5, IssueEmptyIInv
  <2>6. CASE IssueBatch(c)
    BY <2>6, IssueBatchIInv
  <2>7. CASE BatchFail(c)
    BY <2>7, BatchFailIInv
  <2>8. CASE \E k \in 0..Len(inflight[c]) : BatchAnswer(c, k)
    BY <2>8, BatchAnswerIInv
  <2>9. QED
    BY <1>1, <2>1, <2>2, <2>3, <2>4, <2>5, <2>6, <2>7, <2>8 DEF Step
<1>2. CASE UNCHANGED vars
  BY <1>2, StutterIInv
<1>3. QED
  BY <1>1, <1>2 DEF Next

-----------------------------------------------------------------------------
(***************************************************************************)
(* IInv holds in every state of every behaviour of Spec.                   *)
(***************************************************************************)
THEOREM AggregatorIInvariant == Spec => []IInv
BY InitIInv, NextIInv, PTL DEF Spec

(***************************************************************************)
(* Type correctness of the aggregator's state for every number of          *)
(* goroutines and calls.                                                   *)
(***************************************************************************)
THEOREM AggregatorTypeCorrect == Spec => []TypeOK
<1>1. IInv => TypeOK
  BY DEF IInv
<1>2. QED
  BY <1>1, AggregatorIInvariant, PTL

(***************************************************************************)
(* However many goroutines call Schedule, ScheduleAndFlush and Flush       *)
(* concurrently, a.mu makes every item reach batcher.Batch exactly once    *)
(* and in the order the calls appended it, or wait in a.scheduled.        *)
(***************************************************************************)
THEOREM ScheduleOrderKeptHolds == Spec => []ScheduleOrderKept
<1>1. IInv => ScheduleOrderKept
  BY DEF IInv
<1>2. QED
  BY <1>1, AggregatorIInvariant, PTL

(***************************************************************************)
(* A ScheduleAndFlush whose batch the batcher answered in full returns the *)
(* response to its own item, for every interleaving of other goroutines'   *)
(* Schedule calls ahead of it.                                             *)
(***************************************************************************)
THEOREM AnswerToOwnItemHolds == Spec => []AnswerToOwnItem
<1>1. IInv => AnswerToOwnItem
  BY DEF IInv
<1>2. QED
  BY <1>1, AggregatorIInvariant, PTL

(***************************************************************************)
(* While a goroutine waits for batcher.Batch it holds a.mu, so no other    *)
(* goroutine gets to write a.scheduled, and the waiting one does not.      *)
(***************************************************************************)
LEMMA BatchExcludesWrites ==
  IInv /\ [Next]_vars =>
    ((\E c \in Callers : pc[c] = "batch") => scheduled' = scheduled)
<1> SUFFICES ASSUME IInv, [Next]_vars, NEW b \in Callers, pc[b] = "batch"
             PROVE  scheduled' = scheduled
  OBVIOUS
<1>1. holder = b
  BY DEF IInv, MutualExclusion, LockedPcs
<1>2. CASE UNCHANGED vars
  BY <1>2 DEF vars
<1>3. CASE Next
  <2>0. PICK c \in Callers : Step(c)
    BY <1>3 DEF Next
  <2>1. CASE \E o \in Ops : Call(c, o)
    BY <2>1 DEF Call
  <2>2. CASE Lock(c)
    BY <1>1, <2>2, NoCallerAssumption DEF Lock
  <2>3. CASE ScheduleRead(c) \/ IssueEmpty(c) \/ BatchFail(c)
    BY <2>3 DEF ScheduleRead, IssueEmpty, BatchFail
  <2>4. CASE ScheduleWrite(c) \/ IssueBatch(c)
    <3>1. pc[c] \in {"write", "issue"}
      BY <2>4 DEF ScheduleWrite, IssueBatch
    <3>2. holder = c
      BY <3>1 DEF IInv, MutualExclusion, LockedPcs
    <3>3. QED
      BY <1>1, <3>1, <3>2
  <2>5. CASE \E k \in 0..Len(inflight[c]) : BatchAnswer(c, k)
    <3>1. PICK k \in 0..Len(inflight[c]) : BatchAnswer(c, k)
      BY <2>5
    <3>2. QED
      BY <3>1, Zenon DEF BatchAnswer
  <2>6. QED
    BY <2>0, <2>1, <2>2, <2>3, <2>4, <2>5 DEF Step
<1>4. QED
  BY <1>2, <1>3

(***************************************************************************)
(* For every number of goroutines and calls, a.scheduled, whose backing    *)
(* array the items being sent share, is never written while               *)
(* batcher.Batch is sending them.                                         *)
(***************************************************************************)
THEOREM BatchItemsUntouchedHolds == Spec => BatchItemsUntouched
<1>1. []IInv /\ [][Next]_vars => BatchItemsUntouched
  BY BatchExcludesWrites, PTL DEF BatchItemsUntouched
<1>2. QED
  BY <1>1, AggregatorIInvariant, PTL DEF Spec

=============================================================================
