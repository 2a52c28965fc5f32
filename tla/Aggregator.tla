----------------------------- MODULE Aggregator -----------------------------
(***************************************************************************)
(* The batch aggregator of                                                 *)
(* src/private/storage/streams/batchaggregator/aggregator.go.             *)
(*                                                                         *)
(* Goroutines (Callers) call Schedule, ScheduleAndFlush and Flush on one   *)
(* Aggregator.  Each method takes a.mu and releases it by a deferred       *)
(* Unlock, so a call is: wait for the mutex, run its body, and, for the    *)
(* flushing methods, wait for batcher.Batch while still holding it.        *)
(* Schedule's append is a read of a.scheduled and a write of it, kept as   *)
(* two steps so that the lock is what makes it atomic.                     *)
(*                                                                         *)
(* A batch item is a number: the index of the call that scheduled it.     *)
(* The batcher (metaclient.Batcher, outside this repository) answers a     *)
(* batch with an error or with responses; its response i answers item i,   *)
(* and ScheduleAndFlush's check for an empty answer (line 52) shows the    *)
(* code allows it to answer fewer items than it was given, so any prefix   *)
(* of the batch may be answered.                                           *)
(***************************************************************************)
EXTENDS Naturals, Sequences

CONSTANTS
  Callers,    \* the goroutines calling the aggregator
  MaxCalls,   \* bound on the number of calls over a behaviour
  NoCaller    \* the mutex's holder when it is free

ASSUME MaxCallsAssumption == MaxCalls \in Nat \ {0}
ASSUME NoCallerAssumption == NoCaller \notin Callers

VARIABLES
  scheduled,  \* a.scheduled
  holder,     \* the goroutine holding a.mu, or NoCaller
  pc,         \* where each goroutine is in its current call
  op,         \* the method each goroutine is in (or last was in)
  item,       \* the batch item passed to that call (0 for Flush)
  snap,       \* Schedule's read of a.scheduled, before its write
  inflight,   \* batchItems handed to batcher.Batch by a flushing call
  calls,      \* number of calls made so far
  ret,        \* what each goroutine's last call returned
  got,        \* the item whose response ScheduleAndFlush returned, or 0
  full,       \* whether that call's batch was answered for every item
  schedLog,   \* history: items in the order they entered a.scheduled
  sent        \* history: every batch handed to Batch, concatenated

vars == <<scheduled, holder, pc, op, item, snap, inflight, calls, ret, got,
          full, schedLog, sent>>

ItemIds == 1..MaxCalls
Ops == {"Schedule", "ScheduleAndFlush", "Flush"}
Returns == {"none", "ok", "error", "missing"}

Init ==
  /\ scheduled = <<>>
  /\ holder = NoCaller
  /\ pc = [c \in Callers |-> "idle"]
  /\ op = [c \in Callers |-> "Flush"]
  /\ item = [c \in Callers |-> 0]
  /\ snap = [c \in Callers |-> <<>>]
  /\ inflight = [c \in Callers |-> <<>>]
  /\ calls = 0
  /\ ret = [c \in Callers |-> "none"]
  /\ got = [c \in Callers |-> 0]
  /\ full = [c \in Callers |-> FALSE]
  /\ schedLog = <<>>
  /\ sent = <<>>

\* Returning from a call releases a.mu (the deferred Unlock).
Return(c, r) ==
  /\ holder' = NoCaller
  /\ pc' = [pc EXCEPT ![c] = "idle"]
  /\ ret' = [ret EXCEPT ![c] = r]

(***************************************************************************)
(* A goroutine calls a method; Schedule and ScheduleAndFlush bring a new  *)
(* batch item.                                                             *)
(***************************************************************************)
Call(c, o) ==
  /\ pc[c] = "idle"
  /\ calls < MaxCalls
  /\ calls' = calls + 1
  /\ op' = [op EXCEPT ![c] = o]
  /\ item' = [item EXCEPT ![c] = IF o = "Flush" THEN 0 ELSE calls + 1]
  /\ got' = [got EXCEPT ![c] = 0]
  /\ full' = [full EXCEPT ![c] = FALSE]
  /\ pc' = [pc EXCEPT ![c] = "lock"]
  /\ UNCHANGED <<scheduled, holder, snap, inflight, ret, schedLog, sent>>

(***************************************************************************)
(* A Schedule that skips a.mu: its append races with other goroutines.    *)
(***************************************************************************)
LockSkippedBySchedule(c) ==
  /\ pc[c] = "lock"
  /\ IF op[c] = "Schedule"
       THEN /\ pc' = [pc EXCEPT ![c] = "read"]
            /\ UNCHANGED holder
       ELSE /\ holder = NoCaller
            /\ holder' = c
            /\ pc' = [pc EXCEPT ![c] = "issue"]
  /\ UNCHANGED <<scheduled, op, item, snap, inflight, calls, ret, got, full,
                 schedLog, sent>>

\* a.mu.Lock() at lines 33, 43 and 60.
Lock(c) ==
  /\ pc[c] = "lock"
  /\ holder = NoCaller
  /\ holder' = c
  /\ pc' = [pc EXCEPT ![c] = IF op[c] = "Schedule" THEN "read" ELSE "issue"]
  /\ UNCHANGED <<scheduled, op, item, snap, inflight, calls, ret, got, full,
                 schedLog, sent>>

\* Schedule, line 36: the read of a.scheduled by append.
ScheduleRead(c) ==
  /\ pc[c] = "read"
  /\ snap' = [snap EXCEPT ![c] = scheduled]
  /\ pc' = [pc EXCEPT ![c] = "write"]
  /\ UNCHANGED <<scheduled, holder, op, item, inflight, calls, ret, got, full,
                 schedLog, sent>>

\* Schedule, line 36: the write of the appended slice; Schedule returns.
ScheduleWrite(c) ==
  /\ pc[c] = "write"
  /\ scheduled' = Append(snap[c], item[c])
  /\ schedLog' = Append(schedLog, item[c])
  /\ Return(c, "ok")
  /\ UNCHANGED <<op, item, snap, inflight, calls, got, full, sent>>

(***************************************************************************)
(* ScheduleAndFlush's append (line 46) and issueBatchLocked (lines 67-73): *)
(* take the scheduled items and reset a.scheduled.  Nothing to issue is    *)
(* only possible for Flush, which then returns nil.                        *)
(***************************************************************************)
\* A Flush written as a ScheduleAndFlush of no item: it issues a nil item.
BatchItemsWithFlushItem(c) ==
  IF op[c] = "Schedule" THEN scheduled ELSE Append(scheduled, item[c])

BatchItems(c) ==
  IF op[c] = "ScheduleAndFlush" THEN Append(scheduled, item[c]) ELSE scheduled

\* An early return in Flush that skips the unlock (no deferred Unlock).
IssueEmptyKeepsLock(c) ==
  /\ pc[c] = "issue"
  /\ BatchItems(c) = <<>>
  /\ pc' = [pc EXCEPT ![c] = "idle"]
  /\ ret' = [ret EXCEPT ![c] = "ok"]
  /\ UNCHANGED <<scheduled, holder, op, item, snap, inflight, calls, got, full,
                 schedLog, sent>>

IssueEmpty(c) ==
  /\ pc[c] = "issue"
  /\ BatchItems(c) = <<>>
  /\ Return(c, "ok")
  /\ UNCHANGED <<scheduled, op, item, snap, inflight, calls, got, full,
                 schedLog, sent>>

\* a.mu released before batcher.Batch is called.
IssueBatchUnlocked(c) ==
  /\ pc[c] = "issue"
  /\ BatchItems(c) # <<>>
  /\ scheduled' = <<>>
  /\ schedLog' = IF op[c] = "ScheduleAndFlush" THEN Append(schedLog, item[c])
                                               ELSE schedLog
  /\ inflight' = [inflight EXCEPT ![c] = BatchItems(c)]
  /\ sent' = sent \o BatchItems(c)
  /\ pc' = [pc EXCEPT ![c] = "batch"]
  /\ holder' = NoCaller
  /\ UNCHANGED <<op, item, snap, calls, ret, got, full>>

\* issueBatchLocked, line 75: call batcher.Batch with the items, holding a.mu.
IssueBatch(c) ==
  /\ pc[c] = "issue"
  /\ BatchItems(c) # <<>>
  /\ scheduled' = <<>>
  /\ schedLog' = IF op[c] = "ScheduleAndFlush" THEN Append(schedLog, item[c])
                                               ELSE schedLog
  /\ inflight' = [inflight EXCEPT ![c] = BatchItems(c)]
  /\ sent' = sent \o BatchItems(c)
  /\ pc' = [pc EXCEPT ![c] = "batch"]
  /\ UNCHANGED <<holder, op, item, snap, calls, ret, got, full>>

\* Batch fails (line 49 for ScheduleAndFlush, line 64 for Flush).
BatchFail(c) ==
  /\ pc[c] = "batch"
  /\ inflight' = [inflight EXCEPT ![c] = <<>>]
  /\ Return(c, "error")
  /\ UNCHANGED <<scheduled, op, item, snap, calls, got, full, schedLog, sent>>

(***************************************************************************)
(* Batch answers the first k items.  Flush discards the responses;         *)
(* ScheduleAndFlush reports "missing batch responses" when there are none  *)
(* and otherwise returns the last one (lines 52-55).                       *)
(***************************************************************************)
BatchAnswerFirst(c, k) ==
  /\ pc[c] = "batch"
  /\ inflight' = [inflight EXCEPT ![c] = <<>>]
  /\ IF op[c] = "ScheduleAndFlush" /\ k = 0
       THEN /\ Return(c, "missing")
            /\ UNCHANGED <<got, full>>
       ELSE /\ Return(c, "ok")
            /\ got' = IF op[c] = "ScheduleAndFlush"
                        THEN [got EXCEPT ![c] = inflight[c][1]] ELSE got
            /\ full' = [full EXCEPT ![c] = (k = Len(inflight[c]))]
  /\ UNCHANGED <<scheduled, op, item, snap, calls, schedLog, sent>>

BatchAnswer(c, k) ==
  /\ pc[c] = "batch"
  /\ inflight' = [inflight EXCEPT ![c] = <<>>]
  /\ IF op[c] = "ScheduleAndFlush" /\ k = 0
       THEN /\ Return(c, "missing")
            /\ UNCHANGED <<got, full>>
       ELSE /\ Return(c, "ok")
            /\ got' = IF op[c] = "ScheduleAndFlush"
                        THEN [got EXCEPT ![c] = inflight[c][k]] ELSE got
            /\ full' = [full EXCEPT ![c] = (k = Len(inflight[c]))]
  /\ UNCHANGED <<scheduled, op, item, snap, calls, schedLog, sent>>

Step(c) ==
  \/ \E o \in Ops : Call(c, o)
  \/ Lock(c)
  \/ ScheduleRead(c)
  \/ ScheduleWrite(c)
  \/ IssueEmpty(c)
  \/ IssueBatch(c)
  \/ BatchFail(c)
  \/ \E k \in 0..Len(inflight[c]) : BatchAnswer(c, k)

Next == \E c \in Callers : Step(c)

(***************************************************************************)
(* Fairness.  A goroutine that made a call keeps running it: the Go        *)
(* scheduler runs it (weak fairness of its body steps), batcher.Batch      *)
(* returns (weak fairness of its answer or failure), and sync.Mutex hands  *)
(* the lock to a waiter that keeps asking for it (its starvation mode),    *)
(* which is strong fairness of Lock.  Making calls is not fair: a          *)
(* goroutine may stop calling.                                             *)
(***************************************************************************)
Fairness ==
  \A c \in Callers :
    /\ SF_vars(Lock(c))
    /\ WF_vars(ScheduleRead(c) \/ ScheduleWrite(c))
    /\ WF_vars(IssueEmpty(c) \/ IssueBatch(c))
    /\ WF_vars(BatchFail(c) \/ \E k \in 0..Len(inflight[c]) : BatchAnswer(c, k))

Spec == Init /\ [][Next]_vars /\ Fairness

-----------------------------------------------------------------------------
TypeOK ==
  /\ scheduled \in Seq(ItemIds)
  /\ holder \in Callers \cup {NoCaller}
  /\ pc \in [Callers -> {"idle", "lock", "read", "write", "issue", "batch"}]
  /\ op \in [Callers -> Ops]
  /\ item \in [Callers -> 0..MaxCalls]
  /\ snap \in [Callers -> Seq(ItemIds)]
  /\ inflight \in [Callers -> Seq(ItemIds)]
  /\ calls \in 0..MaxCalls
  /\ ret \in [Callers -> Returns]
  /\ got \in [Callers -> 0..MaxCalls]
  /\ full \in [Callers -> BOOLEAN]
  /\ schedLog \in Seq(ItemIds)
  /\ sent \in Seq(ItemIds)

(***************************************************************************)
(* Items are issued once and in order: every item Schedule or              *)
(* ScheduleAndFlush handed to the aggregator has been passed to            *)
(* batcher.Batch exactly once, in the order the calls appended it, or is   *)
(* still waiting in a.scheduled for the next flush.  Concurrent Schedule,  *)
(* Flush and ScheduleAndFlush calls must neither lose an append nor issue  *)
(* an item twice, and a failed batch is not re-queued.                     *)
(***************************************************************************)
ScheduleOrderKept == schedLog = sent \o scheduled

(***************************************************************************)
(* When the batcher answered every item of the batch, ScheduleAndFlush     *)
(* returns the response to the item passed with that call, even when      *)
(* items of other goroutines' Schedule calls were issued in the same      *)
(* batch ahead of it.                                                      *)
(***************************************************************************)
AnswerToOwnItem == \A c \in Callers : got[c] # 0 /\ full[c] => got[c] = item[c]

(***************************************************************************)
(* a.scheduled is not written while batcher.Batch is sending a batch:      *)
(* issueBatchLocked resets it to a.scheduled[:0] (line 69), which shares   *)
(* its backing array with the items handed to Batch, so an append during  *)
(* the call would overwrite an item being sent.  Holding a.mu across Batch *)
(* (line 75) is what keeps every other Schedule, ScheduleAndFlush and      *)
(* Flush out.                                                              *)
(***************************************************************************)
BatchItemsUntouched ==
  [][(\E c \in Callers : pc[c] = "batch") => scheduled' = scheduled]_vars

(***************************************************************************)
(* Every call returns: a goroutine waiting for a.mu, or for batcher.Batch  *)
(* while holding it, eventually gets out of the aggregator.                *)
(***************************************************************************)
CallsReturn == \A c \in Callers : pc[c] # "idle" ~> pc[c] = "idle"

(***************************************************************************)
(* The doc comment of ScheduleAndFlush (lines 39-41): it returns the       *)
(* response to the batch item scheduled with the call, whatever the        *)
(* batcher answered.                                                       *)
(***************************************************************************)
OwnResponse == \A c \in Callers : got[c] # 0 => got[c] = item[c]

=============================================================================
