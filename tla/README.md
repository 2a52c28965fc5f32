# TLA+ models of the satellite core (uplink)

This directory holds the TLA+ specifications of the satellite's supervisor,
`src/satellite/core.go`. It contains the models, the TLC configurations that
check them, and the TLAPS proofs about them. `PROJECT.json` lists the
components, the runs, the mutants that show each property can catch a bug, the
line map from every definition to the code, the findings and the hazards.

## 1. The system

`core.go` builds, runs and tears down the satellite's subsystems: the overlay and
contact services, metainfo with its loop, the checker and repairer, audit,
garbage collection, accounting tally and rollup, payments, graceful exit,
metrics and downtime tracking.

* **`New`** (lines 126-366) fills the `Core` struct's fields in 17 setup blocks,
  in a fixed order. Each constructor receives fields that earlier blocks
  assigned. Three steps can fail:
  * `tlsopts.NewOptions` (147)
  * `versionInfo.Proto` (156)
  * `audit.NewWorker` (270)

  Each failure returns `errs.Combine(err, peer.Close())`, so a partial `Core`
  is torn down by the same `Close` as a full one.
* **`Run`** (370-423) starts an `errgroup.WithContext` and launches 12-14
  long-running tasks. Graceful exit and the payments chore are launched only if
  their field is non-nil. Each task's error goes through
  `errs2.IgnoreCanceled`. The first non-nil error cancels the group context.
  `group.Wait` joins every task and returns that first error.
* **`Close`** (426-481) calls `Close` on the closable subsystems in a fixed
  order: dependants first, then the metainfo loop, overlay and contact last.
  Every call is guarded by a nil check. The errors are aggregated in an
  `errs.Group`, so one failing `Close` never stops the rest.

The three interact:

* `Run` only launches what `New` built.
* `Close` must release exactly what `New` built, whether `New` finished or
  failed partway.
* An owner normally calls `Close` after `Run` returns, but nothing in the code
  enforces this order. The spec's lifecycle also allows `running → closed`, so
  `CoreLifecycle` lets the owner call `Close` while `Run` still runs.

`src/private/storage/streams/batchaggregator/aggregator.go` is a separate,
mutex-protected batcher:

* `Schedule` appends an item to `a.scheduled` under the mutex.
* `ScheduleAndFlush` appends its item and then issues the whole list as one
  batch.
* `Flush` issues what is scheduled.
* `issueBatchLocked` clears the list and calls the batcher while still holding
  the lock. It returns the last response of the batch, or an error when the
  batcher fails or answers nothing.

## 2. Modules

| Module | Models | State | Actions |
|---|---|---|---|
| `CoreRun` | `Run` and the errgroup (`core.go` 369-423) | `present` (non-nil slots), `runPc`, `next`, `task[s]`, `parentCanceled`, `groupCanceled`, `groupErr` (errOnce), `result`. History variable: `failures` | `RunStart`, `Launch` (one `group.Go`), `TaskExit(s, outcome)` (goroutine returns, wrapper records first error, cancels), `WaitReturn` (`group.Wait`), `ParentCancel` |
| `MC_CoreRun` | four slots: loop, checker, tally and graceful exit (the optional one) | | |
| `CoreLifecycle` | `New`, `Run`'s nil guards, `Close` (`core.go` 126-481) | `phase`, `run`, `blk`, `config`, `built`, `refs` (what each constructor captured), `launched`, `runResult`, `closer`, `closePc`, `closeErr`, `coreCloses`, `closeCalls[c]` | `Build`, `BuildFails` (the three failing blocks, with audit's partial assignment), `RunStart`, `RunReturn`, `CloseCall`, `CloseStep`, `CloseReturn` |
| `RunContract` | what `Run` promises its caller (abstract) | `phase`, `present`, `exited`, `failures`, `result` | `Start`, `Exit(s, failed)`, `Return` |
| `CoreRun_proofs` | TLAPS proofs about `CoreRun`, including its refinement of `RunContract` | | |
| `Aggregator` | `Aggregator` (`aggregator.go` 16-76) with concurrent callers | `scheduled`, `holder` (the mutex), per caller `pc`, `op`, `item`, `snap` (Schedule's read of `a.scheduled`), `inflight` (the batch passed to the batcher), `ret`, `got`, `full`. History variables: `calls`, `schedLog`, `sent` | `Call(c, op)`, `Lock`, `ScheduleRead`/`ScheduleWrite` (the two halves of the append), `IssueEmpty`, `IssueBatch`, `BatchFail`, `BatchAnswer(c, k)` (the batcher answers k items) |
| `Aggregator_proofs` | TLAPS proofs about `Aggregator` | | |
| `CoreLifecycle_proofs` | TLAPS proofs about `CoreLifecycle` | | |

How the models abstract the code:

* **Data.** Errors are slot names (the slot that produced them) or `NoErr`.
  Configurations are `[gracefulExit: BOOLEAN, provider: {mock, stripecoinpayments}]`,
  the two settings that decide which fields exist.
* **Construction.** A constructor is the set of fields it reads (`Reads`), so
  the model records whether a field was still nil when it was captured.
* **Outcomes.** A task's exit is one of nil, error or canceled. A subsystem's
  `Close` succeeds or fails.
* **Control.** The control of the code is kept whole: the order of blocks, of
  launches and of closes, each nil guard, and each early return.

## 3. Properties and runs

| Run | cfg | Checks | Result |
|---|---|---|---|
| `corerun_safety_liveness` | `MC_CoreRun.cfg` | `TypeOK`, `RunOutcome` (Run returns only after all populated tasks return, with the first failure), `CancelOnlyOnFailure` (the group context is cancelled only by a failure or by Wait's return), `ShutdownCompletes` (a parent cancel or a failure leads to Run returning), `RunContractSpec` (`CoreRun` implements `RunContract`; among other things, a task that has exited never runs again) | pass, 786 states |
| `corerun_second_failure_lost` | `MC_CoreRun_FailuresNotLost.cfg` | every failure is the returned error | violated: the second failure is dropped |
| `lifecycle_teardown` | `MC_CoreLifecycle.cfg` (the owner may call `Close` before, during or after `Run`) | `TypeOK`, `NoNilUse` (Run and Close touch only built fields), `TeardownComplete` (every built closable is closed once per Close, even after a failing Close), `DependentsClosedFirst` (closed after everything that transitively uses it) | pass, 2,292 states |
| `lifecycle_construction_order` | `..._ConstructionReadsBuilt.cfg` | every constructor captured built fields only | violated: contact gets a nil overlay (line 171) |
| `lifecycle_subsystems_released` | `..._SubsystemsReleased.cfg` | every built subsystem that Run runs is closed by teardown | violated: Version, GC and the payments chore are never closed |
| `lifecycle_close_during_run` | `..._ReleasedNotInUse.cfg` | no subsystem whose task still runs uses a component Close has released | violated: Close releases the metainfo loop while the garbage-collection task still runs |
| `aggregator_concurrent_calls` | `MC_Aggregator.cfg` | `TypeOK`, `ScheduleOrderKept` (the items scheduled, in append order, are exactly the items issued followed by `a.scheduled`), `AnswerToOwnItem` (a fully answered `ScheduleAndFlush` returns its own item's response), `CallsReturn` (every call returns), `BatchItemsUntouched` (no step writes `a.scheduled` while a caller waits for `batcher.Batch`) | pass, 32,409 states |
| `aggregator_short_answer` | `MC_Aggregator_OwnResponse.cfg` | `ScheduleAndFlush` returns the response to its own item, as its comment promises | violated: when the batcher answers fewer items than it was given, the last response belongs to another goroutine's item |
| `lifecycle_double_close` | `..._CloseReleasesOnce.cfg` (`MaxCloses = 2`) | no subsystem is closed twice | violated: a second `Close` releases everything again |

The findings in `PROJECT.json` describe each violation and where it is in the
code.

Each property of a passing run has a mutant. A mutant is a plausible bug in the
mapped definition that TLC then catches:

* `TaskExit` without errOnce, without cancel, or cancelling on every exit;
* the run guard without the graceful-exit check;
* `RunReturn` returning an unfiltered error;
* `Close` aborting at the first failure;
* the metainfo loop closed early;
* a launch without the nil check (breaks the refinement);
* a launch that does not advance to the next `group.Go` (relaunches a task);
* the aggregator's batch including a `Flush`'s item, the mutex skipped by
  `Schedule`, the batcher's first response returned instead of the last, and an
  empty flush that keeps the lock.

### Bounds

* **`MC_CoreRun`.** Four slots, one of them optional. This covers each pair of
  tasks failing in either order, a failure during launch (tasks launched after
  the group is cancelled), a parent cancel at every point, and an absent
  optional task. More slots would only repeat these shapes.
* **`CoreLifecycle`.** Runs on the real data of `core.go`: 28 fields, 17 blocks
  and both configuration switches. `MaxCloses = 1` covers every construction
  failure and every Close failure. `MaxCloses = 2` is used only for the double
  close.
* **`MC_Aggregator`.** Two callers and four calls in all. This covers:
  * two `Schedule`s interleaving their read and write;
  * a `ScheduleAndFlush` that flushes another caller's items;
  * a `Flush` with nothing scheduled;
  * the batcher failing or answering any prefix of a batch.

  Three callers reach the same shapes but take almost three minutes.
* **Dependency closure.** `DependsOn` is the transitive closure of the
  captured-reference graph. It is computed as five compositions of `Compose`,
  each of which doubles the path length covered. Since 2^5 = 32 ≥ 28 fields,
  this reaches every path. The compositions are written out, not recursive, so
  that TLAPS can reason about them.

### Fairness

`CoreRun` assumes weak fairness of three steps:

* `Launch` and `WaitReturn`: Run's own goroutine keeps running.
* `TaskExit(s, "canceled")` once the context is done: every subsystem's
  `Run(ctx)` returns when its context is cancelled. This is the contract of
  every task launched at lines 375-420, and `ShutdownCompletes` depends on it.

No fairness is assumed for a task failing or for a parent cancel.

`CoreLifecycle` checks safety only and has no fairness.

`Aggregator` assumes:

* strong fairness of `Lock`. Go's `sync.Mutex` switches to starvation mode, so
  a goroutine that keeps asking eventually gets the lock.
* weak fairness of the steps a lock holder takes, and of the batcher returning
  (failing or answering). `CallsReturn` depends on the batcher returning.

Its runs set `CHECK_DEADLOCK FALSE`. The aggregator is a library object, and
its callers may stop making calls at any time.

## 4. What is proved

`CoreRun_proofs` proves these theorems with TLAPS:

* `TypeCorrect`: `Spec => []TypeOK`.
* `RunOutcomeCorrect`: `Spec => []RunOutcome`.
* `IInvariant`: `Spec => []IInv`, the inductive invariant the other two rest on.
* `CancelOnlyOnFailureHolds`: `Spec => []CancelOnlyOnFailure`. This needs only
  `TypeOK` from `IInv`. The group context is cancelled only by a `TaskExit`
  carrying a genuine error, which appends to the failure history, or by
  `WaitReturn`. The history never shrinks, and Run never leaves `returned`.

It also proves `RunRefinesContract`: `Spec => RunContractSpec`, where
`RunContractSpec` is `RunContract!Spec` under the mapping `RunPhase`/`Exited`.
The proof has two parts:

* `InitRefines`: the initial states map to initial states.
* `StepRefines`: each step maps to a contract step or a stutter.
  * `RunStart` is `Start`.
  * A `TaskExit` is one `Exit`.
  * `WaitReturn` is `Return`. At that point every populated slot has exited (by
    `LaunchedBefore`), and the recorded error is the head of the failures (by
    `FirstFailure`).
  * `Launch`, `ParentCancel` and `Returned` are stutters. A launch never touches
    an exited task because of the conjunct `NotYetLaunched`: no slot at or after
    `next` has been launched. That conjunct needs the assumption that the launch
    order has no repeats. `Run` has one `group.Go` per subsystem.

They hold for every set of slots, every launch order and every optional subset.
The only assumptions are the module's ASSUMEs:

* the launch order is a non-empty sequence of slots that names every slot once;
* the optional slots are slots;
* `NoErr` is not a slot.

Neither property is inductive alone. `IInv` adds:

* `LaunchedPresent`: only populated slots are ever launched.
* `PcNext`: where `next` stands in each phase of Run. This keeps `Launch` in
  range.
* `LaunchedBefore`: every populated slot before `next` has been launched. At
  `group.Wait` this means every populated task has started.
* `FirstFailure`: the errgroup's recorded error is the head of the failure
  history. `SequenceTheorems!HeadTailAppend` carries this across `TaskExit`.
* `Joined`: once Run returned, its result is the recorded error and every
  populated task is done. A returned Run has no running task, so no later
  `TaskExit` can change this.

There is one lemma per action. TLC also checks `IInv` as an invariant of the
`MC_CoreRun` instance.

`Aggregator_proofs` proves the following for any set of callers and any
`MaxCalls`:

* `AggregatorTypeCorrect`: `Spec => []TypeOK`.
* `ScheduleOrderKeptHolds`: `Spec => []ScheduleOrderKept`.
* `AnswerToOwnItemHolds`: `Spec => []AnswerToOwnItem`.
* `AggregatorIInvariant`: `Spec => []IInv`.
* `BatchItemsUntouchedHolds`: `Spec => BatchItemsUntouched`. This is an action
  property. `issueBatchLocked` resets `a.scheduled` to `a.scheduled[:0]`, and
  that slice shares its backing array with the items handed to `Batch`.
  `BatchExcludesWrites` shows that while a caller is in `batch`, `MutualExclusion`
  makes it the holder of `a.mu`. No other caller can then `Lock`,
  `ScheduleWrite` or `IssueBatch`. The mutant `IssueBatchUnlocked` releases the
  mutex before `Batch`, and TLC finds a `Schedule` writing during the call.

`IInv` adds the following conjuncts:

* `MutualExclusion`: at most one caller is in a locked phase, and it is the
  holder.
* `SnapFresh`: a `Schedule` between its read and its write holds a snapshot
  equal to `a.scheduled`. This is why the append loses nothing.
* `CallShape`: the phases consistent with each operation.
* `OwnLast`: the last item of an in-flight `ScheduleAndFlush` batch is the
  caller's own.

`ItemLogAppend`, a lemma on `\o` and `Append`, carries `ScheduleOrderKept`
across `ScheduleWrite` and `IssueBatch`.

`CoreLifecycle_proofs` proves these theorems for `core.go`'s real tables (17
blocks, 28 fields, both configuration switches), for every `MaxCloses`:

* `LifecycleTypeCorrect`: `Spec => []TypeOK`.
* `NoNilUseHolds`: `Spec => []NoNilUse`.
* `TeardownCompleteHolds`: `Spec => []TeardownComplete`.
* `LifecycleIInvariant`: `Spec => []IInv`.
* `DependentsClosedFirstHolds`: `Spec => []DependentsClosedFirst`.

`IInv` adds the following conjuncts:

* `ConstructionState`: while `New` runs, `built` is exactly what the blocks
  before `blk` assign (`BuiltBy(blk)`), and nothing has been launched or closed.
* `OwnerCore`: a Core that the owner holds has every block's fields. A Core
  that `New` is tearing down is never run.
* `CloseProgress`: while `Close` runs, each non-nil field whose statement has
  been passed has been closed `coreCloses + 1` times, and every other non-nil
  field `coreCloses` times. Each `CloseStep` keeps this, because no two Close
  statements name the same field (`CloseOrderDistinct`).
* `ClosedCounts`: between calls, each non-nil closable field has been closed
  `coreCloses` times.
* `NonClosableUntouched`: fields without a Close statement are never closed.

`NoNilUse` rests on the lemma `RequiredBuilt`. Under both configurations, `New`
assigns every field that `Run` launches without a nil check. TLC checked `IInv`
on the model with `MaxCloses = 2` (4,148 states) before it was proved.

`DependentsClosedFirst` needs no induction over the closure. It uses a rank
argument instead:

* **`Rank`.** Each field gets a number. A closable field's rank is the position
  of its Close statement. Any other field's rank is the earliest position among
  the closable fields it reaches, or 14 when it reaches none.
* **`RefsRanked`.** Every input a constructor remembered ranks no lower than the
  component (`Ranked(refs)`). TLC checked `IInv /\ RefsRanked` on the
  `MaxCloses = 2` model (4,148 states) before it was proved.
* **`ReadsRanked`.** `Reads` respects the ranks with one exception: the overlay
  passed to the contact service. This lemma is proved on the real table.
* **`ContactBeforeOverlay`.** That overlay is still nil when the contact
  service is built, so it is never remembered. This is why `RefsRanked`
  survives `Build`.
* **`ComposeRanked`.** One `Compose` keeps a table ranked, because ranks do not
  decrease along a path of two. Five applications give `Ranked(DependsOn)`
  (`DependsOnRanked`).
* **`RankOrderClosed`.** This lemma turns ranks into close counts: a field whose
  statement comes first has been closed at least as often
  (`RankIsPosition`, `CloseProgress`, `ClosedCounts`).

## 5. Only model-checked

* **`ShutdownCompletes`.** Liveness and ENABLED are beyond TLAPS.
* **`CallsReturn`.** Liveness under the aggregator's fairness.

Every safety invariant and action property of a passing run now has a theorem.
Liveness stays with TLC. The properties of the violation runs (`FailuresNotLost`,
`ConstructionReadsBuilt`, `SubsystemsReleased`,
`CloseReleasesOnce`, `ReleasedNotInUse` and `OwnResponse`) are false of the
code, so they have no theorem.

## 6. Not modelled

* **A subsystem's own cancellation error.** `IgnoreCanceled` (line 376) turns
  a cancellation error into nil even when the subsystem produced it on a live
  context. The task then ends silently. The spec (section 9) leaves open
  whether that is a failure, so no property takes a side. The model lets a
  task exit with such an error at any time, and `CancelOnlyOnFailure` checks
  that it never cancels the siblings.

* **Subsystem internals.** The internals of each subsystem (the checker's loop,
  the repair queue, and so on) are outside `core.go`. They appear only as a
  task's exit outcome and as a Close that succeeds or fails.
* **Logging, metrics and configuration parsing.** These are left out because
  they change no state that a property is about.
* **Upload tests (`src/testsuite`).** These are test code.

## 7. Plan for later work

1. **Close racing Run inside `CoreRun`.** Compose `CoreRun` with `Close`, so
   that the violation found by `lifecycle_close_during_run` can be traced
   task by task. This would also show whether cancelling the context before
   `Close` repairs it.
2. **Aggregator with a bounded batcher answer check:** a variant that refuses
   short answers, shown to satisfy `OwnResponse`.
