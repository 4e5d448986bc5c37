# Verification of the skyd renter

skyd is the Skynet daemon: a Sia renter that uploads and downloads data to and
from storage hosts, pays them from file contracts and ephemeral accounts, and
keeps its files repaired.  This directory holds TLA+ models of the parts of the
renter whose correctness depends on the order in which its threads run, what
TLC finds about small instances of them, and TLAPS proofs for all instances.

## Inventory

The core of the program is `skymodules/renter`.  Each host with a contract has
a **worker** with one work loop; the loop launches one *serial* job at a time
(uploads, refills, price table, renewals) and several *asynchronous* jobs
(reads, registry reads and updates, sector lookups).  Around the workers are
the upload path, the download path, the file system and the contract layer.

| Component | State it keeps | Operations | Interacts with | What is hard | What makes it correct |
|---|---|---|---|---|---|
| Memory manager (`memory.go`) | available, underflow, two FIFOs, starvation counter | Request, Return, cancel, stop | every upload and download before it starts | blocked threads woken by others; cancel against grant; requests above the base; starvation | memory conserved, no lost wake-up, every request granted |
| Worker account (`workeraccount.go`) | balance, negative balance, pending deposits and withdrawals, spending, syncAt | track and commit withdrawals and deposits, refill, sync | work loop, jobs, subscription loop, host | answers lost, withdrawals paid from deposits not yet acknowledged, refunds booked late, sync during payments | renter's and host's balance agree up to what is in flight |
| Account persistence (`workeraccountpersist.go`) | one record per account at an offset, clean flag | load, open account, persist, save and close, upgrade | account, worker pool | crash between writes, offsets after skipped records | every account is found again, a balance is trusted only after a clean shutdown |
| Worker loop and RPCs (`workerloop.go`, `workerrpc.go`) | running serial and async jobs | launch, execute a paid program | job queues, account | idle detection | at most one serial job; nothing runs during a sync |
| Subscription loop (`workersubscription.go`, `subscriptionmanager.go`) | session, budget, subscriptions | begin, extend, refill, notify, end | account, registry cache | holds a lock across RPCs | budget paid and given back once |
| Upload chunk and workers (`uploadchunk.go`, `workerupload.go`) | piece usage, counters, standby workers, channels | fetch, distribute, queue, register, stand by, fail, drop, clean up, close | memory manager, heap, file | counters changed by many threads; a cleanup on every path | every upload ends, its memory is released exactly, no piece twice |
| Distribution queue (`uploadchunkdistributionqueue.go`) | two lanes | add, distribute | workers | priority against starvation | every chunk is distributed |
| Upload heap, repair and stuck loops (`uploadheap.go`, `repair.go`, `directoryheap.go`) | heap, `repairingChunks`, pause, two wake-up channels | build, push, pop, sleep, pause | chunk, streamer, files | one chunk object per chunk of a file; messages that are dropped | every chunk leaves `repairingChunks` |
| Upload streamer (`uploadstreamer.go`) | position in the stream | read shard, push chunk | heap, chunk | chunks that already exist | chunk *i* gets the data of chunk *i* |
| Job queues (`workerjobgeneric.go` and the jobs) | queue, killed flag, cooldown | add, next, discard, kill | work loop, projects | answers on channels exactly once | every job is answered once |
| Downloads (`projectchunkworkerset.go`, `projectdownload*.go`, `download*.go`) | worker states, pieces available | launch, overdrive, finish | jobs, memory manager | late and out-of-order answers | a download ends; enough distinct pieces |
| Stream buffer (`streambuffer.go`, `streambufferlru.go`) | data sections with reference counts, LRU | fetch, read, release | downloads | shared sections, delayed eviction | a section in use stays |
| Contract protocol (`proto/`) | header, roots, write-ahead log | append, commit, load | host, contractor | host and renter one revision apart, crash | revision never lost |
| Contractor (`contractor/`) | contracts, allowance, churn, watchdog | maintenance, renew, archive | consensus, proto | maintenance interrupted by blocks | one usable contract per host |
| File system (`filesystem/`, `siafile`, `siadir`) | tree of nodes, files, metadata | open, close, rename, delete, chunk updates | everything | lock order of the tree, references | no node lost while in use |
| Directory updates (`dirupdatebatcher.go`) | batches | add, flush | repair, files | a flush waits for the batch before it | an update seen by the next flush |
| Host database (`hostdb/`) | hosts, scans | scan, select | contractor | scan pool | |
| Blocklist, portals, skykeys, accounting, API, command line | lists on disk; otherwise none | add, remove; requests | | append-only persistence | |

`PROJECT.json` lists the same components with the source files, the hazards at
their lines, and for every modelled definition the lines it stands for.

## Modules

* `Totals` - the sum of a function over a finite set, defined as the number of
  elements of a finite set so that the provers can reason about it;
  `TotalsProofs` - its lemmas.  The requests of the memory manager, the payers
  of an account and the calls that the threads of an upload still have to make
  are counted with it.
* `MemoryPool` - what the memory manager promises its callers; `MemoryManager`,
  `MCMemoryManager` - how queues and wake-ups keep it; `MemoryManagerProofs` -
  the invariants and the refinement.
* `WorkerAccount` - the account and the threads that use it;
  `WorkerAccountProofs` - the counters and the balances.
* `ChunkPromise` - what the upload of a chunk promises to those who wait for it;
  `UploadChunk` - how the workers keep the promise;
  `UploadChunkProofs` - the inductive invariant and what follows from it,
  `UploadChunkProgress` - no wakeup is lost, `UploadChunkPromise` - the
  refinement.
* `ChunkCustody` - through whose hands a chunk goes on its way to the workers;
  `RepairHeap` - the maps and threads that keep it so;
  `RepairHeapProofs` - the invariants and the refinement.
* `ContractAgreement` - what a contract promises; `ContractLog` - how the
  write-ahead log keeps the promise; `ContractLogProofs` - the refinement and
  the invariants.

The configurations instantiate the component's module directly; only the memory
manager has an MC module, for its amounts and its symmetry.

Operators whose comment begins with "Mutant" are deliberately wrong versions of
the definition that follows; nothing uses them.  They document which slip of
the code each property would notice.

### MemoryManager

`available`, `underflow`, `memSinceLowPriority` and the two queues are the
fields of `memoryManager`.  `Request` is the part of the code's `Request` under
the mutex: starvation bump, immediate grant (`ServeNow`) or enqueueing
(`Enqueue`).  A blocked caller is woken by its done channel (`Wake`), by its
context (`Cancel`, then `RemoveElement` when it gets the mutex again) or by the
stop channel (`StopWait`).  `Return` gives memory back and takes the mutex;
while `mu` is a priority, the wake-up loop works on that queue, one request per
step (`SkipCanceled`, `GrantHead`, `PushFront`, `Drained`).  `tracked` is the
set of requests whose list element is still the one they remember: a request
moved by the starvation bump or pushed back to the front has a new element and
its own `Remove` does nothing.  `held` is what each caller has been granted.

The amounts of the callers are arbitrary positive numbers, above the base too.

`MemoryPool` is the manager as its callers see it: who holds how much, and at
which priority the others wait (`lane`, read off the two queues as sets).
Memory is granted to who fits into the base, low priority leaving the reserve
alone, or to who is alone, and never past a waiter of higher priority.  The
mutex, the counters `available` and `underflow`, the list elements and the steps
of the wake-up loop are gone; the order within a queue is left open, because a
request that `Return` pushes back and one that the starvation bump moves change
it.

### WorkerAccount

The account and the threads of a worker that touch it: jobs
(`managedExecuteProgram`), the refill, the subscription loop, the balance sync
of the work loop, and restarts.  The host is external: it executes a program or
a deposit when the money allows, may do so after the renter gave up, and
reports its balance.  `balance` is reloaded as the minimum expected balance after
a clean shutdown and as zero after a crash.  `spending` is the sum over all
categories.

A registry lookup that finds no entry gets part of its price back.  The host
credits it with the program (`owed`); `managedExecuteProgram` commits the whole
withdrawal (`JobDone`), and only then `lookupRegistry` tracks the refund as a
deposit and commits it (`RefundTracked`, `RefundDone`, with `tracked` the amount
in between).  From the answer to `RefundTracked` the host has more than
`maxExpectedBalance`, with no answer lost; every property of the balances says by
how much.

`missed` is a history variable: the sum of the first budgets of sessions, which
the host took and the renter committed as failed (finding 2), or `Unknown`
(`drifted`) once an answer was lost, so that the renter cannot know the balance
until a sync adopts it.  `unbooked` is what a refill could not know of when its
amount was computed.

A second worker over the same account (the worker pool replaces a worker while
its jobs still run) is left out.

### UploadChunk

One chunk once its memory was granted.  A step is what the code does under one
hold of `uc.mu` or of a worker's mutex.  The functions of this part call each
other (a cleanup wakes workers, queueing a worker may drop the chunk, dropping
it runs a cleanup), so each thread has the sequence `todo` of the calls it still
has to make, which is the rest of its call stack.  Memory is counted in pieces.
`returned` is what reached the memory manager, later than `memoryReleased`
counts it.  Goodness for upload and cooldown of a worker are chosen anew
whenever the code asks for them.

`ChunkPromise` is what callers see of all this: the channel
`staticAvailableChan` (`available`), `uc.err` (`failed`),
`staticUploadCompletedChan` (`complete`), the entry in `repairingChunks`
(`open`), the pieces on the network and the memory that came back.

`Cancel` is not modelled.  It is only called by `managedTryUpdate` when the heap
holds a different object for the same chunk, and `managedBuildUnfinishedChunk`
returns the object in `repairingChunks` instead of building a second one; every
chunk in the heap is in `repairingChunks`.

### RepairHeap

The way of a chunk from the file to the workers, and the stream upload that
takes a way of its own.  `repairing` is the key set of `repairingChunks` and
`owner` says who holds the `unfinishedUploadChunk` of a chunk: a thread that
builds chunks (the repair loop, a user upload or the stuck loop), the heap, the
repair loop after a pop, the workers, the stream upload, or nobody that will
ever do something with it (`left`).  Each operation hands objects on (`Give`) or
closes them (`Close`), so a forgotten close shows as an entry that stays.

* The builders: `BuildNext`, `BuildFails`, `Prune` (no repair needed), `Push` and
  `Ignore` of `callBuildAndPushChunks`, `managedAddStuckChunksToHeap` and their
  helpers.  Two of them are outside of the repair loop (`Outside`): a pass of
  theirs that pushed a chunk owes the loop a message (`owes`, `Signal`).
* The repair loop: `CheckPaused`, `EnterLoop`, `Pop`, `NoWorkers`, `Prepare`,
  `LeaveLoop`, `ResetHeap`, and the select of `threadedUploadAndRepair`: with an
  empty heap the loop goes to sleep (`Sleep`) and only a message wakes it
  (`WakeUp`).  `wake` says that there is one in `newUploads` or `repairNeeded`;
  either wakes the loop and one that finds its channel full is dropped, so the
  two are one flag.  A message left in the other channel would wake the loop
  once more, which `NewUpload` can do at any time.  Messages come from uploads,
  from the stuck loop if the heap has stuck chunks, and from the health loop if
  the root directory needs repair (`UpdateRoot`).  `Pause` and `Resume` are the
  API call and the end of its timer.
* Who marks chunks as stuck: the builders for a chunk whose pieces cannot be read
  (`BuildError`) and for a whole file with too few hosts (`InsufficientHosts`),
  the API (`SetFileStuck`), the repair loop (`NoWorkers`) and the workers.  Only
  the last two hold the chunk they mark.
* The workers: `Fetch`, `FetchFails`, `Upload`, `Complete`, `CleanUp` and
  `MarkLate`, the lifecycle that `UploadChunk` models in detail.  After a failed
  fetch one thread closes the chunk while another still has to mark it as stuck.
* The stream upload: `GrowNumChunks`, `FindExisting`, `BuildStreamChunk`,
  `SkipChunk`, `PushStreamChunk`, `CancelRequest`, `NextChunk`, `WaitAvailable`,
  and its error returns `GrowFails`, `BuildStreamFails` and `SkipFails`.  The data
  of a chunk is its place in the stream (`placed`), so that wrong data is a wrong
  number.

`ChunkCustody` states the custody of a chunk without any of this: `holder` is
the one holder of a chunk (in the mapping, whoever has it in `owner` while it is
in `repairing`), and the steps are taking a chunk that nobody holds, passing it
along the ways of the code, closing it, and what the workers and the hosts do to
its health.  An entry that nobody holds maps to a holder the specification does
not know; that no chunk has two is `OneOwner`.

`faults` bounds the events from outside: health changes, pauses, failures, marks
by the user and cancellations.  `MaxPasses` bounds how many passes outside of the
loop are under way at once.  Which directories and files a pass visits is left open, as is
the order of the heap.

### ContractAgreement and ContractLog

`ContractAgreement` has two variables, the revision both sides signed and the
one the renter has on disk, and two steps: the parties revise when they agree,
and the renter catches up.  `ContractLog` implements it with `agreed` as the
host's revision and `mine` as the synced header file.

A revision is its number and the roots it stands for.  `header` and `unapplied`
are in memory, `hfile` is the header as written and `hdisk` as synced, `roots` are
the sector roots as written and `rdisk` those that survive a loss of power, `wal`
is the log.  `managedRecordRootUpdates`,
`managedRecordDownloadIntent` record a change before it is sent; `HostSigns` is
the host, which may act on a request that was given up long ago; `GiveUp` is a
lost answer.  A commit is taken apart into its writes: `applySetHeader`,
`applySetRoot`, `SyncHeader`, `SignalUpdatesApplied`, `clearUnappliedTxns`, with
a `Crash` possible between any two and `Restart` reading what is left.  The code
syncs the header file and never the roots file: the operating system writes the
roots back when it likes (`WriteBack`, external), and a crash may lose a header
that was not synced and roots that were not written back, each without the
other.  `torn` is a history variable: a crash left a header without its roots.
`managedSyncRevision` is the start of a session; a branch of it that the code
calls Critical stops the model.

A contract is used by one thread at a time (`Acquire`), so there is one change
under way.  Left out: payouts and signatures, inserting and deleting contracts,
the final revision of a renewal, the reference counter, transactions that set two
roots (`Session.Replace` without trim), and a roots file that ends within a root,
with the branch of `loadSafeContract` that then applies every transaction of the
log (`contract.go:1073-1078`).

## Runs

| Run | Instance | Shows |
|---|---|---|
| `memory_safety` | 3 cancelable requests for 1 or 5 of a base of 4, reserve 1 | `TypeOK`, `Conservation`, `ReturnWithinBase`, `WaitersHaveWaker`, `QueuedOnce`, and the refinement `ImplementsPool` |
| `memory_liveness` | 3 requests for 2 of a base of 4, reserve 2, none cancelable | `EveryRequestReturns` |
| `memory_cancel` | 2 cancelable requests for 2 or 3 of a base of 4, reserve 1 | violation of `FalseMeansNotAllocated` |
| `account` | 1 job, costs 1 and 2, target 2, subscriptions with budget 1, one crash | `TypeOK`, `PendingMatches`, `DeltasZeroAtSync`, `Accounted`, `ExpectedBalances`, `RefillFits`, `NegativeCovered`, and the liveness property `SyncEnds` |
| `account_subscription` | 2 jobs, target 4, subscriptions | violation of `SessionsPaid` |
| `account_spending` | 2 jobs, no subscriptions | violation of `SpendingComplete` |
| `upload` | 2 workers, 2 pieces, 1 needed | `TypeOK`, `ResponsibilityCounted`, `HelperFindsPiece`, `UploadsDistinct`, `AllMemoryReleased`, `ClosedOnce`, `FreedUntouched`, `AvailableIsRecoverable`, `NeverStuck`, the refinement `KeepsPromise`, and the liveness property `UploadEnds` |
| `repair` | a stream of 2 chunks into a new file, 1 stuck chunk in the heap, 2 passes at once, 1 fault | `TypeOK`, `OneOwner`, `HoldersAct`, `OnlyFinishedStuck`, `OwnChunksAnswered` |
| `repair_liveness` | a stream of 1 chunk, the file there before or not, 2 passes, 2 faults | the refinement `ImplementsCustody`, the liveness properties `EntriesRemoved` and `StreamReturns` |
| `stream_order` | a stream of 2 chunks into a file that may have the first, no faults | violation of `StreamInOrder` |
| `contract` | 2 sectors, revisions to 3, 4 transactions, 2 crashes | `TypeOK`, `NoCritical`, `RootsMatch`, and the refinement `Implements` |
| `contract_crash` | 3 transactions, 1 crash | violation of `PreOrPost` |

**Bounds.**  In the memory manager three requests are one that holds memory, one
at the front of a queue and one behind it, which is all the wake-up loop can
tell apart; the amounts lie below the base, at half of it and above it.  The
starvation multiple and divisor are the code's.

In the account `MaxMoney` stops new work when the renter has seen that much money
and `MaxCrashes` bounds the crashes; costs 1 and 2 against a target of 2 make
withdrawals below and above the balance.  The job and the subscription loop are
the two payers that overdraw one deposit, and the job's registry refund meets a
refill and a session; any number of jobs is what the theorems are for.

In the upload two workers for two pieces upload, fail and succeed in any order;
initial states with pieces already on the network leave one of them on standby
for the other, who may fail, be killed or clean up.  The theorems cover any number
of workers and pieces.

In the repair two chunks let one be in the heap while another is popped, and the
stuck heap full with one while another is built; one fault is a pause, a failure,
a mark, a cancellation or a change of health at any moment.  `repair_liveness`
follows one chunk, for which nothing but the loop, its messages and two faults
matter: what other chunks do to it is to keep the loop busy, which `NewUpload` and
the freedom of `EnterLoop` and `LeaveLoop` stand for.  In `stream_order` the first
chunk can be in the file before the stream, so that it can be in repair when the
stream comes to it, with a second one after it.

In the contract four transactions let an answer be lost, the same number be
recorded again and both be followed by a third, and two crashes let the recovery
from a crash crash.  Requests of the memory manager are interchangeable, so
symmetry is used where no liveness is checked.

**Deadlock** is checked for the account.  The memory manager may stop (the
renter stops, or a caller never returns its memory) and a chunk ends.  The
repair stops when the stream is done and nothing needs repair, and the contract
when its bounds are reached.

**Fairness.**  The memory manager: the wake-up loop runs to its end (`Release`),
a woken or stopped caller goes on, and a caller gets the mutex and returns what
it was granted.  The last two need strong fairness, because others may hold the
mutex in between: a Go mutex is handed to a waiter that starves.  That memory is
returned at all is what `AllMemoryReleased` and `UploadEnds` show for uploads.  The account: the wait for idleness is bounded
by `accountIdleMaxWait`, streams have deadlines, and a Go mutex is handed to a
waiter after at most a millisecond of starvation, hence strong fairness for
`SyncLock` only.  The upload: goroutines run, the fetch and every upload end
(sessions have deadlines and stop with the worker), the distribution queue finds
workers, and the work loop reaches the upload job.  The last is an assumption
about the load: the comment of `externTryLaunchSerialJob` says itself that a
flood of earlier kinds of jobs can starve later ones.  Nothing is assumed about
the success of uploads or about workers being killed.

The repair: every thread that can run does, a pause ends (its timer), and a fetch
and an upload end (`UploadEnds`).  A pass that pushed chunks sends its message
(`Signal`), and the health loop comes to the root directory again and again
(`UpdateRoot`).  That `managedRepairLoop` pops some chunk in the end is strong
fairness of `\E c : Pop(c)`: popping is not always possible, since the loop leaves
a heap that has shrunk below `minUploadHeapSize` while directories need repair
(`uploadheap.go:1357`) and goes back to add their chunks (`:764`).  But each round
takes directories off the directory heap, and once none needs repair the loop
works the heap down to the last chunk (`smallRepair`).  Which chunk it pops is not
fair: the heap orders by priority, and a chunk may be passed over as long as
others come, the case of a user that keeps uploading (`uploadheap.go:1461-1464`).
`EntriesRemoved` and `StreamReturns` therefore have the premise `HeapSettles`, that
chunks are not pushed for ever.  No new pass and no fault is assumed to happen.

Two kinds of entries are exempt from `EntriesRemoved`, because the code leaves them:
chunks that a stream upload has left without closing them, and a chunk in the heap
that was marked as stuck since it was built.  Nobody wakes the loop for the latter:
the stuck loop counts stuck chunks by the field of their objects, the health loop
by what the files say.

## Proofs

`MemoryManagerProofs` proves, for every base, reserve, set of amounts and finite
set of requests, that the invariants of `memory_safety` hold: `TypeCorrect`,
`MemoryConserved`, `NeverTooMuchReturned`, `WakeUpDue`, `DoneClosedOnce`.

The inductive invariant joins what the code keeps in separate places.
`Conservation` alone is not inductive: a request that is granted from a queue
must not hold memory already, which is `QueuedOnce`, and its caller must still
wait (`QueuedWaits`: it is blocked, on its way to remove itself, or has given
up).  `HoldersCalled` excludes memory in the name of a caller that never asked.
`WaitersHaveWaker` follows from `Conservation` and `QueueBlocks` (outside of
`Return`, a queue that is not empty means that memory is out), and that needs
`HighDrainedFirst`: `Return` turns to the low priority queue only when the other
is empty, so that it ends with both empty or with a head that did not fit.

`ManagerImplementsPool` is the refinement.  Every step of the manager is mapped
to one step of the pool or to none: entering the mutex, waking up and the end of
the wake-up loop change neither `held` nor `lane`.  The queues are reduced to
sets first (`EnqueueLanes`, `ShrinkLanes`, `PopLanes`, `RemoveLanes`), with
`QueuedOnce` for the fact that taking an element off a queue takes the request
out of its lane.  `GrantFits` translates the test of the code, which is about
`available` and `underflow`, into the pool's, which is about what is held; this
is `Conservation`.  Beside `IndInv` the proof needs `WaitersAsk`: who is queued
holds nothing and asked for an amount of `Amounts`, so that the grant of a
waiter is one the pool knows.

`BeyondBaseAlone` proves from the same facts what the comment on requests larger
than the base relies on: more than the base is out only while one caller holds
all of it.

`WorkerAccountProofs` proves for every finite set of jobs, all costs, targets,
budgets and bounds:

* with and without subscriptions, across crashes, restarts and syncs:
  `AccountTypeCorrect`, `PendingCounted`, `SyncFindsNothingPending`.  The
  inductive invariant `IndInv` ties the counters to the positions of the threads:
  `Positions` (an idle payer tracks nothing, the host takes no more than was
  tracked), `SubPaying` (the subscription loop holds `accountSyncMu` while it
  pays) and `SyncAlone` (from the idle check on no job is launched, and the
  balance request is out only while the work loop holds the mutex).  That a sync
  may set the counters to zero follows: then every payer is idle.
* with and without subscriptions and with registry refunds, as long as no answer
  was lost: `BalanceAccounted`, `BalanceWithinExpected`, `RefillNeverExceeds`,
  `NegativeBalanceCovered`.  The differences they admit are the ones the code
  makes: the first budgets of sessions (`missed`), and the refunds not tracked yet
  (`owed`).  In particular the comment in `maxExpectedBalance`
  (`workeraccount.go:294-297`), that pending deposits cover a negative balance,
  holds only up to these refunds.  The invariant `Books` adds that a balance and a
  negative balance never stand beside each other and that, unless an answer was
  lost, `Agreement` holds: the books agree with the host, the answer of the host
  in a sync is still its balance, and the refill under way fits together with all
  that the subscription loop may still give back.  The step that is not obvious is
  a job that overdraws the account: since the host's balance is not negative, what
  it overdraws is covered by a deposit the host has made and the renter has not
  committed, of the refill or of a refund.

`ContractLogProofs` proves for every set of sectors and all bounds on revisions,
transactions and crashes: `TypeCorrect`, `AlwaysSynced`, `RootsCorrect` and the
refinement `Implementation`.  `LogInv` is what makes the case the code calls
impossible impossible: a request the host may still sign is one revision ahead
of the disk, in the log and among the unapplied transactions (`InflightKept`),
and the disk has the host's revision or one transaction leads from it to the
host's (`HostClose`).  It is
needed because the host's next revision can come from any old request, not only
from the current one.  `RootsInv` adds what the roots are at each step of a
commit, and that a transaction in the log with the host's revision sets exactly
the root in which the two revisions differ; with it a second application of a
transaction changes nothing, and roots that a crash took back with their header
are set again.  `RootsFollow` is why losing roots is harmless then: unless torn,
the roots are those of the synced header or already the host's.  `torn` marks the
crashes of finding 5 and no other, and `RootsCorrect` says nothing after them.

`RepairHeapProofs` proves for every length of the stream, number of chunks and
number of faults `RepairTypeCorrect`, `StreamPlaced`, `ChunksOwned`,
`UnfinishedNeverStuck` and `OwnAnswered`.  `StreamPlaced` is the part of
`StreamInOrder` that holds: as long as no chunk was found in repair, every chunk
gets its own data.  It needs `Position` (the index of the loop is the data read so
far and the indexes skipped, counted by a cardinality) and `StreamShifted` (the
data of a chunk is early by the indexes skipped before it).
`OneOwner` needs `StreamHolds` (at the steps of the stream upload between
building and pushing, the chunk at its index is its own).  `OnlyFinishedStuck`
needs `QueuedFinished`: a builder, the heap or the repair loop holds a chunk only
once the file is finished, so that none of them marks a chunk before; who marks
chunks without holding them looks at the file.
`OwnChunksAnswered` needs `LiveHeld` (a chunk whose channel is awaited and was
not skipped is with the workers) and `CleanedAnswered` (a chunk that the cleanup
is about to close has its channel closed).

`RepairImplementsCustody` is the refinement.  `OneOwner` makes the holder of the
mapping unique, so that handing an object on changes one value (`Give`) and
closing sets it to nobody; `QueuedFinished` gives that a chunk of an unfinished
file is taken by the stream upload only, and `StreamHolds` that the stream
passes on the chunk of its index.

`EntriesInGoodHands` proves `HoldersAct`, the safety part of `EntriesRemoved`:
the holder of an entry is at the step that takes the chunk further.  The workers
hold exactly the chunks that have a stage, the repair loop one chunk between a
pop and its preparation, the stream upload the chunk of its index between
building and pushing.  What is left to liveness is that these steps are taken.

`UploadChunkProofs` proves for every finite set of workers and every number of
pieces the eight invariants that describe a state of the chunk: `TypeCorrect`,
`ResponsibilityIsCounted`, `HelperAlwaysFindsPiece`, `UploadsAreDistinct`,
`MemoryIsReleased`, `ChunkClosedOnce`, `FreedIsUntouched` and
`AvailableMeansRecoverable`.  They are proved together, from one inductive
invariant `IndInv`, because each step of a worker changes what several of them
count.  Its parts:

* `Stacks`, `Control`, `Before`: what stands in a call stack, that a worker which
  looks at the chunk does nothing else, that an upload holds its job, and that
  nobody has the chunk before it is distributed.
* `Responsible` is `ResponsibilityCounted` with the calls weighed instead of
  counted.  A weight is given to each call, a stack weighs the sum, and all
  stacks together weigh `Pending`; going on with other calls changes the weight
  by what was added less what was done (`GoOnCounts`).  The same lemmas serve
  the calls that return memory (`MemoryCounted`), close the chunk (`Closing`)
  and hold it for one worker (`OwnedOnce`).
* `OwnedOnce`: a worker has the chunk in one place only, its queue, the standby
  list or a call.  Without it a queue could hold the chunk twice, and killing the
  worker would drop it more often than it was counted.
* `Surplus`: the pieces that are neither unused nor uploading nor uploaded were
  given up by a cleanup, and pieces are given up only while every remaining
  worker still has one to take.  `HelperFindsPiece` follows: if none is unused
  and some were given up, no worker remains, although the one that looks does.
  This is the argument behind the Critical in `managedProcessUploadChunk`, and it
  is not visible in any one function of the code.
* `MemoryCounted`: the memory released is the memory needed less the pieces that
  are unused or uploading, and what was returned lags behind by the pending
  returns.
* `Closing`: pending closes and closes done are one if the chunk was released and
  none otherwise, and a released chunk has no piece unused or uploading, which is
  why a late cleanup indexes no data.

`UploadChunkProgress` proves `ChunkNeverStuck`, the safety half of `UploadEnds`.
Its invariant `Awake` says that a distributed chunk that is not complete is
attended to: a worker other than those on standby is still responsible for it,
a cleanup is pending, an upload runs, or workers stand by and a wakeup for them
is pending.  The step that is not obvious is a cleanup that is the last thing
anybody does: if it does not complete the chunk, workers remain, all on standby,
no upload runs, so that an unused piece is left and the cleanup itself wakes
them.

`UploadChunkPromise` proves the refinement `PromiseIsKept`.  Beside `IndInv` it
needs `Answered`: the upload is over exactly when the chunk is released, and
there is neither an answer nor an error before the fetch ended.  Then a failed
fetch sets the error before anybody was answered, and a cleanup sets it only
together with the answer.

Sums over requests, payers and calls are handled by `TotalsProofs`: changing one
entry of a function changes its total by the difference, totals are monotone,
and the total of a concatenation is the sum of the totals.

Only model-checked: liveness (`EveryRequestReturns`, `SyncEnds`, `UploadEnds`,
`EntriesRemoved`, `StreamReturns`), which needs fairness and ENABLED and is out
of the prover's reach.  Every invariant and every refinement of a passing run is
stated by a theorem.

## Findings

1. **A granted request can return false** (`memory_cancel`).  When the context
   ends as the memory is granted, `Request` may choose the context, and the
   memory is never returned.
2. **The first budget of a subscription is committed as failed**
   (`account_subscription`): the comment says successful, the argument is false.
   `Accounted` shows that the books are wrong by these budgets and nothing else.
3. **Spending misses the part paid from the balance** (`account_spending`): the
   local variable is overwritten before it is tracked.
4. **A stream upload that meets a chunk in repair loses its place**
   (`stream_order`): it goes on to the next index without reading the chunk's data,
   and every later chunk gets the data of the one before.  The comment at
   `uploadstreamer.go:260-263` warns of exactly that, in the branch that avoids it.
5. **A crash can lose a sector root** (`contract_crash`): a commit writes the
   header before the root and syncs only the header, and loading a contract looks
   at the log only when the roots file ends within a root.

What the models show beside their properties.  A stream chunk that needs no work,
or whose memory request fails, is never removed from `repairingChunks` (`left` in
`EntriesRemoved`).  A chunk that is marked as stuck while it waits in the heap of a
sleeping repair loop waits until something else wakes the loop.  A stream upload
that waits for a chunk it found in the heap is never answered when the heap is
reset (`dropped` in `StreamReturns`).  A negative balance may exceed the pending
deposits by a registry refund that is not tracked yet.

Met while reading and not modelled; those with an interleaving behind them are
hazards without a property in `PROJECT.json`:

* two accounts can share an offset of the accounts file after a skipped record;
* a replaced worker's jobs still use the account its successor syncs;
* a sync that finds the host's balance lower than the renter's keeps the higher
  one, and refills stay too small until jobs fail;
* an unapplied transaction carries the utility of the time it was recorded, and
  taking it in a sync undoes a later update of the utility;
* `managedPause` can reset a timer whose callback already waits for the lock, so
  that `pauseChan` is closed twice;
* a torn roots file makes loading apply every transaction of the log, also those
  the host never signed;
* the condition on `repairBreakTime` in `managedRepairLoop`
  (`uploadheap.go:1357`) looks inverted, and `callBuildAndPushChunks` passes
  `chunk.onDisk` where `canSkip` and `updateWorstIgnoredHealth` expect remote
  (`uploadheap.go:949`, `956`);
* `jobGenericQueue.callNext` stops after one canceled job, because a removed list
  element has no successor: live jobs behind it wait for the next wake;
* a killed worker answers no job that is queued or runs, because its thread group
  is stopped before the queues are killed, and two of its queues are never
  killed;
* `RenewContract` and `newJobReadSector` create jobs that report to the read
  queue whatever queue they are added to, so that a failed renewal discards the
  reads and puts them on cooldown.

## Plan

1. Done: `MemoryManager`, `WorkerAccount`, `UploadChunk`, `RepairHeap` and
   `ContractLog` with proofs of every safety property.
2. The safety halves of the liveness properties are `NeverStuck` for `UploadEnds`,
   `WaitersHaveWaker` for `EveryRequestReturns` and `HoldersAct` for
   `EntriesRemoved`.  Next: what must never be the last state of a balance sync
   and of the wait of a stream upload.
3. `WorkerJobs` with `WorkerPool`: the queues of a worker, the work loop with its
   wake channel and its limit on outstanding data, kill, and a worker replaced
   while its jobs run.  Every job that is queued is launched or discarded once
   and its caller answered.
4. `AccountsFile`: records at offsets, the clean flag, crashes between writes.
5. `StreamBuffer`, `DirUpdateBatcher`, the chunk worker set of downloads.
6. `RepairHeap` over `ChunkPromise`: its chunk with the workers (`Working`,
   answered, closed) in the terms of the specification that `UploadChunk`
   implements.

## Not modelled

Price gouging, host scores and download cost estimates are arithmetic on prices
without an order of events.  The API, the client, the command line and FUSE pass
requests on and keep no state.  Cryptography, erasure coding and the encoding of
programs and files are functions of their input.  The contractor's choice of
hosts and its allowance arithmetic are out of TLC's reach for the same reason as
prices; its maintenance loop is an order of events and could be modelled on top
of `ContractAgreement`.  The file system tree, the host database and the
append-only lists (blocklist, portals, skykeys) are not reached yet.
