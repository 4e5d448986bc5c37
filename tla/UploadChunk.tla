----------------------------- MODULE UploadChunk -----------------------------
(***************************************************************************)
(* One chunk on its way to the hosts: unfinishedUploadChunk and the        *)
(* threads that work on it once its memory was granted.  A thread fetches  *)
(* the logical data, the distribution queue hands the chunk to workers,    *)
(* each worker registers a piece, stands by or drops the chunk, and        *)
(* whoever changed the chunk runs managedCleanUpUploadChunk, which frees   *)
(* pieces nobody can upload, wakes the workers standing by and closes the  *)
(* chunk when it is done.                                                  *)
(*                                                                         *)
(* A step is what the code does under one hold of uc.mu or w.mu.  What a   *)
(* thread still has to do after it, the rest of its call stack, is the     *)
(* sequence of calls todo[thread]; the functions call each other through   *)
(* it (cleanup wakes a worker, queueing drops the chunk, dropping cleans   *)
(* up).  Memory is counted in pieces.                                      *)
(***************************************************************************)
EXTENDS Totals, Sequences, SequencesExt

CONSTANTS
    Workers,         \* workers, and the hosts they work for
    NumPieces,       \* staticPiecesNeeded
    MinPieces        \* staticMinimumPieces

ASSUME WorkersAssumption == IsFiniteSet(Workers)
ASSUME PiecesAssumption ==
    /\ NumPieces \in Nat \ {0}
    /\ MinPieces \in 1 .. NumPieces

VARIABLES
    pieceUsage, piecesCompleted, piecesRegistered,
    memoryReleased,  \* what the chunk counts as given back
    returned,        \* what was given back to the memory manager
    workersRemaining, workersStandby, unusedHosts,
    released, failed, \* failed: uc.err is set
    available,       \* staticAvailableChan is closed
    uploadComplete,  \* staticUploadCompletedChan is closed
    repairing,       \* the chunk is in repairingChunks
    freed,           \* physicalChunkData was set to nil
    stage,           \* where threadedFetchAndRepairChunk and the queue are
    queued,          \* how often the chunk is in each worker's queue
    terminated,      \* uploadTerminated of each worker
    uploading,       \* the piece each worker uploads, 0 for none
    todo             \* the calls each thread still has to make

chunkVars == <<pieceUsage, piecesCompleted, piecesRegistered,
               workersRemaining, workersStandby, unusedHosts>>
memoryVars == <<memoryReleased, returned>>
endVars == <<released, failed, available, uploadComplete, repairing, freed>>
workerVars == <<queued, terminated, uploading>>
vars == <<chunkVars, memoryVars, endVars, stage, workerVars, todo>>

Pieces == 1 .. NumPieces

\* staticMemoryNeeded: every piece, and the logical data.
MemoryNeeded == NumPieces + MinPieces

\* The fetching thread and then the queue's thread; each worker's serial job
\* and its work loop, which kills uploading when it ends.
Distributor == <<"distributor">>
Job(w) == <<"job", w>>
Loop(w) == <<"loop", w>>
Threads == {Distributor} \cup {Job(w) : w \in Workers} \cup {Loop(w) : w \in Workers}

\* The calls.
QueueCall(w)      == <<"callQueueUploadChunk", w>>
ProcessCall(w)    == <<"managedProcessUploadChunk", w>>
DropQueuedCall(w) == <<"managedDropUploadChunks", w>>
ReturnCall(n)     == <<"Return", n>>
DropCall          == <<"managedDropChunk">>
CleanUpCall       == <<"managedCleanUpUploadChunk">>
NotifyCall        == <<"managedNotifyStandbyWorkers">>
CloseCall         == <<"Close">>

Unused(usage) == {i \in Pieces : ~usage[i]}

(***************************************************************************)
(* managedBuildUnfinishedChunk: hosts already hold some pieces and cannot  *)
(* take another.  A chunk that has every piece is pruned or skipped.       *)
(***************************************************************************)
Init ==
    /\ \E held \in SUBSET Pieces :
        /\ held # Pieces
        /\ pieceUsage = [i \in Pieces |-> i \in held]
        /\ piecesCompleted = Cardinality(held)
    /\ unusedHosts \in SUBSET Workers
    /\ piecesRegistered = 0 /\ workersRemaining = 0 /\ workersStandby = <<>>
    /\ memoryReleased = 0 /\ returned = 0
    /\ released = FALSE /\ failed = FALSE
    /\ available = FALSE /\ uploadComplete = FALSE
    /\ repairing = TRUE /\ freed = FALSE
    /\ stage = "fetching"
    /\ queued = [w \in Workers |-> 0]
    /\ terminated = [w \in Workers |-> FALSE]
    /\ uploading = [w \in Workers |-> 0]
    /\ todo = [t \in Threads |-> <<>>]

----------------------------------------------------------------------------
\* Thread t is at the call c; it goes on with the calls cs and then the rest.
At(t, name) == todo[t] # <<>> /\ Head(todo[t])[1] = name
Arg(t) == Head(todo[t])[2]
GoOn(t, cs) == todo' = [todo EXCEPT ![t] = cs \o Tail(@)]
Begin(t, cs) == todo' = [todo EXCEPT ![t] = cs]

(***************************************************************************)
(* threadedFetchAndRepairChunk.  The memory of the erasure coding and of   *)
(* the pieces the network already has goes back either way.                *)
(***************************************************************************)
FetchMemory == MinPieces + Cardinality(Pieces \ Unused(pieceUsage))

FetchOk ==
    /\ stage = "fetching"
    /\ stage' = "fetched"
    /\ memoryReleased' = memoryReleased + FetchMemory
    /\ returned' = returned + FetchMemory
    /\ UNCHANGED <<chunkVars, endVars, workerVars, todo>>

FetchFails ==
    /\ stage = "fetching"
    /\ stage' = "distributed"
    /\ memoryReleased' = memoryReleased + FetchMemory
    /\ returned' = returned + FetchMemory
    /\ workersRemaining' = 0
    /\ failed' = TRUE
    /\ Begin(Distributor, <<CleanUpCall>>)
    /\ UNCHANGED <<pieceUsage, piecesCompleted, piecesRegistered,
                   workersStandby, unusedHosts, released, available,
                   uploadComplete, repairing, freed, workerVars>>

(***************************************************************************)
(* managedDistributeChunkToWorkers, for any workers the queue may select.  *)
(***************************************************************************)
managedDistributeChunkToWorkers ==
    /\ stage = "fetched"
    /\ \E ws \in SetToAllKPermutations(Workers) :
        /\ workersRemaining' = workersRemaining + Len(ws)
        /\ Begin(Distributor, [i \in 1 .. Len(ws) |-> QueueCall(ws[i])]
                                \o <<CleanUpCall>>)
    /\ stage' = "distributed"
    /\ UNCHANGED <<pieceUsage, piecesCompleted, piecesRegistered,
                   workersStandby, unusedHosts, memoryVars, endVars, workerVars>>

(***************************************************************************)
(* callQueueUploadChunk.  A worker may always turn out not to be good for  *)
(* upload or to be on cooldown.                                            *)
(***************************************************************************)
callQueueUploadChunk(t) ==
    /\ At(t, "callQueueUploadChunk")
    /\ LET w == Arg(t) IN
        \/ /\ ~terminated[w] /\ w \in unusedHosts
           /\ queued' = [queued EXCEPT ![w] = @ + 1]
           /\ GoOn(t, <<>>)
        \/ /\ GoOn(t, <<DropCall>>)
           /\ UNCHANGED queued
    /\ UNCHANGED <<chunkVars, memoryVars, endVars, stage, terminated, uploading>>

\* Mutant: whoever drops the chunk leaves the cleanup to others.
managedDropChunkNoCleanUp(t) ==
    /\ At(t, "managedDropChunk")
    /\ workersRemaining' = workersRemaining - 1
    /\ GoOn(t, <<>>)
    /\ UNCHANGED <<pieceUsage, piecesCompleted, piecesRegistered,
                   workersStandby, unusedHosts, memoryVars, endVars, stage,
                   workerVars>>

managedDropChunk(t) ==
    /\ At(t, "managedDropChunk")
    /\ workersRemaining' = workersRemaining - 1
    /\ GoOn(t, <<CleanUpCall>>)
    /\ UNCHANGED <<pieceUsage, piecesCompleted, piecesRegistered,
                   workersStandby, unusedHosts, memoryVars, endVars, stage,
                   workerVars>>

managedDropUploadChunks(t) ==
    /\ At(t, "managedDropUploadChunks")
    /\ LET w == Arg(t) IN
        /\ queued' = [queued EXCEPT ![w] = 0]
        /\ GoOn(t, [i \in 1 .. queued[w] |-> DropCall])
    /\ UNCHANGED <<chunkVars, memoryVars, endVars, stage, terminated, uploading>>

\* The work loop of w ends.
managedKillUploading(w) ==
    /\ ~terminated[w]
    /\ terminated' = [terminated EXCEPT ![w] = TRUE]
    /\ Begin(Loop(w), <<DropQueuedCall(w)>>)
    /\ UNCHANGED <<chunkVars, memoryVars, endVars, stage, queued, uploading>>

----------------------------------------------------------------------------
(***************************************************************************)
(* managedPerformUploadChunkJob, launched by the work loop when no other   *)
(* serial job runs.                                                        *)
(***************************************************************************)
managedPerformUploadChunkJob(w) ==
    /\ todo[Job(w)] = <<>> /\ uploading[w] = 0 /\ queued[w] > 0
    /\ queued' = [queued EXCEPT ![w] = @ - 1]
    /\ Begin(Job(w), <<ProcessCall(w)>>)
    /\ UNCHANGED <<chunkVars, memoryVars, endVars, stage, terminated, uploading>>

(***************************************************************************)
(* managedProcessUploadChunk: drop the chunk, stand by or register a       *)
(* piece.                                                                  *)
(***************************************************************************)
NeedsHelp == NumPieces > piecesCompleted + piecesRegistered
Wanted(w) == NumPieces > piecesCompleted /\ w \in unusedHosts

ProcessDrops(w) ==
    /\ At(Job(w), "managedProcessUploadChunk")
    /\ \/ ~Wanted(w) /\ GoOn(Job(w), <<DropCall>>)
       \/ GoOn(Job(w), <<DropCall, DropQueuedCall(w)>>)
    /\ UNCHANGED <<chunkVars, memoryVars, endVars, stage, workerVars>>

\* Mutant: a worker that stands by no longer counts as remaining.
ProcessStandsByUncounted(w) ==
    /\ At(Job(w), "managedProcessUploadChunk")
    /\ Wanted(w) /\ ~NeedsHelp
    /\ workersStandby' = Append(workersStandby, w)
    /\ workersRemaining' = workersRemaining - 1
    /\ GoOn(Job(w), <<CleanUpCall>>)
    /\ UNCHANGED <<pieceUsage, piecesCompleted, piecesRegistered, unusedHosts,
                   memoryVars, endVars, stage, workerVars>>

ProcessStandsBy(w) ==
    /\ At(Job(w), "managedProcessUploadChunk")
    /\ Wanted(w) /\ ~NeedsHelp
    /\ workersStandby' = Append(workersStandby, w)
    /\ GoOn(Job(w), <<CleanUpCall>>)
    /\ UNCHANGED <<pieceUsage, piecesCompleted, piecesRegistered,
                   workersRemaining, unusedHosts, memoryVars, endVars, stage,
                   workerVars>>

\* Mutant: the worker stays counted as remaining while it uploads.
ProcessRegistersStillRemaining(w) ==
    /\ At(Job(w), "managedProcessUploadChunk")
    /\ Wanted(w) /\ NeedsHelp
    /\ \E i \in Unused(pieceUsage) :
        /\ \A j \in Unused(pieceUsage) : i <= j
        /\ pieceUsage' = [pieceUsage EXCEPT ![i] = TRUE]
        /\ uploading' = [uploading EXCEPT ![w] = i]
    /\ unusedHosts' = unusedHosts \ {w}
    /\ piecesRegistered' = piecesRegistered + 1
    /\ GoOn(Job(w), <<>>)
    /\ UNCHANGED <<piecesCompleted, workersRemaining, workersStandby,
                   memoryVars, endVars, stage, queued, terminated>>

\* Mutant: the piece is not marked as taken.
ProcessRegistersUnmarked(w) ==
    /\ At(Job(w), "managedProcessUploadChunk")
    /\ Wanted(w) /\ NeedsHelp
    /\ \E i \in Unused(pieceUsage) :
        /\ \A j \in Unused(pieceUsage) : i <= j
        /\ uploading' = [uploading EXCEPT ![w] = i]
    /\ unusedHosts' = unusedHosts \ {w}
    /\ piecesRegistered' = piecesRegistered + 1
    /\ workersRemaining' = workersRemaining - 1
    /\ GoOn(Job(w), <<>>)
    /\ UNCHANGED <<pieceUsage, piecesCompleted, workersStandby, memoryVars,
                   endVars, stage, queued, terminated>>

\* The code's branch for finding no unused piece is a Critical error;
\* HelperFindsPiece says it is never taken.
ProcessRegisters(w) ==
    /\ At(Job(w), "managedProcessUploadChunk")
    /\ Wanted(w) /\ NeedsHelp
    /\ \E i \in Unused(pieceUsage) :
        /\ \A j \in Unused(pieceUsage) : i <= j
        /\ pieceUsage' = [pieceUsage EXCEPT ![i] = TRUE]
        /\ uploading' = [uploading EXCEPT ![w] = i]
    /\ unusedHosts' = unusedHosts \ {w}
    /\ piecesRegistered' = piecesRegistered + 1
    /\ workersRemaining' = workersRemaining - 1
    /\ GoOn(Job(w), <<>>)
    /\ UNCHANGED <<piecesCompleted, workersStandby, memoryVars, endVars,
                   stage, queued, terminated>>

\* The host has the piece and the file knows it.
UploadSucceeds(w) ==
    /\ uploading[w] # 0
    /\ piecesRegistered' = piecesRegistered - 1
    /\ piecesCompleted' = piecesCompleted + 1
    /\ memoryReleased' = memoryReleased + 1
    /\ uploading' = [uploading EXCEPT ![w] = 0]
    /\ Begin(Job(w), <<ReturnCall(1), CleanUpCall>>)
    /\ UNCHANGED <<pieceUsage, workersRemaining, workersStandby, unusedHosts,
                   returned, endVars, stage, queued, terminated>>

\* Mutant: the piece of a failed upload stays taken.
managedUploadFailedKeepsPiece(w) ==
    /\ uploading[w] # 0
    /\ piecesRegistered' = piecesRegistered - 1
    /\ uploading' = [uploading EXCEPT ![w] = 0]
    /\ Begin(Job(w), <<NotifyCall, CleanUpCall, DropQueuedCall(w)>>)
    /\ UNCHANGED <<pieceUsage, piecesCompleted, workersRemaining,
                   workersStandby, unusedHosts, memoryVars, endVars, stage, queued, terminated>>

\* Mutant: an upload that fails after the answer was given reports its error.
managedUploadFailedSetsErr(w) ==
    /\ uploading[w] # 0
    /\ piecesRegistered' = piecesRegistered - 1
    /\ pieceUsage' = [pieceUsage EXCEPT ![uploading[w]] = FALSE]
    /\ uploading' = [uploading EXCEPT ![w] = 0]
    /\ failed' = TRUE
    /\ Begin(Job(w), <<NotifyCall, CleanUpCall, DropQueuedCall(w)>>)
    /\ UNCHANGED <<piecesCompleted, workersRemaining, workersStandby,
                   unusedHosts, memoryVars, released, available, uploadComplete,
                   repairing, freed, stage, queued, terminated>>

\* managedUploadFailed: no session, price gouging, a lost upload, AddPiece.
managedUploadFailed(w) ==
    /\ uploading[w] # 0
    /\ piecesRegistered' = piecesRegistered - 1
    /\ pieceUsage' = [pieceUsage EXCEPT ![uploading[w]] = FALSE]
    /\ uploading' = [uploading EXCEPT ![w] = 0]
    /\ Begin(Job(w), <<NotifyCall, CleanUpCall, DropQueuedCall(w)>>)
    /\ UNCHANGED <<piecesCompleted, workersRemaining, workersStandby,
                   unusedHosts, memoryVars, endVars, stage, queued, terminated>>

\* Mutant: the list is reset before it is copied.
managedNotifyStandbyWorkersForgets(t) ==
    /\ At(t, "managedNotifyStandbyWorkers")
    /\ GoOn(t, <<>>)
    /\ workersStandby' = <<>>
    /\ UNCHANGED <<pieceUsage, piecesCompleted, piecesRegistered,
                   workersRemaining, unusedHosts, memoryVars, endVars, stage,
                   workerVars>>

managedNotifyStandbyWorkers(t) ==
    /\ At(t, "managedNotifyStandbyWorkers")
    /\ GoOn(t, [i \in 1 .. Len(workersStandby) |-> QueueCall(workersStandby[i])])
    /\ workersStandby' = <<>>
    /\ UNCHANGED <<pieceUsage, piecesCompleted, piecesRegistered,
                   workersRemaining, unusedHosts, memoryVars, endVars, stage,
                   workerVars>>

----------------------------------------------------------------------------
(***************************************************************************)
(* managedCleanUpUploadChunk.                                              *)
(***************************************************************************)
\* Mutant: one piece too few is kept.
KeptTooFew == {i \in Unused(pieceUsage) :
                  Cardinality({j \in Unused(pieceUsage) : j < i}) + 1 < workersRemaining}

\* The earlier unused pieces, as many as there are workers left for them.
Kept == {i \in Unused(pieceUsage) :
            Cardinality({j \in Unused(pieceUsage) : j < i}) < workersRemaining}

\* Mutant: running uploads are forgotten when the workers ran out.
chunkCompleteWhileUploading ==
    \/ piecesRegistered = 0 /\ piecesCompleted = NumPieces
    \/ workersRemaining = 0

chunkComplete ==
    /\ piecesRegistered = 0
    /\ piecesCompleted = NumPieces \/ workersRemaining = 0

\* Mutant: pieces that are being uploaded count.
ReachedEarly == piecesCompleted + piecesRegistered >= MinPieces /\ ~released

\* Enough pieces are on the network.
Reached == piecesCompleted >= MinPieces /\ ~released

\* Mutant: every cleanup of a complete chunk closes it.
ReleasesAgain == chunkComplete

\* Completed for the first time: only this cleanup closes the chunk.
Releases == chunkComplete /\ ~released

managedCleanUpUploadChunk(t) ==
    /\ At(t, "managedCleanUpUploadChunk")
    /\ LET surplus == Unused(pieceUsage) \ Kept
           size == Cardinality(surplus)
       IN /\ pieceUsage' = [i \in Pieces |-> pieceUsage[i] \/ i \in surplus]
          /\ memoryReleased' = memoryReleased + size
          /\ available' = (available \/ Reached \/ Releases)
          /\ failed' = (failed \/ (Releases /\ ~available /\ ~Reached))
          /\ uploadComplete' = (uploadComplete \/ chunkComplete)
          /\ released' = (released \/ chunkComplete)
          /\ GoOn(t, (IF Kept # {} THEN <<NotifyCall>> ELSE <<>>)
                        \o (IF Releases THEN <<CloseCall>> ELSE <<>>)
                        \o (IF size > 0 THEN <<ReturnCall(size)>> ELSE <<>>))
    /\ UNCHANGED <<piecesCompleted, piecesRegistered, workersRemaining,
                   workersStandby, unusedHosts, returned, repairing, freed,
                   stage, workerVars>>

\* Close the file entry, leave repairingChunks, drop the data.
Close(t) ==
    /\ At(t, "Close")
    /\ repairing' = FALSE
    /\ freed' = TRUE
    /\ GoOn(t, <<>>)
    /\ UNCHANGED <<chunkVars, memoryVars, released, failed, available,
                   uploadComplete, stage, workerVars>>

\* The memory manager gets the memory back.
Return(t) ==
    /\ At(t, "Return")
    /\ returned' = returned + Arg(t)
    /\ GoOn(t, <<>>)
    /\ UNCHANGED <<chunkVars, memoryReleased, endVars, stage, workerVars>>

----------------------------------------------------------------------------
ThreadStep(t) ==
    \/ callQueueUploadChunk(t)
    \/ managedDropChunk(t)
    \/ managedDropUploadChunks(t)
    \/ managedNotifyStandbyWorkers(t)
    \/ managedCleanUpUploadChunk(t)
    \/ Close(t)
    \/ Return(t)

JobStep(w) ==
    \/ managedPerformUploadChunkJob(w)
    \/ ProcessDrops(w)
    \/ ProcessStandsBy(w)
    \/ ProcessRegisters(w)
    \/ UploadSucceeds(w)
    \/ managedUploadFailed(w)

ChunkStep ==
    \/ FetchOk
    \/ FetchFails
    \/ managedDistributeChunkToWorkers

Next ==
    \/ ChunkStep
    \/ \E t \in Threads : ThreadStep(t)
    \/ \E w \in Workers : JobStep(w) \/ managedKillUploading(w)

Spec == Init /\ [][Next]_vars

(***************************************************************************)
(* Goroutines run, the fetch ends, the queue finds workers in the end, the *)
(* work loop gets to the upload job and an upload ends (its session has a  *)
(* deadline and stops with the worker).  No worker has to be killed.       *)
(***************************************************************************)
FairSpec ==
    /\ Spec
    /\ WF_vars(ChunkStep)
    /\ \A t \in Threads : WF_vars(ThreadStep(t))
    /\ \A w \in Workers : WF_vars(JobStep(w))

----------------------------------------------------------------------------
\* How many calls of the functions names the threads still have to make.
Calls(names) ==
    Total([t \in Threads |->
             Cardinality({i \in DOMAIN todo[t] : todo[t][i][1] \in names})])

\* Every variable has the type of the field it models; counters that the
\* code keeps as plain int never go below zero.
TypeOK ==
    /\ pieceUsage \in [Pieces -> BOOLEAN]
    /\ piecesCompleted \in 0 .. NumPieces
    /\ piecesRegistered \in 0 .. NumPieces
    /\ memoryReleased \in 0 .. MemoryNeeded
    /\ returned \in 0 .. MemoryNeeded
    /\ workersRemaining \in 0 .. Cardinality(Workers)
    /\ workersStandby \in Seq(Workers)
    /\ unusedHosts \subseteq Workers
    /\ {released, failed, available, uploadComplete, repairing, freed}
            \subseteq BOOLEAN
    /\ stage \in {"fetching", "fetched", "distributed"}
    /\ queued \in [Workers -> 0 .. 1]
    /\ terminated \in [Workers -> BOOLEAN]
    /\ uploading \in [Workers -> 0 .. NumPieces]
    /\ DOMAIN todo = Threads

\* workersRemaining counts exactly the workers that are still responsible
\* for the chunk: those that have it queued, are about to be given it, look
\* at it, stand by or are about to drop it.  An upload that is lost from
\* the count never ends; one counted twice ends early.
ResponsibilityCounted ==
    workersRemaining =
        Total(queued) + Len(workersStandby)
        + Calls({"callQueueUploadChunk", "managedDropChunk",
                 "managedProcessUploadChunk"})

\* A worker that the chunk needs finds an unused piece, although cleanups
\* of other threads free the pieces they take for surplus.  The code calls
\* Critical otherwise.
HelperFindsPiece ==
    \A w \in Workers :
        At(Job(w), "managedProcessUploadChunk") /\ Wanted(w) /\ NeedsHelp
            => Unused(pieceUsage) # {}

\* No two workers upload the same piece, an unused piece is nobody's, and
\* piecesRegistered counts the uploads that run: the redundancy that is
\* paid for is the redundancy the file gets.
UploadsDistinct ==
    LET active == {w \in Workers : uploading[w] # 0} IN
    /\ piecesRegistered = Cardinality(active)
    /\ Cardinality({uploading[w] : w \in active}) = Cardinality(active)
    /\ \A w \in active : pieceUsage[uploading[w]]

\* A completed chunk has released exactly the memory it asked for, however
\* the failed, finished and surplus pieces interleaved.  The code calls
\* Critical otherwise.
AllMemoryReleased ==
    released => memoryReleased = MemoryNeeded

\* The chunk is closed once: a second Close would not find it in
\* repairingChunks and would close the file entry under another user.
ClosedOnce ==
    Calls({"Close"}) + (IF repairing THEN 0 ELSE 1)
        = (IF released THEN 1 ELSE 0)

\* Once the data is dropped nobody uploads from it and no cleanup indexes
\* it (physicalChunkData[i] of a nil slice panics).
FreedUntouched ==
    freed => /\ Unused(pieceUsage) = {}
             /\ \A w \in Workers : uploading[w] = 0

\* A caller that waits for staticAvailableChan and finds no error may rely
\* on enough pieces being on the network to recover the chunk.
AvailableIsRecoverable ==
    available /\ ~failed => piecesCompleted >= MinPieces

\* No wakeup is lost: when no thread has a call to make, no worker has the
\* chunk queued and no upload runs, the upload is over.  Workers may still
\* be standing by, but nobody waits for them: both channels are closed, the
\* chunk is closed and all of its memory came back.
NeverStuck ==
    LET quiet == /\ stage = "distributed"
                 /\ \A t \in Threads : todo[t] = <<>>
                 /\ \A w \in Workers : queued[w] = 0 /\ uploading[w] = 0
    IN quiet => /\ uploadComplete /\ available /\ ~repairing
                /\ returned = MemoryNeeded

\* The chunk keeps the promises of ChunkPromise to those who wait for
\* staticAvailableChan and staticUploadCompletedChan and read uc.err: the
\* answer is given once and stands, however uploads fail after it, no piece
\* is uploaded after the end, the chunk leaves repairingChunks once and
\* after the end, and no more memory comes back than was granted.
Promise == INSTANCE ChunkPromise
              WITH Granted <- MemoryNeeded, pieces <- piecesCompleted,
                   complete <- uploadComplete, open <- repairing,
                   memory <- returned

KeepsPromise == Promise!Spec

\* Every upload ends: both channels get closed, the chunk leaves
\* repairingChunks and all of its memory comes back, although workers
\* fail, stand by and are killed at any time.
UploadEnds ==
    <>[](/\ uploadComplete /\ available /\ ~repairing
         /\ returned = MemoryNeeded)

=============================================================================
