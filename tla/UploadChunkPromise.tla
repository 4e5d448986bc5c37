------------------------- MODULE UploadChunkPromise -------------------------
(***************************************************************************)
(* TLAPS proof that UploadChunk implements ChunkPromise, for every finite  *)
(* set of workers and every number of pieces.                              *)
(***************************************************************************)
EXTENDS UploadChunkProofs

\* The two channels and the error follow the stages of the chunk: the upload
\* is over when the chunk is released, and neither an answer nor an error
\* exists before there is somebody to give it.
Answered ==
    /\ uploadComplete <=> released
    /\ stage # "distributed" => ~available
    /\ stage = "fetching" => ~failed

-----------------------------------------------------------------------------
\* A cleanup runs only after the distribution.
LEMMA CleanUpAnswers ==
    ASSUME IndInv, Answered, NEW t \in Threads, managedCleanUpUploadChunk(t)
    PROVE  Answered'
<1>1. At(t, "managedCleanUpUploadChunk") /\ stage' = stage
  BY DEF managedCleanUpUploadChunk
<1>2. stage = "distributed"
  BY <1>1, EarlyCalls DEF IndInv
<1>3. /\ uploadComplete' = (uploadComplete \/ chunkComplete)
      /\ released' = (released \/ chunkComplete)
  BY DEF managedCleanUpUploadChunk
<1> QED BY <1>1, <1>2, <1>3 DEF Answered

LEMMA NextAnswered == IndInv /\ Answered /\ [Next]_vars => Answered'
<1> SUFFICES ASSUME IndInv, Answered, [Next]_vars PROVE Answered'
  OBVIOUS
<1>1. CASE ChunkStep
  <2>1. /\ UNCHANGED <<released, uploadComplete, available>>
        /\ stage # "distributed" /\ stage' # "fetching"
    BY <1>1 DEF ChunkStep, FetchOk, FetchFails, managedDistributeChunkToWorkers, endVars
  <2> QED BY <2>1 DEF Answered
<1>2. CASE UNCHANGED <<endVars, stage>>
  BY <1>2 DEF endVars, Answered
<1>3. ASSUME NEW t \in Threads, ThreadStep(t) PROVE Answered'
  <2>1. CASE managedCleanUpUploadChunk(t)
    BY <2>1, CleanUpAnswers
  <2>2. CASE Close(t)
    BY <2>2 DEF Close, Answered
  <2>3. CASE ~managedCleanUpUploadChunk(t) /\ ~Close(t)
    BY <1>2, <1>3, <2>3 DEF ThreadStep, callQueueUploadChunk, managedDropChunk,
       managedDropUploadChunks, managedNotifyStandbyWorkers, Return
  <2> QED BY <2>1, <2>2, <2>3
<1>4. ASSUME NEW w \in Workers, JobStep(w) \/ managedKillUploading(w) PROVE Answered'
  BY <1>2, <1>4 DEF JobStep, managedPerformUploadChunkJob, ProcessDrops,
     ProcessStandsBy, ProcessRegisters, UploadSucceeds, managedUploadFailed,
     managedKillUploading
<1>5. CASE UNCHANGED vars
  BY <1>2, <1>5 DEF vars
<1> QED BY <1>1, <1>3, <1>4, <1>5 DEF Next

LEMMA AlwaysAnswered == Spec => []Answered
<1>1. Init => Answered
  BY DEF Init, Answered
<1> QED BY <1>1, NextAnswered, Inductive, PTL DEF Spec

-----------------------------------------------------------------------------
LEMMA InitPromise == Init => Promise!Init
<1> SUFFICES ASSUME Init PROVE Promise!Init
  OBVIOUS
<1>1. PICK held \in SUBSET Pieces : held # Pieces /\ piecesCompleted = Cardinality(held)
  BY DEF Init
<1>2. /\ Cardinality(held) \in Nat
      /\ Cardinality(held) <= NumPieces /\ Cardinality(held) # NumPieces
  BY <1>1, PiecesFinite, FS_Subset, FS_CardinalityType
<1>3. piecesCompleted \in 0 .. NumPieces - 1
  BY <1>1, <1>2, PiecesAssumption
<1> QED BY <1>3 DEF Init, Promise!Init

\* A step of which those who wait see nothing.
LEMMA Unseen ==
    ASSUME UNCHANGED <<piecesCompleted, available, failed, uploadComplete,
                       repairing, returned>>
    PROVE  UNCHANGED Promise!vars
BY DEF Promise!vars

LEMMA TypesFollowNext == IndInv' => TypeOK'
BY TypesFollow, PTL

\* The memory that goes back is counted up and stays within what was granted.
LEMMA MemoryRises ==
    ASSUME IndInv, IndInv', NEW n \in Nat, returned' = returned + n
    PROVE  /\ returned' \in returned .. MemoryNeeded
           /\ returned' # returned => returned' \in returned + 1 .. MemoryNeeded
<1>1. TypeOK /\ TypeOK'
  BY TypesFollow, TypesFollowNext
<1>2. MemoryNeeded \in Nat
  BY PiecesAssumption DEF MemoryNeeded
<1>3. returned \in 0 .. MemoryNeeded /\ returned' \in 0 .. MemoryNeeded
  BY <1>1, <1>2 DEF TypeOK, MemoryNeeded
<1> QED BY <1>2, <1>3

LEMMA FetchPromise ==
    ASSUME IndInv, IndInv', Answered, FetchOk \/ FetchFails
    PROVE  [Promise!Next]_(Promise!vars)
<1>1. /\ stage = "fetching" /\ returned' = returned + FetchMemory
      /\ UNCHANGED <<piecesCompleted, available, uploadComplete, repairing>>
  BY DEF FetchOk, FetchFails, chunkVars, endVars
<1>2. FetchMemory \in Nat
  <2>1. /\ FetchMemory = MinPieces + (NumPieces - Cardinality(Unused(pieceUsage)))
        /\ Cardinality(Unused(pieceUsage)) \in 0 .. NumPieces
    BY UnusedFacts DEF FetchMemory, IndInv, Types
  <2> QED BY <2>1, PiecesAssumption
<1>3. /\ returned' \in returned .. MemoryNeeded
      /\ returned' # returned => returned' \in returned + 1 .. MemoryNeeded
  BY <1>1, <1>2, MemoryRises
<1>4. CASE FetchOk
  <2>1. failed' = failed
    BY <1>4 DEF FetchOk, endVars
  <2>2. CASE returned' = returned
    BY <1>1, <2>1, <2>2, Unseen
  <2>3. CASE returned' # returned
    BY <1>1, <1>3, <2>1, <2>3 DEF Promise!Next, Promise!GiveBack
  <2> QED BY <2>2, <2>3
<1>5. CASE FetchFails
  <2>1. failed' = TRUE
    BY <1>5 DEF FetchFails
  <2>2. ~available /\ ~failed /\ ~uploadComplete
    BY <1>1 DEF Answered, IndInv, Before
  <2> QED BY <1>1, <1>3, <2>1, <2>2 DEF Promise!Next, Promise!NoData
<1> QED BY <1>4, <1>5

\* An upload that ends runs, so the chunk is not yet complete.
LEMMA UploadPromise ==
    ASSUME IndInv, IndInv', Answered, NEW w \in Workers, UploadSucceeds(w)
    PROVE  Promise!Upload
<1>1. /\ uploading[w] # 0 /\ piecesCompleted' = piecesCompleted + 1
      /\ UNCHANGED <<available, failed, uploadComplete, repairing, returned>>
  BY DEF UploadSucceeds, endVars
<1>2. ~uploadComplete
  BY <1>1, UploadRuns DEF Answered
<1>3. TypeOK /\ TypeOK'
  BY TypesFollow, TypesFollowNext
<1>4. piecesCompleted \in 0 .. NumPieces /\ piecesCompleted' \in 0 .. NumPieces
  BY <1>3 DEF TypeOK
<1>5. piecesCompleted < NumPieces
  BY <1>1, <1>4, PiecesAssumption
<1> QED BY <1>1, <1>2, <1>5 DEF Promise!Upload

\* A cleanup gives the answer, ends the upload, or neither.
LEMMA CleanUpPromise ==
    ASSUME IndInv, Answered, NEW t \in Threads, managedCleanUpUploadChunk(t)
    PROVE  [Promise!Next]_(Promise!vars)
<1>1. /\ available' = (available \/ Reached \/ Releases)
      /\ failed' = (failed \/ (Releases /\ ~available /\ ~Reached))
      /\ uploadComplete' = (uploadComplete \/ chunkComplete)
      /\ UNCHANGED <<piecesCompleted, repairing, returned>>
  BY DEF managedCleanUpUploadChunk
<1>2. /\ uploadComplete <=> released
      /\ available \in BOOLEAN /\ failed \in BOOLEAN /\ uploadComplete \in BOOLEAN
      /\ piecesCompleted \in Nat /\ MinPieces \in Nat
  BY PiecesAssumption DEF Answered, IndInv, Types
<1>3. CASE Releases
  <2>1. ~uploadComplete /\ uploadComplete' = TRUE /\ available' = TRUE
    BY <1>1, <1>2, <1>3 DEF Releases
  <2>2. Reached <=> ~(piecesCompleted < MinPieces)
    BY <1>2, <1>3 DEF Releases, Reached
  <2>3. failed' = (failed \/ (~available /\ piecesCompleted < MinPieces))
    BY <1>1, <1>3, <2>2
  <2> QED BY <1>1, <2>1, <2>3 DEF Promise!Next, Promise!Finish
<1>4. CASE ~Releases
  <2>1. failed' = failed /\ uploadComplete' = uploadComplete
    BY <1>1, <1>2, <1>4 DEF Releases
  <2>2. CASE available \/ ~Reached
    <3>1. available' = available
      BY <1>1, <1>2, <1>4, <2>2
    <3> QED BY <1>1, <2>1, <3>1, Unseen
  <2>3. CASE ~available /\ Reached
    <3>1. available' = TRUE /\ ~uploadComplete /\ piecesCompleted >= MinPieces
      BY <1>1, <1>2, <2>3 DEF Reached
    <3> QED BY <1>1, <2>1, <2>3, <3>1 DEF Promise!Next, Promise!Answer
  <2> QED BY <2>2, <2>3
<1> QED BY <1>3, <1>4

\* Who closes the chunk has completed it, and is the only one.
LEMMA ClosePromise ==
    ASSUME IndInv, Answered, NEW t \in Threads, Close(t)
    PROVE  Promise!Leave
<1>1. /\ At(t, "Close") /\ GoOn(t, <<>>) /\ repairing' = FALSE
      /\ UNCHANGED <<piecesCompleted, available, failed, uploadComplete, returned>>
  BY DEF Close, chunkVars, memoryVars
<1>2. Weighs(<<>>, 0, 0, 0)
  BY LoadsNone
<1>3. Pending(CloseWt, todo) \in Nat /\ Pending(CloseWt, todo) >= 1
  BY <1>1, <1>2, GoOnCounts DEF IndInv
<1>4. Pending(CloseWt, todo) + (IF repairing THEN 0 ELSE 1) = (IF released THEN 1 ELSE 0)
  BY DEF IndInv, Closing
<1>5. released /\ repairing
  BY <1>3, <1>4
<1> QED BY <1>1, <1>5 DEF Answered, Promise!Leave

LEMMA ReturnPromise ==
    ASSUME IndInv, IndInv', NEW t \in Threads, Return(t)
    PROVE  [Promise!Next]_(Promise!vars)
<1>1. /\ At(t, "Return") /\ GoOn(t, <<>>) /\ returned' = returned + Arg(t)
      /\ UNCHANGED <<piecesCompleted, available, failed, uploadComplete, repairing>>
  BY DEF Return, chunkVars, endVars
<1>2. Weighs(<<>>, 0, 0, 0)
  BY LoadsNone
<1>3. Arg(t) \in Nat
  BY <1>1, <1>2, GoOnCounts DEF IndInv
<1>4. returned' # returned => returned' \in returned + 1 .. MemoryNeeded
  BY <1>1, <1>3, MemoryRises
<1>5. CASE returned' = returned
  BY <1>1, <1>5, Unseen
<1>6. CASE returned' # returned
  BY <1>1, <1>4, <1>6 DEF Promise!Next, Promise!GiveBack
<1> QED BY <1>5, <1>6

LEMMA NextPromise ==
    ASSUME IndInv, IndInv', Answered, [Next]_vars
    PROVE  [Promise!Next]_(Promise!vars)
<1>1. CASE ChunkStep
  <2>1. CASE managedDistributeChunkToWorkers
    BY <2>1, Unseen DEF managedDistributeChunkToWorkers, memoryVars, endVars
  <2> QED BY <1>1, <2>1, FetchPromise DEF ChunkStep
<1>2. ASSUME NEW t \in Threads, ThreadStep(t) PROVE [Promise!Next]_(Promise!vars)
  <2>1. CASE managedCleanUpUploadChunk(t)
    BY <2>1, CleanUpPromise
  <2>2. CASE Close(t)
    BY <2>2, ClosePromise DEF Promise!Next
  <2>3. CASE Return(t)
    BY <2>3, ReturnPromise
  <2>4. CASE \/ callQueueUploadChunk(t) \/ managedDropChunk(t)
             \/ managedDropUploadChunks(t) \/ managedNotifyStandbyWorkers(t)
    BY <2>4, Unseen DEF callQueueUploadChunk, managedDropChunk,
       managedDropUploadChunks, managedNotifyStandbyWorkers, chunkVars, memoryVars, endVars
  <2> QED BY <1>2, <2>1, <2>2, <2>3, <2>4 DEF ThreadStep
<1>3. ASSUME NEW w \in Workers, JobStep(w) PROVE [Promise!Next]_(Promise!vars)
  <2>1. CASE UploadSucceeds(w)
    BY <2>1, UploadPromise DEF Promise!Next
  <2>2. CASE \/ managedPerformUploadChunkJob(w) \/ ProcessDrops(w)
             \/ ProcessStandsBy(w) \/ ProcessRegisters(w) \/ managedUploadFailed(w)
    BY <2>2, Unseen DEF managedPerformUploadChunkJob, ProcessDrops, ProcessStandsBy,
       ProcessRegisters, managedUploadFailed, chunkVars, memoryVars, endVars
  <2> QED BY <1>3, <2>1, <2>2 DEF JobStep
<1>4. ASSUME NEW w \in Workers, managedKillUploading(w) PROVE UNCHANGED Promise!vars
  BY <1>4, Unseen DEF managedKillUploading, chunkVars, memoryVars, endVars
<1>5. CASE UNCHANGED vars
  BY <1>5, Unseen DEF vars, chunkVars, memoryVars, endVars
<1> QED BY <1>1, <1>2, <1>3, <1>4, <1>5 DEF Next

\* UploadChunk implements ChunkPromise: whatever the workers do and in which
\* order their cleanups run, whoever waits for the chunk gets one answer that
\* stands, no piece is uploaded after the end, the chunk leaves
\* repairingChunks once, and no more memory comes back than was granted.
THEOREM PromiseIsKept == Spec => KeepsPromise
<1>1. Init => Promise!Init
  BY InitPromise
<1>2. IndInv /\ IndInv' /\ Answered /\ [Next]_vars => [Promise!Next]_(Promise!vars)
  BY NextPromise
<1> QED BY <1>1, <1>2, Inductive, AlwaysAnswered, PTL DEF Spec, KeepsPromise, Promise!Spec

=============================================================================
