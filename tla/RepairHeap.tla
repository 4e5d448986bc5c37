----------------------------- MODULE RepairHeap ------------------------------
(***************************************************************************)
(* The way of a chunk from the file system to the upload workers: the      *)
(* uploadHeap, the map repairingChunks of the renter and the threads that  *)
(* pass chunks through them.  The repair loop, user uploads and the stuck  *)
(* loop build chunks and push them, the latter two from outside the loop,  *)
(* which they wake with a message if it sleeps; the repair loop pops a     *)
(* chunk and gives it to the workers; and a stream upload builds its       *)
(* chunks itself, in the order of the data.                                *)
(*                                                                         *)
(* An entry of repairingChunks keeps every other thread away from a chunk; *)
(* whoever holds the unfinishedUploadChunk has to close it.  owner says    *)
(* who holds it.  Which files and which chunks of them a pass chooses (the *)
(* directory heap and worstIgnoredHealth) is left open.  What the workers  *)
(* do to a chunk is the lifecycle that UploadChunk implements.             *)
(***************************************************************************)
EXTENDS Integers, FiniteSets

CONSTANTS
    NumSegments,          \* how many chunks of data the stream has
    Existing,             \* bound: chunks of the file that was there before
    MaxIndex,             \* bound: chunks the streamed file can grow to
    maxStuckChunksInHeap,
    MaxPasses,            \* bound: passes of uploads and the stuck loop at once
    MaxFaults             \* bound: health changes, pauses, failures

ASSUME SegmentsAssumption ==
    /\ NumSegments \in Nat \ {0}
    /\ MaxIndex \in Nat
    /\ Existing \in 0 .. MaxIndex
    /\ NumSegments <= MaxIndex
ASSUME HeapAssumption ==
    /\ maxStuckChunksInHeap \in Nat
    /\ MaxPasses \in Nat
    /\ MaxFaults \in Nat

Chunks == 1 .. MaxIndex

\* Threads that build chunks, all but one outside the repair loop; the holders
\* of chunk objects.  "left" holds the objects that the stream upload forgot.
Outside == {"upload", "stuck"}
Builders == {"repair"} \cup Outside
Holders == Builders \cup {"heap", "loop", "workers", "stream", "left"}

\* Health of a chunk: enough pieces, in need of repair, not recoverable.
Good == 0
Lost == 2
Healths == Good .. Lost
NeedsRepair(h) == h > Good

\* Where the workers are with a chunk.
Stages == {"none", "fetch", "upload", "available", "complete", "cleanup"}
Working == {"upload", "available", "complete"}

VARIABLES
    known,           \* chunks that their file has
    finished,        \* Finished of the streamed file
    health, stuck,   \* what the files say of each chunk
    repairing,       \* the keys of repairingChunks
    owner,           \* who holds the object of a chunk
    flagged,         \* chunks whose object has the field stuck
    stage,           \* where the workers are with it
    failing,         \* its fetch has failed
    late,            \* a thread that has yet to mark it after a failed fetch
    owes,            \* passes that have pushed chunks and not told the loop
    rpc,             \* threadedUploadAndRepair and managedRepairLoop
    wake,            \* a message for it in newUploads or repairNeeded
    paused,
    upc, idx,        \* the stream upload and its chunkIndex
    segment,         \* chunks of data read from the stream
    placed,          \* the data each chunk got from it, 0 for none
    skipped,         \* history: indexes it found in repair
    waits,           \* the chunks it waits for, and how their wait ended
    faults

fileVars == <<known, finished, health, stuck>>
workVars == <<stage, failing, late>>
streamVars == <<upc, idx, segment, placed, skipped>>
passVars == <<owes, wake>>
vars == <<fileVars, repairing, owner, flagged, workVars, passVars, rpc, paused,
          streamVars, waits, faults>>

Init ==
    /\ \E n \in 0 .. Existing : known = 1 .. n /\ finished = (n > 0)
    /\ health \in [Chunks -> {Good, Lost}]
    /\ \A c \in Chunks \ known : health[c] = Lost
    /\ stuck \in SUBSET {c \in known : health[c] = Lost}
    /\ repairing = {} /\ owner = [h \in Holders |-> {}]
    /\ flagged = {}
    /\ stage = [c \in Chunks |-> "none"]
    /\ failing = {} /\ late = {}
    /\ owes = {} /\ wake = FALSE
    /\ rpc = "top" /\ paused = FALSE
    /\ upc = "idle" /\ idx = 1 /\ segment = 0
    /\ placed = [i \in Chunks |-> 0] /\ skipped = {}
    /\ waits = [i \in Chunks |-> "none"]
    /\ faults = 0

-----------------------------------------------------------------------------
(* The objects of chunks *)

\* Mutant of Build: a chunk that is being repaired is built again.
BuildAgain(h, c) ==
    /\ repairing' = repairing \cup {c}
    /\ owner' = [owner EXCEPT ![h] = @ \cup {c}]
    /\ flagged' = flagged \cup ({c} \cap stuck)

\* managedBuildUnfinishedChunk, when the chunk is not being repaired.
Build(h, c) ==
    /\ c \notin repairing
    /\ repairing' = repairing \cup {c}
    /\ owner' = [owner EXCEPT ![h] = @ \cup {c}]
    /\ flagged' = flagged \cup ({c} \cap stuck)

Give(from, to, c) ==
    owner' = [owner EXCEPT ![from] = @ \ {c}, ![to] = @ \cup {c}]

\* Close, for some of the objects that h holds.  Nobody closes the available
\* channel of a chunk that the workers never had.
Close(h, cs) ==
    /\ repairing' = repairing \ cs
    /\ owner' = [owner EXCEPT ![h] = @ \ cs]
    /\ flagged' = flagged \ cs
    /\ waits' = [i \in Chunks |-> IF i \in cs /\ waits[i] = "live"
                                    THEN "dropped" ELSE waits[i]]

Heap == owner["heap"]
StuckHeap == Heap \cap flagged

\* managedPush of a local chunk; the maps of the heap are keyed by the id.
CanPush(c) ==
    /\ c \notin Heap
    /\ c \in flagged => Cardinality(StuckHeap) < maxStuckChunksInHeap

Fault == faults < MaxFaults /\ faults' = faults + 1

-----------------------------------------------------------------------------
(* callBuildAndPushChunks, managedBuildAndPushRandomChunk and              *)
(* managedAddStuckChunksToHeap, the order within a pass left open          *)

\* SetStuck of a chunk of a file; it fails for an unfinished one.
SetStuck(c) == stuck' = IF finished THEN stuck \cup {c} ELSE stuck

\* The passes of uploads and of the stuck loop that are under way.
Passes == {b \in Outside : owner[b] # {} \/ b \in owes}

\* The repair loop builds chunks at one place.  A pass builds the chunks of a
\* file before it pushes one of them.
Building(b) ==
    IF b = "repair" THEN rpc = "build"
    ELSE b \notin owes /\ Cardinality(Passes \ {b}) < MaxPasses

\* The chunks that builder b looks for: those of finished files, or stuck ones.
\* Whether a chunk is stuck was read before it is built, so that the stuck loop
\* may build one that no longer is and the others one that now is.
Eligible(b, c) ==
    /\ c \in known
    /\ finished \/ (b = "stuck" /\ c \in stuck)

\* Mutant of BuildNext: chunks of unfinished files are built as well.
BuildNextUnfinished(b, c) ==
    /\ Building(b) /\ c \in known
    /\ Build(b, c)
    /\ UNCHANGED <<fileVars, workVars, passVars, rpc, paused, streamVars,
                   waits, faults>>

BuildNext(b, c) ==
    /\ Building(b) /\ Eligible(b, c)
    /\ Build(b, c)
    /\ UNCHANGED <<fileVars, workVars, passVars, rpc, paused, streamVars,
                   waits, faults>>

\* Mutant of BuildError: the chunk is marked though its file is not finished.
BuildErrorMarks(c) ==
    /\ c \notin repairing /\ Fault
    /\ stuck' \in {stuck, stuck \cup {c}}

\* managedBuildUnfinishedChunk fails: the status of the chunk cannot be read,
\* or its pieces cannot, which marks it.  Nobody owns it.
BuildError(c) ==
    /\ c \notin repairing /\ Fault
    /\ UNCHANGED stuck \/ SetStuck(c)

BuildFails(b, c) ==
    /\ Building(b) /\ Eligible(b, c)
    /\ BuildError(c)
    /\ UNCHANGED <<known, finished, health, repairing, owner, flagged, workVars,
                   passVars, rpc, paused, streamVars, waits>>

\* setAllStuck, which refuses to mark an unfinished file.
SetAllStuck(all) ==
    /\ all => finished
    /\ stuck' = IF all THEN known ELSE {}

\* Too few workers for the file and too few hosts in the allowance: who looks
\* for unstuck chunks marks all of them, whoever owns them.
InsufficientHosts(b) ==
    /\ b # "stuck" /\ Building(b) /\ finished /\ Fault
    /\ SetAllStuck(TRUE)
    /\ UNCHANGED <<known, finished, health, repairing, owner, flagged, workVars,
                   passVars, rpc, paused, streamVars, waits>>

\* The user marks or clears all chunks of the file.
SetFileStuck(all) ==
    /\ Fault
    /\ SetAllStuck(all)
    /\ UNCHANGED <<known, finished, health, repairing, owner, flagged, workVars,
                   passVars, rpc, paused, streamVars, waits>>

\* The repair loop builds no more chunks in this pass.
AfterBuilding(b) == rpc' = IF b = "repair" THEN "push" ELSE rpc

\* managedPruneIncompleteChunks: a chunk that needs no repair is not stuck.
Prune(b, c) ==
    /\ c \in owner[b] /\ ~NeedsRepair(health[c])
    /\ stuck' = IF finished THEN stuck \ {c} ELSE stuck
    /\ Close(b, {c})
    /\ AfterBuilding(b)
    /\ UNCHANGED <<known, finished, health, stage, failing, late, passVars,
                   paused, streamVars, faults>>

\* managedPushChunkForRepair of a local chunk.  The room in the heap is looked
\* up before, under another hold of its lock.
Push(b, c) ==
    /\ c \in owner[b] /\ NeedsRepair(health[c]) /\ CanPush(c)
    /\ Give(b, "heap", c)
    /\ owes' = owes \cup ({b} \cap Outside)
    /\ AfterBuilding(b)
    /\ UNCHANGED <<fileVars, repairing, flagged, workVars, wake, paused,
                   streamVars, waits, faults>>

\* A chunk that is skipped for its health, that the heap has no room for or
\* that was not the random choice of the stuck loop.
Ignore(b, c) ==
    /\ c \in owner[b] /\ NeedsRepair(health[c])
    /\ Close(b, {c})
    /\ AfterBuilding(b)
    /\ UNCHANGED <<fileVars, stage, failing, late, passVars, paused,
                   streamVars, faults>>

\* Mutant of Signal: the stuck loop counts on others to wake the repair loop.
SignalUploads(b) ==
    /\ b \in owes /\ owner[b] = {}
    /\ owes' = owes \ {b}
    /\ wake' = (wake \/ b = "upload")
    /\ UNCHANGED <<fileVars, repairing, owner, flagged, workVars, rpc, paused,
                   streamVars, waits, faults>>

\* The pass of an upload or of the stuck loop is over: the repair loop gets a
\* message, from the stuck loop only if there are stuck chunks in the heap.  A
\* message that finds the channel full is dropped.
Signal(b) ==
    /\ b \in owes /\ owner[b] = {}
    /\ owes' = owes \ {b}
    /\ wake' = (wake \/ b = "upload" \/ StuckHeap # {})
    /\ UNCHANGED <<fileVars, repairing, owner, flagged, workVars, rpc, paused,
                   streamVars, waits, faults>>

\* Uploads that push nothing, or the chunks of another file, send theirs too.
NewUpload ==
    /\ wake' = TRUE
    /\ UNCHANGED <<fileVars, repairing, owner, flagged, workVars, owes, rpc,
                   paused, streamVars, waits, faults>>

\* The health loop updates the root directory, whose health is that of the
\* chunks of finished files that are not stuck.
UpdateRoot ==
    /\ finished /\ \E c \in known \ stuck : NeedsRepair(health[c])
    /\ wake' = TRUE
    /\ UNCHANGED <<fileVars, repairing, owner, flagged, workVars, owes, rpc,
                   paused, streamVars, waits, faults>>

-----------------------------------------------------------------------------
(* managedRepairLoop and threadedUploadAndRepair *)

\* The loop finds itself paused and waits, or goes on to build chunks.
CheckPaused ==
    /\ rpc = "top"
    /\ rpc' = IF paused THEN "paused" ELSE "build"
    /\ UNCHANGED <<fileVars, repairing, owner, flagged, workVars, passVars,
                   paused, streamVars, waits, faults>>

\* Nothing in the heap, and healthy directories: the loop waits on its channels.
Sleep ==
    /\ rpc = "build" /\ owner["repair"] = {} /\ Heap = {}
    /\ rpc' = "asleep"
    /\ UNCHANGED <<fileVars, repairing, owner, flagged, workVars, passVars,
                   paused, streamVars, waits, faults>>

\* The loop takes a message out of one of its channels.  One that the other
\* still has would wake it once more, which NewUpload may do at any time.
WakeUp ==
    /\ rpc = "asleep" /\ wake
    /\ rpc' = "top"
    /\ wake' = FALSE
    /\ UNCHANGED <<fileVars, repairing, owner, flagged, workVars, owes,
                   paused, streamVars, waits, faults>>

\* There are chunks in the heap or unhealthy directories: managedRepairLoop.
EnterLoop ==
    /\ rpc \in {"build", "push"} /\ owner["repair"] = {}
    /\ rpc' = "loop"
    /\ UNCHANGED <<fileVars, repairing, owner, flagged, workVars, passVars,
                   paused, streamVars, waits, faults>>

\* It ends when the heap is small while directories still need repair, and
\* resets the heap when it is paused or has found the heap empty.
LeaveLoop ==
    /\ rpc = "loop"
    /\ rpc' \in {"top"} \cup (IF paused \/ Heap = {} THEN {"reset"} ELSE {})
    /\ UNCHANGED <<fileVars, repairing, owner, flagged, workVars, passVars,
                   paused, streamVars, waits, faults>>

\* managedReset closes every chunk in the heap, also the ones that came since
\* the loop looked.
ResetHeap ==
    /\ rpc = "reset" \/ (rpc = "paused" /\ ~paused)
    /\ rpc' = "top"
    /\ Close("heap", Heap)
    /\ UNCHANGED <<fileVars, stage, failing, late, passVars, paused,
                   streamVars, faults>>

Pop(c) ==
    /\ rpc = "loop" /\ ~paused /\ c \in Heap
    /\ rpc' = "popped"
    /\ Give("heap", "loop", c)
    /\ UNCHANGED <<fileVars, repairing, flagged, workVars, passVars, paused,
                   streamVars, waits, faults>>

\* Mutant of NoWorkers: the chunk is dropped and not closed.
NoWorkersUnclosed(c) ==
    /\ rpc = "popped" /\ c \in owner["loop"] /\ Fault
    /\ rpc' = "loop"
    /\ UNCHANGED <<fileVars, repairing, owner, flagged, workVars, passVars,
                   paused, streamVars, waits>>

\* Too few workers, or no memory: the chunk is closed, and marked when the
\* allowance has too few hosts for it.
NoWorkers(c) ==
    /\ rpc = "popped" /\ c \in owner["loop"] /\ Fault
    /\ rpc' = "loop"
    /\ \/ UNCHANGED stuck
       \/ c \notin flagged /\ stuck' = stuck \cup {c}
    /\ Close("loop", {c})
    /\ UNCHANGED <<known, finished, health, stage, failing, late, passVars,
                   paused, streamVars>>

\* managedPrepareNextChunk: its memory is granted and a thread fetches it.
Prepare(c) ==
    /\ rpc = "popped" /\ c \in owner["loop"]
    /\ rpc' = "loop"
    /\ Give("loop", "workers", c)
    /\ stage' = [stage EXCEPT ![c] = "fetch"]
    /\ UNCHANGED <<fileVars, repairing, flagged, failing, late, passVars,
                   paused, streamVars, waits, faults>>

Pause ==
    /\ ~paused /\ Fault
    /\ paused' = TRUE
    /\ UNCHANGED <<fileVars, repairing, owner, flagged, workVars, passVars,
                   rpc, streamVars, waits>>

Resume ==
    /\ paused
    /\ paused' = FALSE
    /\ UNCHANGED <<fileVars, repairing, owner, flagged, workVars, passVars,
                   rpc, streamVars, waits, faults>>

-----------------------------------------------------------------------------
(* The chunk with the workers *)

\* The available channel is closed, with or without an error.
Available(c) == stage[c] \in {"available", "cleanup"}
CloseAvailable(c, answer) ==
    waits' = [i \in Chunks |-> IF i = c /\ waits[i] = "live"
                               THEN answer ELSE waits[i]]

\* SetStuck of a chunk that was not repaired; a renter that is offline leaves
\* it alone.
MarkStuck(c) == UNCHANGED stuck \/ SetStuck(c)

Answer(c) == IF c \in failing \/ health[c] = Lost THEN "err" ELSE "ok"

\* ReadChunk of the shard: the next data goes to this chunk.
ReadShard(c) ==
    /\ segment' = segment + 1
    /\ placed' = [placed EXCEPT ![c] = segment + 1]

\* The stream upload waits for its shard while a chunk of its own is fetched.
Sourced(c) == upc = "reading" /\ c = idx

\* The logical data of the chunk comes from its source reader, from disk or
\* from the network.
Fetch(c) ==
    /\ c \in owner["workers"] /\ stage[c] = "fetch"
    /\ stage' = [stage EXCEPT ![c] = "upload"]
    /\ \/ Sourced(c) /\ ReadShard(c) /\ upc' = "read"
       \/ ~Sourced(c) /\ UNCHANGED <<segment, placed, upc>>
    /\ UNCHANGED <<fileVars, repairing, owner, flagged, failing, late,
                   passVars, rpc, paused, idx, skipped, waits, faults>>

\* Mutant of FetchFails: the stream is not told that its shard was given up.
FetchFailsUnsignaled(c) ==
    /\ c \in owner["workers"] /\ stage[c] = "fetch" /\ Fault
    /\ stage' = [stage EXCEPT ![c] = "complete"]
    /\ failing' = failing \cup {c}
    /\ UNCHANGED <<fileVars, repairing, owner, flagged, late, passVars, rpc,
                   paused, streamVars, waits>>

\* When the reader of the stream has failed, the upload ends; when its data
\* does not have the roots of the pieces that are on hosts already, it goes on.
FetchFails(c) ==
    /\ c \in owner["workers"] /\ stage[c] = "fetch" /\ Fault
    /\ stage' = [stage EXCEPT ![c] = "complete"]
    /\ failing' = failing \cup {c}
    /\ \/ Sourced(c) /\ upc' = "done" /\ UNCHANGED <<segment, placed>>
       \/ Sourced(c) /\ ReadShard(c) /\ upc' = "read"
       \/ ~Sourced(c) /\ UNCHANGED <<segment, placed, upc>>
    /\ UNCHANGED <<fileVars, repairing, owner, flagged, late, passVars, rpc,
                   paused, idx, skipped, waits>>

\* More pieces are on hosts, enough to recover the chunk.
Upload(c) ==
    /\ c \in owner["workers"] /\ stage[c] \in {"upload", "available"}
    /\ \E h \in Good .. health[c] - 1 : health' = [health EXCEPT ![c] = h]
    /\ stage' = [stage EXCEPT ![c] = "available"]
    /\ CloseAvailable(c, "ok")
    /\ UNCHANGED <<known, finished, stuck, repairing, owner, flagged, failing,
                   late, passVars, rpc, paused, streamVars, faults>>

\* Mutant of Complete: who waits for the chunk is not answered.
CompleteUnanswered(c) ==
    /\ c \in owner["workers"] /\ stage[c] \in Working
    /\ stage' = [stage EXCEPT ![c] = "cleanup"]
    /\ UNCHANGED <<fileVars, repairing, owner, flagged, failing, late,
                   passVars, rpc, paused, streamVars, waits, faults>>

\* managedCleanUpUploadChunk finds the chunk complete; who still waits for it
\* gets an error unless it can be recovered.
Complete(c) ==
    /\ c \in owner["workers"] /\ stage[c] \in Working
    /\ stage' = [stage EXCEPT ![c] = "cleanup"]
    /\ CloseAvailable(c, Answer(c))
    /\ UNCHANGED <<fileVars, repairing, owner, flagged, failing, late,
                   passVars, rpc, paused, streamVars, faults>>

\* managedUpdateUploadChunkStuckStatus; UpdateMetadata, which finishes a file
\* once all its chunks can be recovered; and Close.
CleanUp(c) ==
    /\ c \in owner["workers"] /\ stage[c] = "cleanup"
    /\ stage' = [stage EXCEPT ![c] = "none"]
    /\ \/ NeedsRepair(health[c]) /\ MarkStuck(c)
       \/ ~NeedsRepair(health[c]) /\ stuck' = stuck \ {c}
    /\ finished' = (finished \/ (\A i \in known : health[i] < Lost))
    /\ Close("workers", {c})
    /\ failing' = failing \ {c}
    /\ late' = IF c \in failing THEN late \cup {c} ELSE late
    /\ UNCHANGED <<known, health, passVars, rpc, paused, streamVars, faults>>

\* The thread whose fetch failed marks the chunk after the cleanup closed it,
\* unless the renter is offline.
MarkLate(c) ==
    /\ c \in late
    /\ late' = late \ {c}
    /\ MarkStuck(c)
    /\ UNCHANGED <<known, finished, health, repairing, owner, flagged, stage,
                   failing, passVars, rpc, paused, streamVars, waits, faults>>

\* Hosts go offline.  A chunk in repair has the health its object counts: what
\* happens to it in the meantime is seen when it is built again.
HealthChanges(c, h) ==
    /\ c \in known \ repairing /\ health[c] < h /\ Fault
    /\ health' = [health EXCEPT ![c] = h]
    /\ UNCHANGED <<known, finished, stuck, repairing, owner, flagged, workVars,
                   passVars, rpc, paused, streamVars, waits>>

-----------------------------------------------------------------------------
(* callUploadStreamFromReaderWithFileNode *)

\* GrowNumChunks for the next index.
GrowNumChunks ==
    /\ upc = "idle" /\ idx <= MaxIndex
    /\ upc' = "build"
    /\ known' = known \cup {idx}
    /\ UNCHANGED <<finished, health, stuck, repairing, owner, flagged,
                   workVars, passVars, rpc, paused, idx, segment, placed,
                   skipped, waits, faults>>

\* The file cannot be grown: the upload ends.
GrowFails ==
    /\ upc = "idle" /\ idx <= MaxIndex /\ Fault
    /\ upc' = "done"
    /\ UNCHANGED <<fileVars, repairing, owner, flagged, workVars, passVars,
                   rpc, paused, idx, segment, placed, skipped, waits>>

\* A chunk that is being repaired is waited for, and its data is not read.
FindExisting ==
    /\ upc = "build" /\ idx \in repairing
    /\ upc' = "idle" /\ idx' = idx + 1
    /\ skipped' = skipped \cup {idx}
    /\ waits' = [waits EXCEPT ![idx] =
                   IF Available(idx) THEN Answer(idx) ELSE "live"]
    /\ UNCHANGED <<fileVars, repairing, owner, flagged, workVars, passVars,
                   rpc, paused, segment, placed, faults>>

BuildStreamChunk ==
    /\ upc = "build"
    /\ Build("stream", idx)
    /\ upc' \in IF NeedsRepair(health[idx]) THEN {"push"} ELSE {"skip", "push"}
    /\ UNCHANGED <<fileVars, workVars, passVars, rpc, paused, idx, segment,
                   placed, skipped, waits, faults>>

BuildStreamFails ==
    /\ upc = "build"
    /\ BuildError(idx)
    /\ upc' = "done"
    /\ UNCHANGED <<known, finished, health, repairing, owner, flagged, workVars,
                   passVars, rpc, paused, idx, segment, placed, skipped, waits>>

\* The chunk has all its pieces; its data is read all the same.  Nobody closes
\* the chunk.
SkipChunk ==
    /\ upc = "skip"
    /\ upc' = "read"
    /\ ReadShard(idx)
    /\ Give("stream", "left", idx)
    /\ UNCHANGED <<fileVars, repairing, flagged, workVars, passVars, rpc,
                   paused, idx, skipped, waits, faults>>

\* The data cannot be read: the upload ends and nobody closes the chunk.
SkipFails ==
    /\ upc = "skip" /\ Fault
    /\ upc' = "done"
    /\ Give("stream", "left", idx)
    /\ UNCHANGED <<fileVars, repairing, flagged, workVars, passVars, rpc,
                   paused, idx, segment, placed, skipped, waits>>

\* managedPushChunkForRepair of a stream chunk: managedPush takes a chunk with
\* this id out of the heap, and the memory is requested.
PushStreamChunk ==
    /\ upc = "push"
    /\ upc' = "reading"
    /\ owner' = [owner EXCEPT !["heap"] = @ \ {idx}, !["stream"] = @ \ {idx},
                              !["workers"] = @ \cup {idx}]
    /\ stage' = [stage EXCEPT ![idx] = "fetch"]
    /\ waits' = [waits EXCEPT ![idx] = "live"]
    /\ UNCHANGED <<fileVars, repairing, flagged, failing, late, passVars, rpc,
                   paused, idx, segment, placed, skipped, faults>>

\* The caller's context ends while the memory is requested: the upload returns
\* the error and does not close the chunk.
CancelRequest ==
    /\ upc = "push" /\ Fault
    /\ upc' = "done"
    /\ owner' = [owner EXCEPT !["heap"] = @ \ {idx}, !["stream"] = @ \ {idx},
                              !["left"] = @ \cup {idx}]
    /\ UNCHANGED <<fileVars, repairing, flagged, workVars, passVars, rpc,
                   paused, idx, segment, placed, skipped, waits>>

\* Mutant of NextChunk: the loop does not see the end of the data.
NextChunkRetries ==
    /\ upc = "read"
    /\ upc' = "idle"
    /\ idx' = IF idx \in failing THEN idx ELSE idx + 1
    /\ UNCHANGED <<fileVars, repairing, owner, flagged, workVars, passVars,
                   rpc, paused, segment, placed, skipped, waits, faults>>

\* The shard was read: on to the next chunk, or Peek finds no more data.
NextChunk ==
    /\ upc = "read"
    /\ upc' = IF segment = NumSegments THEN "wait" ELSE "idle"
    /\ idx' = IF segment = NumSegments THEN idx ELSE idx + 1
    /\ UNCHANGED <<fileVars, repairing, owner, flagged, workVars, passVars,
                   rpc, paused, segment, placed, skipped, waits, faults>>

\* The chunks of is are available.
Passed(is) == \A i \in is : waits[i] \in {"none", "ok"}

\* The chunks are waited for one by one; the first error is returned.
WaitAvailable ==
    /\ upc = "wait"
    /\ \/ \E i \in Chunks : waits[i] = "err" /\ Passed(1 .. i - 1)
       \/ Passed(Chunks)
    /\ upc' = "done"
    /\ UNCHANGED <<fileVars, repairing, owner, flagged, workVars, passVars,
                   rpc, paused, idx, segment, placed, skipped, waits, faults>>

-----------------------------------------------------------------------------
BuilderStep(b, c) == Prune(b, c) \/ Push(b, c) \/ Ignore(b, c)

LoopStep ==
    \/ CheckPaused \/ Sleep \/ EnterLoop \/ LeaveLoop \/ ResetHeap
    \/ WakeUp
    \/ \E c \in Chunks : Pop(c) \/ NoWorkers(c) \/ Prepare(c)

WorkStep(c) ==
    Fetch(c) \/ FetchFails(c) \/ Upload(c) \/ Complete(c) \/ CleanUp(c)

StreamStep ==
    \/ GrowNumChunks \/ GrowFails \/ FindExisting \/ BuildStreamChunk
    \/ BuildStreamFails \/ SkipChunk \/ SkipFails \/ PushStreamChunk
    \/ CancelRequest \/ NextChunk \/ WaitAvailable

Next ==
    \/ \E b \in Builders, c \in Chunks :
         BuildNext(b, c) \/ BuildFails(b, c) \/ BuilderStep(b, c)
    \/ \E b \in Outside : Signal(b)
    \/ \E b \in Builders : InsufficientHosts(b)
    \/ \E all \in BOOLEAN : SetFileStuck(all)
    \/ LoopStep \/ NewUpload \/ UpdateRoot \/ Pause \/ Resume \/ StreamStep
    \/ \E c \in Chunks : WorkStep(c) \/ MarkLate(c)
    \/ \E c \in Chunks, h \in Healths : HealthChanges(c, h)

Spec == Init /\ [][Next]_vars

\* Threads that can run do; a pause ends; the health loop comes to the root
\* directory again and again.  managedRepairLoop pops chunks in the end: it
\* leaves the heap alone only while directories need repair, each time the
\* loop takes some of them off the directory heap, and once none is left it
\* works the upload heap down.  Which chunk is popped is not fair.  Nobody has
\* to start a new pass.
Fairness ==
    /\ \A b \in Builders, c \in Chunks : WF_vars(BuilderStep(b, c))
    /\ \A b \in Outside : WF_vars(Signal(b))
    /\ WF_vars(LoopStep) /\ SF_vars(\E c \in Chunks : Pop(c))
    /\ \A c \in Chunks : WF_vars(WorkStep(c))
    /\ WF_vars(UpdateRoot) /\ WF_vars(Resume) /\ WF_vars(StreamStep)

FairSpec == Spec /\ Fairness

-----------------------------------------------------------------------------
(* Properties *)

\* The types of the variables; the stream upload reads no more than there is.
TypeOK ==
    /\ known \subseteq Chunks /\ finished \in BOOLEAN
    /\ health \in [Chunks -> Healths] /\ stuck \subseteq Chunks
    /\ repairing \subseteq Chunks /\ owner \in [Holders -> SUBSET Chunks]
    /\ flagged \subseteq Chunks /\ stage \in [Chunks -> Stages]
    /\ failing \subseteq Chunks /\ late \subseteq Chunks
    /\ owes \subseteq Outside /\ wake \in BOOLEAN
    /\ rpc \in {"top", "paused", "build", "push", "asleep", "loop", "popped",
                "reset"}
    /\ paused \in BOOLEAN
    /\ upc \in {"idle", "build", "skip", "push", "reading", "read", "wait",
                "done"}
    /\ idx \in 1 .. MaxIndex + 1 /\ segment \in 0 .. NumSegments
    /\ placed \in [Chunks -> 0 .. NumSegments] /\ skipped \subseteq Chunks
    /\ waits \in [Chunks -> {"none", "live", "ok", "err", "dropped"}]
    /\ faults \in 0 .. MaxFaults

\* A chunk in repairingChunks has exactly one holder and every object somebody
\* holds is entered there: no two threads repair a chunk at once, Close finds
\* the entry it deletes (Critical in Close), and managedPush never finds the
\* chunk that it pushes in the heap.  Only what a stream upload has left
\* without closing it has a holder that does nothing.
OneOwner ==
    /\ \A g, h \in Holders : g # h => owner[g] \cap owner[h] = {}
    /\ repairing = UNION {owner[h] : h \in Holders}

\* Whoever holds a chunk is where the next step on the chunk is taken: the
\* repair loop while it builds and pushes chunks and, with one chunk, between
\* Pop and managedPrepareNextChunk, the stream upload between the build and the
\* push, with the chunk of its index, and the workers in a stage.  No entry is
\* with a thread that has moved on.
HoldersAct ==
    /\ owner["workers"] = {c \in Chunks : stage[c] # "none"}
    /\ owner["repair"] # {} => rpc \in {"build", "push"}
    /\ IF rpc = "popped" THEN \E c \in Chunks : owner["loop"] = {c}
       ELSE owner["loop"] = {}
    /\ owner["stream"] = IF upc \in {"skip", "push"} THEN {idx} ELSE {}

\* A chunk of an upload that is not finished is never marked as stuck, whoever
\* marks it and however late: the repair loop and the stuck loop leave the
\* chunks of unfinished files to the upload.
OnlyFinishedStuck == stuck # {} => finished

\* Every chunk gets the data at its place in the stream.  The upload reads data
\* even for a chunk that needs none, "Otherwise we will upload the wrong chunk
\* for the next chunkIndex"; for a chunk found in repair it does not.
StreamInOrder == \A i \in Chunks : placed[i] # 0 => placed[i] = i

\* The available channel of a chunk that the stream upload gave to the workers
\* is closed before the chunk is, with or without an error.  Only a chunk that
\* it found in repair can be closed by the heap or by a thread that builds
\* chunks, with nobody to tell the upload that waits for it.
OwnChunksAnswered == \A i \in Chunks : waits[i] = "dropped" => i \in skipped

\* Who holds a chunk, for entries rep of repairingChunks and objects own.
Holder(rep, own, c) ==
    IF c \notin rep THEN "nobody"
    ELSE IF \E h \in Holders : c \in own[h]
         THEN CHOOSE h \in Holders : c \in own[h]
         ELSE "lost"

Custody == INSTANCE ChunkCustody
    WITH holder <- [c \in Chunks |-> Holder(repairing, owner, c)]

\* A chunk goes from hand to hand as ChunkCustody says, whatever the builders,
\* the loop, the workers and the stream upload do in between: it is closed by
\* its holder only, reaches the workers over the heap and the loop or from the
\* stream, is repaired by nobody else, and is not touched by the repair and
\* the stuck loop before its upload is finished.
ImplementsCustody == Custody!Spec

\* Chunks are not pushed for ever.  The heap is ordered by priority: chunks
\* that come later may be popped before one that waits.
HeapSettles == ~[]<><<\E b \in Builders, c \in Chunks : Push(b, c)>>_vars

\* Unless new chunks are pushed for ever, an entry of repairingChunks is removed
\* in the end, through pauses, resets of the heap, missing workers and failed
\* fetches: a chunk in the heap finds the repair loop awake or about to be woken
\* by who pushed it, by the stuck loop or by the health loop.  Two kinds of
\* entries may stay: what the stream upload left; and a chunk in the heap that
\* was marked since it was built, which the stuck loop does not count, as its
\* object is not stuck, and the health loop does not, as its file says so.
EntriesRemoved ==
    HeapSettles =>
        \A c \in Chunks :
            c \in repairing ~>
                \/ c \notin repairing \/ c \in owner["left"]
                \/ c \in Heap \cap (stuck \ flagged)

\* Then a stream upload that has started a chunk returns, unless a chunk it
\* found in repair was closed without an answer (or the model has no chunks
\* left).
StreamReturns ==
    HeapSettles =>
        (upc = "build" ~> \/ upc = "done" \/ idx > MaxIndex
                          \/ \E i \in Chunks : waits[i] = "dropped")

=============================================================================
