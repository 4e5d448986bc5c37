-------------------------- MODULE RepairHeapProofs ---------------------------
(***************************************************************************)
(* The invariants of RepairHeap for every number of chunks, every length   *)
(* of the stream and every bound: chunks have one owner, only finished     *)
(* files have stuck chunks, the stream is in order as long as no chunk of  *)
(* it was found in repair, and the stream upload is told what became of    *)
(* the chunks it gave to the workers.                                      *)
(***************************************************************************)
EXTENDS RepairHeap, FiniteSetTheorems, TLAPS

-----------------------------------------------------------------------------
(* The inductive invariant *)

\* Before a shard is read, the chunks before idx have got their data or were
\* skipped, and there is data left; after it idx has got its data as well.
Ahead == {"idle", "build", "skip", "push", "reading"}

Position ==
    /\ upc \in {"build", "skip", "push", "reading", "read"} => idx \in Chunks
    /\ skipped \subseteq 1 .. idx - 1
    /\ upc \in Ahead => /\ segment + Cardinality(skipped) = idx - 1
                        /\ segment < NumSegments
    /\ upc = "read" => segment + Cardinality(skipped) = idx
    /\ \A i \in Chunks : placed[i] # 0 =>
            i < idx \/ (i = idx /\ upc \notin Ahead)

\* The data in a chunk is that of its place in the stream, shifted by the chunks
\* before it that were found in repair and got no data.
StreamShifted ==
    \A i \in Chunks :
        placed[i] # 0 => placed[i] = i - Cardinality({j \in skipped : j < i})

\* The stream upload holds the chunk that it has built.
StreamHolds == upc \in {"skip", "push"} => idx \in owner["stream"]

\* Only chunks of finished files are on their way to the repair loop.
QueuedFinished ==
    \A h \in Builders \cup {"heap", "loop"} : owner[h] # {} => finished

\* A chunk of its own that the stream upload waits for is with the workers, who
\* have not cleaned it up.
LiveHeld ==
    \A i \in Chunks : waits[i] = "live" /\ i \notin skipped =>
        i \in owner["workers"] /\ stage[i] # "cleanup"

\* A chunk in its cleanup has been answered for.
CleanedAnswered ==
    \A i \in Chunks : stage[i] = "cleanup" => waits[i] # "live"

HeapInv == OneOwner /\ StreamHolds /\ OnlyFinishedStuck /\ QueuedFinished

\* Steps of the repair loop that touch no chunk, and steps of other threads that
\* touch none beyond what its file says of it.
LoopMove == CheckPaused \/ Sleep \/ WakeUp \/ EnterLoop \/ LeaveLoop

Aside ==
    \/ \E b \in Builders, c \in Chunks : BuildFails(b, c)
    \/ \E b \in Outside : Signal(b)
    \/ \E b \in Builders : InsufficientHosts(b)
    \/ \E all \in BOOLEAN : SetFileStuck(all)
    \/ NewUpload \/ UpdateRoot \/ Pause \/ Resume

-----------------------------------------------------------------------------
(* The stream *)

LEMMA ChunkType == Chunks \subseteq Nat \ {0} /\ MaxIndex \in Nat
BY SegmentsAssumption DEF Chunks

\* The skipped indexes are finitely many.
LEMMA SkippedFinite ==
    ASSUME TypeOK, Position
    PROVE  IsFiniteSet(skipped) /\ Cardinality(skipped) \in Nat
<1>1. idx \in Int /\ skipped \subseteq 1 .. idx - 1
  BY ChunkType DEF TypeOK, Position
<1>2. IsFiniteSet(1 .. idx - 1)
  BY <1>1, FS_Interval
<1> QED
  BY <1>1, <1>2, FS_Subset, FS_CardinalityType

LEMMA InitStream == Init => TypeOK /\ Position /\ StreamShifted
<1> SUFFICES ASSUME Init PROVE TypeOK /\ Position /\ StreamShifted
  OBVIOUS
<1>1. Chunks \subseteq Nat \ {0} /\ Existing \in 0 .. MaxIndex
  BY ChunkType, SegmentsAssumption
<1> PICK n \in 0 .. Existing : known = 1 .. n /\ finished = (n > 0)
  BY DEF Init
<1>2. known \subseteq Chunks
  BY <1>1, SegmentsAssumption DEF Chunks
<1>3. TypeOK
  <2>1. finished \in BOOLEAN /\ paused \in BOOLEAN /\ wake \in BOOLEAN
    <3>1. (n > 0) \in BOOLEAN
      BY <1>1, SegmentsAssumption, SMT
    <3> QED
      BY <3>1, Zenon DEF Init
  <2>2. health \in [Chunks -> Healths]
    BY DEF Init, Healths, Good, Lost
  <2>3. stage \in [Chunks -> Stages]
    BY DEF Init, Stages
  <2>4. idx \in 1 .. MaxIndex + 1 /\ segment \in 0 .. NumSegments
        /\ faults \in 0 .. MaxFaults
        /\ placed \in [Chunks -> 0 .. NumSegments]
    BY SegmentsAssumption, HeapAssumption DEF Init
  <2>5. stuck \subseteq Chunks
    BY <1>2 DEF Init
  <2> QED
    BY <1>2, <2>1, <2>2, <2>3, <2>4, <2>5 DEF Init, TypeOK
<1>4. Cardinality({}) = 0
  BY FS_EmptySet
<1>5. Position
  BY <1>1, <1>4, SegmentsAssumption DEF Init, Position, Ahead
<1> QED
  BY <1>3, <1>5 DEF Init, StreamShifted

\* A shard is read: its chunk gets the next data.
LEMMA ReadShardStream ==
    ASSUME TypeOK, Position, StreamShifted,
           upc \in {"skip", "reading"}, ReadShard(idx),
           upc' = "read", UNCHANGED <<idx, skipped>>
    PROVE  /\ Position' /\ StreamShifted'
           /\ segment' \in 0 .. NumSegments
           /\ placed' \in [Chunks -> 0 .. NumSegments]
<1>1. /\ idx \in Chunks /\ idx \in Nat /\ Cardinality(skipped) \in Nat
      /\ segment + Cardinality(skipped) = idx - 1 /\ segment < NumSegments
      /\ segment \in Nat /\ NumSegments \in Nat
      /\ skipped \subseteq 1 .. idx - 1
  BY SkippedFinite, ChunkType, SegmentsAssumption DEF TypeOK, Position, Ahead
<1>2. /\ segment' = segment + 1 /\ placed' = [placed EXCEPT ![idx] = segment + 1]
      /\ segment' \in 0 .. NumSegments
      /\ placed' \in [Chunks -> 0 .. NumSegments]
  BY <1>1 DEF ReadShard, TypeOK
<1>3. \A i \in Chunks : placed[i] # 0 => i < idx
  BY <1>1 DEF Position, Ahead
<1>4. Position'
  <2>1. \A i \in Chunks : placed'[i] # 0 => i < idx \/ i = idx
    BY <1>1, <1>2, <1>3 DEF TypeOK
  <2> QED
    BY <1>1, <1>2, <2>1 DEF Position, Ahead
<1>5. {j \in skipped : j < idx} = skipped
  <2>1. \A j \in skipped : j < idx
    BY <1>1
  <2> QED
    BY <2>1
<1>6. placed'[idx] = idx - Cardinality({j \in skipped : j < idx})
  <2>1. placed'[idx] = segment + 1
    BY <1>1, <1>2 DEF TypeOK
  <2>2. segment + 1 = idx - Cardinality(skipped)
    BY <1>1
  <2> QED BY <1>5, <2>1, <2>2
<1>7. \A i \in Chunks : i # idx => placed'[i] = placed[i]
  BY <1>2 DEF TypeOK
<1>8. StreamShifted'
  BY <1>6, <1>7 DEF StreamShifted
<1> QED
  BY <1>2, <1>4, <1>8

\* A chunk in repair is passed over: the later chunks get earlier data.
LEMMA FindExistingStream ==
    ASSUME TypeOK, Position, StreamShifted, FindExisting
    PROVE  Position' /\ StreamShifted'
<1>1. /\ idx \in Chunks /\ idx \in Nat /\ skipped \subseteq 1 .. idx - 1
      /\ segment + Cardinality(skipped) = idx - 1 /\ segment < NumSegments
      /\ segment \in Nat
      /\ IsFiniteSet(skipped) /\ Cardinality(skipped) \in Nat
  BY SkippedFinite, ChunkType, SegmentsAssumption
     DEF TypeOK, Position, Ahead, FindExisting
<1>2. /\ idx' = idx + 1 /\ skipped' = skipped \cup {idx} /\ upc' = "idle"
      /\ UNCHANGED <<segment, placed>>
  BY DEF FindExisting
<1>3. Cardinality(skipped') = Cardinality(skipped) + 1
  <2>1. idx \notin skipped
    BY <1>1
  <2> QED
    BY <1>1, <1>2, <2>1, FS_AddElement
<1>4. \A i \in Chunks : placed[i] # 0 => i < idx
  BY <1>1 DEF Position, Ahead, FindExisting
<1>5. Position'
  BY <1>1, <1>2, <1>3, <1>4, ChunkType DEF Position, Ahead
<1>6. \A i \in Chunks : i < idx =>
        {j \in skipped' : j < i} = {j \in skipped : j < i}
  BY <1>1, <1>2, ChunkType
<1> QED
  BY <1>2, <1>4, <1>5, <1>6 DEF StreamShifted

\* The shard was read: the next index comes with the next data.
LEMMA NextChunkStream ==
    ASSUME TypeOK, Position, StreamShifted, NextChunk
    PROVE  Position' /\ StreamShifted' /\ idx' \in 1 .. MaxIndex + 1
<1>1. /\ idx \in Chunks /\ idx \in Nat /\ skipped \subseteq 1 .. idx - 1
      /\ idx \in 1 .. MaxIndex /\ MaxIndex \in Nat
      /\ segment + Cardinality(skipped) = idx
      /\ segment \in 0 .. NumSegments /\ NumSegments \in Nat
      /\ Cardinality(skipped) \in Nat
  BY SkippedFinite, ChunkType, SegmentsAssumption
     DEF TypeOK, Position, NextChunk, Chunks
<1>2. UNCHANGED <<segment, placed, skipped>>
  BY DEF NextChunk
<1>3. \A i \in Chunks : placed[i] # 0 => i < idx \/ i = idx
  BY DEF Position
<1>4. StreamShifted'
  BY <1>2 DEF StreamShifted
<1>5. CASE segment = NumSegments
  <2>1. upc' = "wait" /\ idx' = idx
    BY <1>5 DEF NextChunk
  <2> QED
    BY <1>1, <1>2, <1>3, <1>4, <2>1 DEF Position, Ahead
<1>6. CASE segment # NumSegments
  <2>1. upc' = "idle" /\ idx' = idx + 1
    BY <1>6 DEF NextChunk
  <2> QED
    BY <1>1, <1>2, <1>3, <1>4, <1>6, <2>1, ChunkType DEF Position, Ahead
<1> QED
  BY <1>5, <1>6

\* Steps that move the stream upload without touching its data.
LEMMA MoveStream ==
    ASSUME TypeOK, Position, StreamShifted,
           UNCHANGED <<idx, segment, placed, skipped>>,
           \/ upc' = upc
           \/ upc \in Ahead /\ upc' \in {"build", "skip", "push", "reading"}
              /\ idx \in Chunks
           \/ upc' = "done"
    PROVE  Position' /\ StreamShifted'
<1>1. StreamShifted'
  BY DEF StreamShifted
<1>2. CASE upc' = upc
  BY <1>1, <1>2 DEF Position
<1>3. CASE upc \in Ahead /\ upc' \in {"build", "skip", "push", "reading"}
           /\ idx \in Chunks
  BY <1>1, <1>3 DEF Position, Ahead
<1>4. CASE upc' = "done"
  BY <1>1, <1>4 DEF Position, Ahead
<1> QED
  BY <1>2, <1>3, <1>4


-----------------------------------------------------------------------------
(* Types *)

LEMMA BuildType ==
    ASSUME TypeOK, NEW h \in Holders, NEW c \in Chunks, Build(h, c)
    PROVE  /\ repairing' \subseteq Chunks /\ flagged' \subseteq Chunks
           /\ owner' \in [Holders -> SUBSET Chunks]
BY DEF TypeOK, Build

LEMMA GiveType ==
    ASSUME TypeOK, NEW g \in Holders, NEW h \in Holders, NEW c \in Chunks,
           Give(g, h, c)
    PROVE  owner' \in [Holders -> SUBSET Chunks]
BY DEF TypeOK, Give

WaitValues == {"none", "live", "ok", "err", "dropped"}

LEMMA CloseType ==
    ASSUME TypeOK, NEW h \in Holders, NEW cs \in SUBSET Chunks, Close(h, cs)
    PROVE  /\ repairing' \subseteq Chunks /\ flagged' \subseteq Chunks
           /\ owner' \in [Holders -> SUBSET Chunks]
           /\ waits' \in [Chunks -> WaitValues]
<1>1. waits' \in [Chunks -> WaitValues]
  BY DEF TypeOK, Close, WaitValues
<1> QED
  BY <1>1 DEF TypeOK, Close

LEMMA AnswerType ==
    ASSUME TypeOK, NEW c \in Chunks, NEW a \in {"ok", "err"},
           CloseAvailable(c, a)
    PROVE  waits' \in [Chunks -> WaitValues]
BY DEF TypeOK, CloseAvailable, WaitValues

LEMMA FaultType == ASSUME TypeOK, Fault PROVE faults' \in 0 .. MaxFaults
BY HeapAssumption DEF TypeOK, Fault

LEMMA HolderNames ==
    /\ Builders \subseteq Holders
    /\ {"heap", "loop", "workers", "stream", "left"} \subseteq Holders
BY DEF Holders

\* The holders of a chunk, the files and the waits after a step of a builder.
LEMMA BuilderType ==
    ASSUME TypeOK, NEW b \in Builders, NEW c \in Chunks,
           BuildNext(b, c) \/ BuilderStep(b, c)
    PROVE  TypeOK'
<1>1. b \in Holders
  BY HolderNames
<1>2. CASE BuildNext(b, c)
  BY <1>1, <1>2, BuildType
     DEF BuildNext, TypeOK, passVars, fileVars, workVars, streamVars
<1>3. CASE Prune(b, c)
  <2>1. stuck' \subseteq Chunks
    BY <1>3 DEF Prune, TypeOK
  <2> QED
    BY <1>1, <1>3, <2>1, CloseType
       DEF Prune, AfterBuilding, TypeOK, passVars, streamVars, WaitValues
<1>4. CASE Push(b, c)
  <2>1. owes' \subseteq Outside
    BY <1>4 DEF Push, TypeOK
  <2> QED
    BY <1>1, <1>4, <2>1, HolderNames, GiveType
       DEF Push, AfterBuilding, TypeOK, fileVars, workVars, streamVars
<1>5. CASE Ignore(b, c)
  BY <1>1, <1>5, CloseType
     DEF Ignore, AfterBuilding, TypeOK, passVars, fileVars, streamVars, WaitValues
<1> QED
  BY <1>2, <1>3, <1>4, <1>5 DEF BuilderStep

LEMMA LoopType == ASSUME TypeOK, LoopStep PROVE TypeOK'
<1>1. CASE LoopMove
  <2>1. /\ wake' \in BOOLEAN
        /\ rpc' \in {"top", "paused", "build", "asleep", "loop", "reset"}
    BY <1>1, Zenon DEF LoopMove, CheckPaused, Sleep, WakeUp, EnterLoop, LeaveLoop,
                passVars, TypeOK
  <2>2. /\ UNCHANGED <<fileVars, repairing, owner, flagged, workVars, owes,
                       paused, streamVars, waits, faults>>
    BY <1>1 DEF LoopMove, CheckPaused, Sleep, WakeUp, EnterLoop, LeaveLoop,
                passVars
  <2> QED
    BY <2>1, <2>2 DEF TypeOK, fileVars, workVars, streamVars
<1>2. CASE ResetHeap
  <2>1. Heap \in SUBSET Chunks
    BY HolderNames DEF TypeOK, Heap
  <2> QED
    BY <1>2, <2>1, HolderNames, CloseType
       DEF ResetHeap, TypeOK, passVars, fileVars, streamVars, WaitValues
<1>3. ASSUME NEW c \in Chunks, Pop(c) PROVE TypeOK'
  BY <1>3, HolderNames, GiveType
     DEF Pop, TypeOK, passVars, fileVars, workVars, streamVars
<1>4. ASSUME NEW c \in Chunks, NoWorkers(c) PROVE TypeOK'
  <2>1. stuck' \subseteq Chunks
    BY <1>4 DEF NoWorkers, TypeOK
  <2>2. faults' \in 0 .. MaxFaults
    BY <1>4, FaultType DEF NoWorkers
  <2> QED
    BY <1>4, <2>1, <2>2, HolderNames, CloseType
       DEF NoWorkers, TypeOK, passVars, streamVars, WaitValues
<1>5. ASSUME NEW c \in Chunks, Prepare(c) PROVE TypeOK'
  <2>1. stage' \in [Chunks -> Stages]
    BY <1>5 DEF Prepare, TypeOK, Stages
  <2> QED
    BY <1>5, <2>1, HolderNames, GiveType
       DEF Prepare, TypeOK, passVars, fileVars, streamVars
<1> QED
  BY <1>1, <1>2, <1>3, <1>4, <1>5 DEF LoopStep, LoopMove

\* MarkStuck marks no chunk but c.
LEMMA MarkType ==
    ASSUME TypeOK, NEW c \in Chunks, MarkStuck(c)
    PROVE  stuck' \subseteq Chunks
<1>1. stuck' = stuck \/ stuck' = stuck \cup {c}
  BY DEF MarkStuck, SetStuck
<1> QED
  BY <1>1 DEF TypeOK

\* What a failed build does to the file of the chunk.
LEMMA BuildErrorType ==
    ASSUME TypeOK, NEW c \in Chunks, BuildError(c)
    PROVE  /\ stuck' \subseteq Chunks /\ faults' \in 0 .. MaxFaults
           /\ stuck' \subseteq stuck \/ finished
<1>1. stuck' = stuck \/ (finished /\ stuck' = stuck \cup {c})
  BY DEF BuildError, SetStuck
<1>2. faults' \in 0 .. MaxFaults
  BY FaultType DEF BuildError
<1> QED
  BY <1>1, <1>2 DEF TypeOK

\* Steps aside leave the objects, the workers and the stream alone, and mark
\* chunks of finished files only.
LEMMA AsideStep ==
    ASSUME TypeOK, Aside
    PROVE  /\ TypeOK'
           /\ stuck' \subseteq stuck \/ finished
           /\ UNCHANGED <<known, finished, health, repairing, owner, flagged,
                          workVars, rpc, streamVars, waits>>
<1> DEFINE Same == UNCHANGED <<known, finished, health, repairing, owner, flagged,
                               workVars, rpc, streamVars, waits>>
<1> SUFFICES /\ stuck' \subseteq Chunks /\ (stuck' \subseteq stuck \/ finished)
             /\ faults' \in 0 .. MaxFaults /\ paused' \in BOOLEAN
             /\ owes' \subseteq Outside /\ wake' \in BOOLEAN /\ Same
  BY DEF TypeOK, workVars, streamVars
<1>1. ASSUME NEW b \in Builders, NEW c \in Chunks, BuildFails(b, c)
      PROVE  /\ stuck' \subseteq Chunks /\ (stuck' \subseteq stuck \/ finished)
             /\ faults' \in 0 .. MaxFaults
             /\ UNCHANGED <<owes, wake, paused>> /\ Same
  <2>1. BuildError(c) /\ UNCHANGED <<owes, wake, paused>> /\ Same
    BY <1>1 DEF BuildFails, passVars
  <2> QED
    BY <2>1, BuildErrorType
<1>2. ASSUME NEW all \in BOOLEAN, SetAllStuck(all), Fault
      PROVE  /\ stuck' \subseteq Chunks /\ (stuck' \subseteq stuck \/ finished)
             /\ faults' \in 0 .. MaxFaults
  BY <1>2, FaultType DEF SetAllStuck, TypeOK
<1>3. ASSUME NEW b \in Builders, InsufficientHosts(b)
      PROVE  /\ stuck' \subseteq Chunks /\ (stuck' \subseteq stuck \/ finished)
             /\ faults' \in 0 .. MaxFaults
             /\ UNCHANGED <<owes, wake, paused>> /\ Same
  BY <1>2, <1>3 DEF InsufficientHosts, passVars
<1>4. ASSUME NEW all \in BOOLEAN, SetFileStuck(all)
      PROVE  /\ stuck' \subseteq Chunks /\ (stuck' \subseteq stuck \/ finished)
             /\ faults' \in 0 .. MaxFaults
             /\ UNCHANGED <<owes, wake, paused>> /\ Same
  BY <1>2, <1>4 DEF SetFileStuck, passVars
<1>5. ASSUME (\E b \in Outside : Signal(b)) \/ NewUpload \/ UpdateRoot
      PROVE  /\ owes' \subseteq Outside /\ wake' \in BOOLEAN
             /\ UNCHANGED <<stuck, faults, paused>> /\ Same
  <2>1. owes' \subseteq Outside /\ UNCHANGED <<stuck, faults, paused>> /\ Same
    BY <1>5 DEF Signal, NewUpload, UpdateRoot, fileVars, TypeOK
  <2>2. wake' \in BOOLEAN
    BY <1>5, Zenon DEF Signal, NewUpload, UpdateRoot
  <2> QED
    BY <2>1, <2>2
<1>6. ASSUME Pause \/ Resume
      PROVE  /\ faults' \in 0 .. MaxFaults /\ paused' \in BOOLEAN
             /\ UNCHANGED <<stuck, owes, wake>> /\ Same
  BY <1>6, FaultType DEF Pause, Resume, fileVars, passVars, TypeOK
<1>7. stuck \subseteq Chunks /\ faults \in 0 .. MaxFaults /\ paused \in BOOLEAN
      /\ owes \subseteq Outside /\ wake \in BOOLEAN
  BY DEF TypeOK
<1> QED
  BY <1>1, <1>3, <1>4, <1>5, <1>6, <1>7 DEF Aside

LEMMA AnswerValue == \A c : Answer(c) \in {"ok", "err"}
BY DEF Answer

\* What a fetch does to the stream, read or not.
LEMMA FetchStream ==
    ASSUME TypeOK, Position, StreamShifted, NEW c \in Chunks,
           UNCHANGED <<idx, skipped>>,
           \/ Sourced(c) /\ ReadShard(c) /\ upc' = "read"
           \/ UNCHANGED <<segment, placed>> /\ upc' \in {upc, "done"}
    PROVE  /\ Position' /\ StreamShifted'
           /\ segment' \in 0 .. NumSegments
           /\ placed' \in [Chunks -> 0 .. NumSegments]
           /\ upc' \in {upc, "read", "done"}
<1>1. CASE Sourced(c) /\ ReadShard(c) /\ upc' = "read"
  <2>1. upc \in {"skip", "reading"} /\ ReadShard(idx)
    BY <1>1 DEF Sourced
  <2> QED
    BY <1>1, <2>1, ReadShardStream
<1>2. CASE UNCHANGED <<segment, placed>> /\ upc' \in {upc, "done"}
  BY <1>2, MoveStream DEF TypeOK
<1> QED
  BY <1>1, <1>2

LEMMA WorkStream ==
    ASSUME TypeOK, Position, StreamShifted, NEW c \in Chunks,
           WorkStep(c) \/ MarkLate(c)
    PROVE  /\ TypeOK' /\ Position' /\ StreamShifted'
<1>1. CASE Fetch(c) \/ FetchFails(c)
  <2>1. /\ UNCHANGED <<idx, skipped>>
        /\ \/ Sourced(c) /\ ReadShard(c) /\ upc' = "read"
           \/ UNCHANGED <<segment, placed>> /\ upc' \in {upc, "done"}
    BY <1>1 DEF Fetch, FetchFails
  <2>2. /\ Position' /\ StreamShifted'
        /\ segment' \in 0 .. NumSegments
        /\ placed' \in [Chunks -> 0 .. NumSegments]
        /\ upc' \in {upc, "read", "done"}
    BY <2>1, FetchStream
  <2>3. faults' \in 0 .. MaxFaults
    BY <1>1, FaultType DEF Fetch, FetchFails, TypeOK
  <2>4. stage' \in [Chunks -> Stages] /\ failing' \subseteq Chunks
    BY <1>1 DEF Fetch, FetchFails, TypeOK, Stages
  <2>5. TypeOK'
    BY <1>1, <2>2, <2>3, <2>4 DEF Fetch, FetchFails, TypeOK, passVars, fileVars
  <2> QED
    BY <2>2, <2>5
<1>2. CASE Upload(c) \/ Complete(c) \/ CleanUp(c) \/ MarkLate(c)
  <2>1. Position' /\ StreamShifted' /\ UNCHANGED streamVars
    BY <1>2, MoveStream DEF Upload, Complete, CleanUp, MarkLate, streamVars
  <2>2. CASE Upload(c)
    <3>1. health' \in [Chunks -> Healths]
      <4>1. PICK h \in Good .. health[c] - 1 :
                health' = [health EXCEPT ![c] = h]
        BY <2>2 DEF Upload
      <4>2. h \in Healths
        BY <4>1 DEF TypeOK, Healths, Good, Lost
      <4> QED
        BY <4>1, <4>2 DEF TypeOK
    <3>2. stage' \in [Chunks -> Stages]
      BY <2>2 DEF Upload, TypeOK, Stages
    <3> QED
      BY <2>1, <2>2, <3>1, <3>2, AnswerType
         DEF Upload, TypeOK, passVars, streamVars, WaitValues
  <2>3. CASE Complete(c)
    <3>1. stage' \in [Chunks -> Stages]
      BY <2>3 DEF Complete, TypeOK, Stages
    <3>2. waits' \in [Chunks -> WaitValues]
      BY <2>3, AnswerValue, AnswerType DEF Complete
    <3> QED
      BY <2>1, <2>3, <3>1, <3>2
         DEF Complete, TypeOK, passVars, fileVars, streamVars, WaitValues
  <2>4. CASE CleanUp(c)
    <3>1. stage' \in [Chunks -> Stages]
      BY <2>4 DEF CleanUp, TypeOK, Stages
    <3>2. stuck' \subseteq Chunks
      BY <2>4, MarkType DEF CleanUp, TypeOK
    <3>3. finished' \in BOOLEAN
      BY <2>4, Zenon DEF CleanUp, TypeOK
    <3>4. failing' \subseteq Chunks /\ late' \subseteq Chunks
      BY <2>4 DEF CleanUp, TypeOK
    <3> QED
      BY <2>1, <2>4, <3>1, <3>2, <3>3, <3>4, HolderNames, CloseType
         DEF CleanUp, TypeOK, passVars, streamVars, WaitValues
  <2>5. CASE MarkLate(c)
    <3>1. stuck' \subseteq Chunks
      BY <2>5, MarkType DEF MarkLate
    <3> QED
      BY <2>1, <2>5, <3>1 DEF MarkLate, TypeOK, passVars, streamVars
  <2> QED
    BY <1>2, <2>1, <2>2, <2>3, <2>4, <2>5
<1> QED
  BY <1>1, <1>2 DEF WorkStep

LEMMA StreamStream ==
    ASSUME TypeOK, Position, StreamShifted, StreamStep
    PROVE  /\ TypeOK' /\ Position' /\ StreamShifted'
<1>1. CASE GrowNumChunks
  <2>1. idx \in Chunks
    BY <1>1, ChunkType DEF GrowNumChunks, TypeOK, Chunks
  <2>2. Position' /\ StreamShifted'
    BY <1>1, <2>1, MoveStream DEF GrowNumChunks, Ahead
  <2> QED
    BY <1>1, <2>1, <2>2 DEF GrowNumChunks, TypeOK, passVars, workVars
<1>2. CASE FindExisting
  <2>1. idx \in Chunks /\ idx' \in 1 .. MaxIndex + 1
    BY <1>2, ChunkType DEF FindExisting, Position, Chunks
  <2>2. waits' \in [Chunks -> WaitValues]
    BY <1>2, <2>1, AnswerValue DEF FindExisting, TypeOK, WaitValues
  <2> QED
    BY <1>2, <2>1, <2>2, FindExistingStream
       DEF FindExisting, TypeOK, passVars, fileVars, workVars, WaitValues
<1>3. CASE BuildStreamChunk
  <2>1. idx \in Chunks /\ upc \in Ahead /\ upc' \in {"skip", "push"}
    BY <1>3 DEF BuildStreamChunk, Position, Ahead
  <2>2. Position' /\ StreamShifted'
    BY <1>3, <2>1, MoveStream DEF BuildStreamChunk
  <2> QED
    BY <1>3, <2>1, <2>2, HolderNames, BuildType
       DEF BuildStreamChunk, TypeOK, passVars, fileVars, workVars
<1>4. CASE SkipChunk
  <2>1. idx \in Chunks
    BY <1>4 DEF SkipChunk, Position
  <2>2. /\ Position' /\ StreamShifted'
        /\ segment' \in 0 .. NumSegments
        /\ placed' \in [Chunks -> 0 .. NumSegments]
    BY <1>4, ReadShardStream DEF SkipChunk
  <2> QED
    BY <1>4, <2>1, <2>2, HolderNames, GiveType
       DEF SkipChunk, TypeOK, passVars, fileVars, workVars
<1>5. CASE PushStreamChunk
  <2>1. idx \in Chunks /\ upc \in Ahead
    BY <1>5 DEF PushStreamChunk, Position, Ahead
  <2>2. Position' /\ StreamShifted'
    BY <1>5, <2>1, MoveStream DEF PushStreamChunk
  <2>3. /\ owner' \in [Holders -> SUBSET Chunks]
        /\ stage' \in [Chunks -> Stages]
    BY <1>5, <2>1, HolderNames DEF PushStreamChunk, TypeOK, Stages
  <2>4. waits' \in [Chunks -> WaitValues]
    BY <1>5, <2>1 DEF PushStreamChunk, TypeOK, WaitValues
  <2> QED
    BY <1>5, <2>2, <2>3, <2>4 DEF PushStreamChunk, TypeOK, passVars, fileVars, WaitValues
<1>6. CASE CancelRequest
  <2>1. idx \in Chunks
    BY <1>6 DEF CancelRequest, Position
  <2>2. Position' /\ StreamShifted'
    BY <1>6, MoveStream DEF CancelRequest
  <2>3. faults' \in 0 .. MaxFaults
    BY <1>6, FaultType DEF CancelRequest
  <2>4. owner' \in [Holders -> SUBSET Chunks]
    BY <1>6, <2>1, HolderNames DEF CancelRequest, TypeOK
  <2> QED
    BY <1>6, <2>2, <2>3, <2>4 DEF CancelRequest, TypeOK, passVars, fileVars, workVars
<1>7. CASE NextChunk
  BY <1>7, NextChunkStream DEF NextChunk, TypeOK, passVars, fileVars, workVars
<1>8. CASE WaitAvailable
  <2>1. Position' /\ StreamShifted'
    BY <1>8, MoveStream DEF WaitAvailable
  <2> QED
    BY <1>8, <2>1 DEF WaitAvailable, TypeOK, passVars, fileVars, workVars
<1>9. CASE GrowFails
  <2>1. Position' /\ StreamShifted'
    BY <1>9, MoveStream DEF GrowFails
  <2>2. faults' \in 0 .. MaxFaults
    BY <1>9, FaultType DEF GrowFails
  <2> QED
    BY <1>9, <2>1, <2>2 DEF GrowFails, TypeOK, passVars, fileVars, workVars
<1>10. CASE BuildStreamFails
  <2>1. idx \in Chunks
    BY <1>10 DEF BuildStreamFails, Position
  <2>2. Position' /\ StreamShifted'
    BY <1>10, MoveStream DEF BuildStreamFails
  <2>3. stuck' \subseteq Chunks /\ faults' \in 0 .. MaxFaults
    BY <1>10, <2>1, BuildErrorType DEF BuildStreamFails
  <2> QED
    BY <1>10, <2>2, <2>3 DEF BuildStreamFails, TypeOK, passVars, workVars
<1>11. CASE SkipFails
  <2>1. idx \in Chunks
    BY <1>11 DEF SkipFails, Position
  <2>2. Position' /\ StreamShifted'
    BY <1>11, MoveStream DEF SkipFails
  <2>3. faults' \in 0 .. MaxFaults
    BY <1>11, FaultType DEF SkipFails
  <2> QED
    BY <1>11, <2>1, <2>2, <2>3, HolderNames, GiveType
       DEF SkipFails, TypeOK, passVars, fileVars, workVars
<1> QED
  BY <1>1, <1>2, <1>3, <1>4, <1>5, <1>6, <1>7, <1>8, <1>9, <1>10, <1>11
     DEF StreamStep

LEMMA NextStream ==
    TypeOK /\ Position /\ StreamShifted /\ [Next]_vars
        => (TypeOK /\ Position /\ StreamShifted)'
<1> SUFFICES ASSUME TypeOK, Position, StreamShifted, [Next]_vars
             PROVE  (TypeOK /\ Position /\ StreamShifted)'
  OBVIOUS
<1>1. ASSUME NEW b \in Builders, NEW c \in Chunks,
             BuildNext(b, c) \/ BuilderStep(b, c)
      PROVE  (TypeOK /\ Position /\ StreamShifted)'
  <2>1. UNCHANGED streamVars
    BY <1>1 DEF BuildNext, BuilderStep, Prune, Push, Ignore
  <2>2. Position' /\ StreamShifted'
    BY <2>1, MoveStream DEF streamVars
  <2> QED
    BY <1>1, <2>2, BuilderType
<1>2. ASSUME LoopStep PROVE (TypeOK /\ Position /\ StreamShifted)'
  <2>1. UNCHANGED streamVars
    BY <1>2 DEF LoopStep, CheckPaused, Sleep, WakeUp, EnterLoop, LeaveLoop,
                ResetHeap, Pop, NoWorkers, Prepare
  <2>2. Position' /\ StreamShifted'
    BY <2>1, MoveStream DEF streamVars
  <2> QED
    BY <1>2, <2>2, LoopType
<1>3. ASSUME Aside \/ UNCHANGED vars
      PROVE  (TypeOK /\ Position /\ StreamShifted)'
  <2>1. UNCHANGED streamVars
    BY <1>3, AsideStep DEF vars
  <2>2. Position' /\ StreamShifted'
    BY <2>1, MoveStream DEF streamVars
  <2>3. CASE UNCHANGED vars
    BY <2>2, <2>3 DEF vars, TypeOK, fileVars, workVars, passVars, streamVars
  <2> QED
    BY <1>3, <2>2, <2>3, AsideStep
<1>4. ASSUME NEW c \in Chunks, NEW h \in Healths, HealthChanges(c, h)
      PROVE  (TypeOK /\ Position /\ StreamShifted)'
  <2>1. UNCHANGED streamVars
    BY <1>4 DEF HealthChanges
  <2>2. Position' /\ StreamShifted'
    BY <2>1, MoveStream DEF streamVars
  <2>3. faults' \in 0 .. MaxFaults
    BY <1>4, FaultType DEF HealthChanges
  <2> QED
    BY <1>4, <2>2, <2>3 DEF HealthChanges, TypeOK, passVars, workVars, streamVars
<1> QED
  BY <1>1, <1>2, <1>3, <1>4, WorkStream, StreamStream DEF Next, Aside

\* The types of all variables: in particular the stream upload never reads
\* behind the end of its data.
THEOREM RepairTypeCorrect == Spec => []TypeOK
BY InitStream, NextStream, PTL DEF Spec

\* As long as the stream upload has found no chunk in repair, every chunk of the
\* file gets the data of its place in the stream: finding one is the only way
\* to lose the order.
THEOREM StreamPlaced == Spec => [](skipped = {} => StreamInOrder)
<1>1. StreamShifted => (skipped = {} => StreamInOrder)
  <2> SUFFICES ASSUME StreamShifted, skipped = {},
                      NEW i \in Chunks, placed[i] # 0
               PROVE  placed[i] = i
    BY DEF StreamInOrder
  <2>1. {j \in skipped : j < i} = {}
    OBVIOUS
  <2>2. Cardinality({j \in skipped : j < i}) = 0
    BY <2>1, FS_EmptySet
  <2> QED
    BY <2>2, ChunkType DEF StreamShifted
<1> QED
  BY <1>1, InitStream, NextStream, PTL DEF Spec

-----------------------------------------------------------------------------
(* Owners *)

LEMMA HoldersDistinct ==
    ASSUME NEW b \in Builders
    PROVE  b \notin {"heap", "loop", "workers", "stream", "left"}
BY DEF Builders, Outside

LEMMA BuildOwner ==
    ASSUME TypeOK, OneOwner, NEW h \in Holders, NEW c \in Chunks, Build(h, c)
    PROVE  /\ OneOwner'
           /\ owner'[h] = owner[h] \cup {c}
           /\ \A g \in Holders : g # h => owner'[g] = owner[g]
<1>1. /\ owner'[h] = owner[h] \cup {c}
      /\ \A g \in Holders : g # h => owner'[g] = owner[g]
  BY DEF TypeOK, Build
<1>2. \A g \in Holders : c \notin owner[g]
  BY DEF OneOwner, Build
<1>3. \A f, g \in Holders : f # g => owner'[f] \cap owner'[g] = {}
  BY <1>1, <1>2 DEF OneOwner
<1>4. repairing' = UNION {owner'[g] : g \in Holders}
  <2>1. repairing' = repairing \cup {c}
    BY DEF Build
  <2>2. \A x : x \in repairing <=> \E g \in Holders : x \in owner[g]
    BY DEF OneOwner
  <2>3. \A x : x \in repairing' <=> \E g \in Holders : x \in owner'[g]
    BY <1>1, <2>1, <2>2
  <2> QED
    BY <2>3
<1> QED
  BY <1>1, <1>3, <1>4 DEF OneOwner

\* A chunk passes from one holder to another.
LEMMA MoveOwner ==
    ASSUME TypeOK, OneOwner, UNCHANGED repairing,
           NEW g \in Holders, NEW h \in Holders, g # h, NEW c \in owner[g],
           owner'[g] = owner[g] \ {c}, owner'[h] = owner[h] \cup {c},
           \A f \in Holders \ {g, h} : owner'[f] = owner[f]
    PROVE  OneOwner'
<1>1. \A f \in Holders : f # g => c \notin owner[f]
  BY DEF OneOwner
<1>2. \A e, f \in Holders : e # f => owner'[e] \cap owner'[f] = {}
  BY <1>1 DEF OneOwner
<1>3. \A x : x \in repairing <=> \E f \in Holders : x \in owner[f]
  BY DEF OneOwner
<1>4. \A x : x \in repairing' <=> \E f \in Holders : x \in owner'[f]
  BY <1>3
<1>5. repairing' = UNION {owner'[f] : f \in Holders}
  BY <1>4
<1> QED
  BY <1>2, <1>5 DEF OneOwner

LEMMA GiveOwner ==
    ASSUME TypeOK, OneOwner, UNCHANGED repairing,
           NEW g \in Holders, NEW h \in Holders, g # h, NEW c \in owner[g],
           Give(g, h, c)
    PROVE  /\ OneOwner'
           /\ owner'[g] = owner[g] \ {c} /\ owner'[h] = owner[h] \cup {c}
           /\ \A f \in Holders \ {g, h} : owner'[f] = owner[f]
<1>1. /\ owner'[g] = owner[g] \ {c} /\ owner'[h] = owner[h] \cup {c}
      /\ \A f \in Holders \ {g, h} : owner'[f] = owner[f]
  BY DEF TypeOK, Give
<1> QED
  BY <1>1, MoveOwner

LEMMA CloseOwner ==
    ASSUME TypeOK, OneOwner, NEW h \in Holders, NEW cs \in SUBSET owner[h],
           Close(h, cs)
    PROVE  /\ OneOwner'
           /\ owner'[h] = owner[h] \ cs
           /\ \A g \in Holders : g # h => owner'[g] = owner[g]
<1>1. /\ owner'[h] = owner[h] \ cs
      /\ \A g \in Holders : g # h => owner'[g] = owner[g]
      /\ repairing' = repairing \ cs
  BY DEF TypeOK, Close
<1>2. \A g \in Holders : g # h => owner[g] \cap cs = {}
  BY DEF OneOwner
<1>3. \A f, g \in Holders : f # g => owner'[f] \cap owner'[g] = {}
  BY <1>1 DEF OneOwner
<1>4. \A x : x \in repairing <=> \E g \in Holders : x \in owner[g]
  BY DEF OneOwner
<1>5. \A x : x \in repairing' <=> \E g \in Holders : x \in owner'[g]
  BY <1>1, <1>2, <1>4
<1>6. repairing' = UNION {owner'[g] : g \in Holders}
  BY <1>5
<1> QED
  BY <1>1, <1>3, <1>6 DEF OneOwner

LEMMA InitHeap == Init => HeapInv
<1> SUFFICES ASSUME Init PROVE HeapInv
  OBVIOUS
<1>1. \A h \in Holders : owner[h] = {}
  BY DEF Init
<1>2. OneOwner
  BY <1>1 DEF Init, OneOwner
<1>3. OnlyFinishedStuck
  <2> PICK n \in 0 .. Existing : known = 1 .. n /\ finished = (n > 0)
    BY DEF Init
  <2>1. ASSUME stuck # {} PROVE n > 0
    <3>1. PICK c : c \in 1 .. n
      BY <2>1 DEF Init
    <3> QED
      BY <3>1, SegmentsAssumption
  <2> QED
    BY <2>1 DEF OnlyFinishedStuck
<1>4. QueuedFinished
  BY <1>1, HolderNames DEF QueuedFinished
<1> QED
  BY <1>2, <1>3, <1>4 DEF HeapInv, StreamHolds, Init

\* The holders on the way to the repair loop.
Queues == Builders \cup {"heap", "loop"}

\* Steps that add nothing to the queues of an unfinished file.
LEMMA KeepFinished ==
    ASSUME HeapInv, stuck' \subseteq stuck \/ finished, finished => finished',
           \A h \in Queues : owner'[h] # {} => finished
                                 \/ \E g \in Queues : owner[g] # {}
    PROVE  OnlyFinishedStuck' /\ QueuedFinished'
<1>1. OnlyFinishedStuck'
  BY DEF HeapInv, OnlyFinishedStuck
<1>2. QueuedFinished'
  BY DEF HeapInv, QueuedFinished, Queues
<1> QED
  BY <1>1, <1>2

LEMMA BuilderHeap ==
    ASSUME TypeOK, HeapInv, NEW b \in Builders, NEW c \in Chunks,
           BuildNext(b, c) \/ BuilderStep(b, c)
    PROVE  HeapInv'
<1>1. b \in Holders /\ b \notin {"heap", "loop", "workers", "stream", "left"}
  BY HolderNames, HoldersDistinct
<1>2. OneOwner /\ StreamHolds
  BY DEF HeapInv
<1>3. b \in Queues /\ Queues \subseteq Holders
  BY HolderNames DEF Queues
<1>4. UNCHANGED <<upc, idx, finished>>
  BY DEF BuildNext, BuilderStep, Prune, Push, Ignore, fileVars, streamVars
<1>5. CASE BuildNext(b, c)
  <2>1. /\ OneOwner' /\ owner'["stream"] = owner["stream"]
        /\ \A g \in Holders : g # b => owner'[g] = owner[g]
    BY <1>1, <1>2, <1>5, HolderNames, BuildOwner DEF BuildNext
  <2>2. finished
    BY <1>5 DEF BuildNext, Eligible, HeapInv, OnlyFinishedStuck
  <2>3. OnlyFinishedStuck' /\ QueuedFinished'
    BY <1>4, <1>5, <2>2, KeepFinished DEF BuildNext, fileVars
  <2> QED
    BY <1>2, <1>4, <2>1, <2>3 DEF HeapInv, StreamHolds
<1>6. CASE Prune(b, c) \/ Ignore(b, c)
  <2>1. Close(b, {c}) /\ {c} \in SUBSET owner[b] /\ stuck' \subseteq stuck
    BY <1>6 DEF Prune, Ignore, fileVars
  <2>2. /\ OneOwner' /\ owner'[b] = owner[b] \ {c}
        /\ \A g \in Holders : g # b => owner'[g] = owner[g]
    BY <1>1, <1>2, <2>1, CloseOwner
  <2>3. OnlyFinishedStuck' /\ QueuedFinished'
    BY <1>3, <1>4, <2>1, <2>2, KeepFinished
  <2>4. StreamHolds'
    BY <1>1, <1>2, <1>4, <2>2, HolderNames DEF StreamHolds
  <2> QED
    BY <2>2, <2>3, <2>4 DEF HeapInv
<1>7. CASE Push(b, c)
  <2>1. Give(b, "heap", c) /\ c \in owner[b] /\ UNCHANGED <<repairing, stuck>>
    BY <1>7 DEF Push, fileVars
  <2>2. /\ OneOwner' /\ \A g \in Holders \ {b, "heap"} : owner'[g] = owner[g]
    BY <1>1, <1>2, <2>1, HolderNames, GiveOwner
  <2>3. finished
    BY <1>3, <2>1 DEF HeapInv, QueuedFinished, Queues
  <2>4. OnlyFinishedStuck' /\ QueuedFinished'
    BY <1>4, <2>1, <2>3, KeepFinished
  <2>5. StreamHolds'
    BY <1>1, <1>2, <1>4, <2>2, HolderNames DEF StreamHolds
  <2> QED
    BY <2>2, <2>4, <2>5 DEF HeapInv
<1> QED
  BY <1>5, <1>6, <1>7 DEF BuilderStep

LEMMA LoopHeap == ASSUME TypeOK, HeapInv, LoopStep PROVE HeapInv'
<1>1. OneOwner /\ StreamHolds /\ Queues \subseteq Holders
  BY HolderNames DEF HeapInv, Queues
<1>2. UNCHANGED <<upc, idx, finished>>
  BY DEF LoopStep, CheckPaused, Sleep, WakeUp, EnterLoop, LeaveLoop, ResetHeap,
         Pop, NoWorkers, Prepare, fileVars, streamVars
<1>3. CASE LoopMove
  <2>1. UNCHANGED <<repairing, owner, stuck, finished, upc, idx>>
    BY <1>3 DEF LoopMove, CheckPaused, Sleep, WakeUp, EnterLoop, LeaveLoop,
                fileVars, streamVars
  <2> QED
    BY <2>1 DEF HeapInv, OneOwner, StreamHolds, OnlyFinishedStuck,
                QueuedFinished
<1>4. CASE ResetHeap
  <2>1. Close("heap", Heap) /\ Heap \in SUBSET owner["heap"] /\ UNCHANGED stuck
    BY <1>4 DEF ResetHeap, Heap, fileVars
  <2>2. /\ OneOwner' /\ owner'["heap"] = owner["heap"] \ Heap
        /\ \A g \in Holders : g # "heap" => owner'[g] = owner[g]
    BY <1>1, <2>1, HolderNames, CloseOwner
  <2>3. OnlyFinishedStuck' /\ QueuedFinished'
    BY <1>1, <1>2, <2>1, <2>2, KeepFinished
  <2> QED
    BY <1>1, <1>2, <2>2, <2>3, HolderNames DEF HeapInv, StreamHolds
<1>5. ASSUME NEW c \in Chunks, Pop(c) PROVE HeapInv'
  <2>1. /\ Give("heap", "loop", c) /\ c \in owner["heap"]
        /\ UNCHANGED <<repairing, stuck>>
    BY <1>5 DEF Pop, Heap, fileVars
  <2>2. /\ OneOwner'
        /\ \A g \in Holders \ {"heap", "loop"} : owner'[g] = owner[g]
    BY <1>1, <2>1, HolderNames, GiveOwner
  <2>3. finished
    BY <2>1 DEF HeapInv, QueuedFinished
  <2>4. OnlyFinishedStuck' /\ QueuedFinished'
    BY <1>2, <2>1, <2>3, KeepFinished
  <2> QED
    BY <1>1, <1>2, <2>2, <2>4, HolderNames DEF HeapInv, StreamHolds
<1>6. ASSUME NEW c \in Chunks, NoWorkers(c) PROVE HeapInv'
  <2>1. Close("loop", {c}) /\ {c} \in SUBSET owner["loop"]
    BY <1>6 DEF NoWorkers
  <2>2. /\ OneOwner'
        /\ \A g \in Holders : g # "loop" => owner'[g] = owner[g]
    BY <1>1, <2>1, HolderNames, CloseOwner
  <2>3. finished
    BY <2>1 DEF HeapInv, QueuedFinished
  <2>4. OnlyFinishedStuck' /\ QueuedFinished'
    BY <1>2, <2>3, KeepFinished
  <2> QED
    BY <1>1, <1>2, <2>2, <2>4, HolderNames DEF HeapInv, StreamHolds
<1>7. ASSUME NEW c \in Chunks, Prepare(c) PROVE HeapInv'
  <2>1. /\ Give("loop", "workers", c) /\ c \in owner["loop"]
        /\ UNCHANGED <<repairing, stuck>>
    BY <1>7 DEF Prepare, fileVars
  <2>2. /\ OneOwner'
        /\ \A g \in Holders \ {"loop", "workers"} : owner'[g] = owner[g]
    BY <1>1, <2>1, HolderNames, GiveOwner
  <2>3. finished
    BY <2>1 DEF HeapInv, QueuedFinished
  <2>4. OnlyFinishedStuck' /\ QueuedFinished'
    BY <1>2, <2>1, <2>3, KeepFinished
  <2> QED
    BY <1>1, <1>2, <2>2, <2>4, HolderNames DEF HeapInv, StreamHolds
<1> QED
  BY <1>3, <1>4, <1>5, <1>6, <1>7 DEF LoopStep, LoopMove

LEMMA WorkHeap ==
    ASSUME TypeOK, HeapInv, NEW c \in Chunks, WorkStep(c) \/ MarkLate(c)
    PROVE  HeapInv'
<1>1. OneOwner /\ StreamHolds /\ Queues \subseteq Holders
  BY HolderNames DEF HeapInv, Queues
<1>2. MarkStuck(c) => stuck' \subseteq stuck \/ finished
  BY DEF MarkStuck, SetStuck
<1>3. CASE CleanUp(c)
  <2>1. /\ Close("workers", {c}) /\ {c} \in SUBSET owner["workers"]
        /\ (finished => finished') /\ UNCHANGED <<upc, idx>>
        /\ stuck' \subseteq stuck \/ finished
    BY <1>2, <1>3 DEF CleanUp, streamVars
  <2>2. /\ OneOwner'
        /\ \A g \in Holders : g # "workers" => owner'[g] = owner[g]
    BY <1>1, <2>1, HolderNames, CloseOwner
  <2>3. \A h \in Queues : owner'[h] = owner[h]
    BY <1>1, <2>2, HoldersDistinct DEF Queues
  <2>4. OnlyFinishedStuck' /\ QueuedFinished'
    BY <2>1, <2>3, KeepFinished
  <2> QED
    BY <1>1, <2>1, <2>2, <2>4, HolderNames DEF HeapInv, StreamHolds
<1>4. CASE Fetch(c) \/ FetchFails(c) \/ Upload(c) \/ Complete(c) \/ MarkLate(c)
  <2>1. /\ UNCHANGED <<repairing, owner, finished, idx>>
        /\ stuck' \subseteq stuck \/ finished
        /\ upc' \in {upc, "read", "done"}
    BY <1>2, <1>4 DEF Fetch, FetchFails, Upload, Complete, MarkLate, fileVars,
                      streamVars
  <2>2. OneOwner' /\ StreamHolds'
    BY <1>1, <2>1 DEF OneOwner, StreamHolds
  <2>3. OnlyFinishedStuck' /\ QueuedFinished'
    BY <2>1, KeepFinished
  <2> QED
    BY <2>2, <2>3 DEF HeapInv
<1> QED
  BY <1>3, <1>4 DEF WorkStep

\* The chunk of the stream upload goes to the workers, or is left.
LEMMA LeaveOwner ==
    ASSUME TypeOK, HeapInv, UNCHANGED repairing, idx \in owner["stream"],
           NEW h \in {"workers", "left"},
           owner' = [owner EXCEPT !["heap"] = @ \ {idx},
                                  !["stream"] = @ \ {idx},
                                  ![h] = @ \cup {idx}]
    PROVE  /\ OneOwner' /\ \A g \in Queues : owner'[g] = owner[g]
           /\ owner'[h] = owner[h] \cup {idx}
<1>1. OneOwner /\ Queues \subseteq Holders /\ idx \notin owner["heap"]
  BY HolderNames DEF HeapInv, OneOwner, Queues
<1>2. /\ owner'["stream"] = owner["stream"] \ {idx}
      /\ owner'[h] = owner[h] \cup {idx}
      /\ owner'["heap"] = owner["heap"]
      /\ \A f \in Holders \ {"stream", "heap", h} : owner'[f] = owner[f]
  BY <1>1, HolderNames DEF TypeOK
<1>3. OneOwner'
  <2>1. \A f \in Holders \ {"stream", h} : owner'[f] = owner[f]
    BY <1>2
  <2>2. "stream" # h /\ "stream" \in Holders /\ h \in Holders
    BY HolderNames
  <2> QED
    BY <1>1, <1>2, <2>1, <2>2, MoveOwner
<1>4. \A g \in Queues : owner'[g] = owner[g]
  BY <1>1, <1>2, HoldersDistinct DEF Queues
<1> QED
  BY <1>2, <1>3, <1>4

LEMMA StreamHeap == ASSUME TypeOK, Position, HeapInv, StreamStep PROVE HeapInv'
<1>1. OneOwner /\ StreamHolds /\ Queues \subseteq Holders
  BY HolderNames DEF HeapInv, Queues
<1>2. UNCHANGED finished /\ (stuck' \subseteq stuck \/ finished)
  <2>1. CASE BuildStreamFails
    BY <2>1, BuildErrorType DEF BuildStreamFails, Position
  <2> QED
    BY <2>1
       DEF StreamStep, GrowNumChunks, GrowFails, FindExisting, BuildStreamChunk,
           SkipChunk, SkipFails, PushStreamChunk, CancelRequest, NextChunk,
           WaitAvailable, fileVars
<1>3. CASE \/ GrowNumChunks \/ GrowFails \/ FindExisting \/ BuildStreamFails
           \/ NextChunk \/ WaitAvailable
  <2>1. UNCHANGED <<repairing, owner>> /\ upc' \notin {"skip", "push"}
    BY <1>3 DEF GrowNumChunks, GrowFails, FindExisting, BuildStreamFails,
                NextChunk, WaitAvailable
  <2>2. OnlyFinishedStuck' /\ QueuedFinished'
    BY <1>2, <2>1, KeepFinished
  <2> QED
    BY <1>1, <2>1, <2>2 DEF HeapInv, OneOwner, StreamHolds
<1>4. CASE BuildStreamChunk
  <2>1. idx \in Chunks /\ Build("stream", idx) /\ UNCHANGED idx
    BY <1>4 DEF BuildStreamChunk, Position
  <2>2. /\ OneOwner' /\ owner'["stream"] = owner["stream"] \cup {idx}
        /\ \A g \in Holders : g # "stream" => owner'[g] = owner[g]
    BY <1>1, <2>1, HolderNames, BuildOwner
  <2>3. \A g \in Queues : owner'[g] = owner[g]
    BY <1>1, <2>2, HoldersDistinct DEF Queues
  <2>4. OnlyFinishedStuck' /\ QueuedFinished'
    BY <1>2, <2>3, KeepFinished
  <2> QED
    BY <2>1, <2>2, <2>4 DEF HeapInv, StreamHolds
<1>5. CASE SkipChunk \/ SkipFails
  <2>1. /\ idx \in owner["stream"] /\ Give("stream", "left", idx)
        /\ UNCHANGED repairing /\ upc' \in {"read", "done"}
    BY <1>1, <1>5 DEF SkipChunk, SkipFails, StreamHolds
  <2>2. /\ OneOwner'
        /\ \A g \in Holders \ {"stream", "left"} : owner'[g] = owner[g]
    BY <1>1, <2>1, HolderNames, GiveOwner
  <2>3. \A g \in Queues : owner'[g] = owner[g]
    BY <1>1, <2>2, HoldersDistinct DEF Queues
  <2>4. OnlyFinishedStuck' /\ QueuedFinished'
    BY <1>2, <2>3, KeepFinished
  <2> QED
    BY <2>1, <2>2, <2>4 DEF HeapInv, StreamHolds
<1>6. CASE PushStreamChunk \/ CancelRequest
  <2>1. /\ idx \in owner["stream"] /\ UNCHANGED repairing
        /\ upc' \in {"reading", "done"}
    BY <1>1, <1>6 DEF PushStreamChunk, CancelRequest, StreamHolds
  <2>2. OneOwner' /\ \A g \in Queues : owner'[g] = owner[g]
    BY <1>6, <2>1, LeaveOwner DEF PushStreamChunk, CancelRequest
  <2>3. OnlyFinishedStuck' /\ QueuedFinished'
    BY <1>2, <2>2, KeepFinished
  <2> QED
    BY <2>1, <2>2, <2>3 DEF HeapInv, StreamHolds
<1> QED
  BY <1>3, <1>4, <1>5, <1>6 DEF StreamStep

LEMMA NextHeap == TypeOK /\ Position /\ HeapInv /\ [Next]_vars => HeapInv'
<1> SUFFICES ASSUME TypeOK, Position, HeapInv, [Next]_vars PROVE HeapInv'
  OBVIOUS
<1>1. ASSUME Aside \/ UNCHANGED vars PROVE HeapInv'
  <2>1. /\ UNCHANGED <<repairing, owner, finished, upc, idx>>
        /\ stuck' \subseteq stuck \/ finished
    BY <1>1, AsideStep DEF vars, fileVars, streamVars
  <2>2. OnlyFinishedStuck' /\ QueuedFinished'
    BY <2>1, KeepFinished
  <2> QED
    BY <2>1, <2>2 DEF HeapInv, OneOwner, StreamHolds
<1>2. ASSUME NEW c \in Chunks, NEW h \in Healths, HealthChanges(c, h)
      PROVE  HeapInv'
  BY <1>2 DEF HealthChanges, streamVars, HeapInv, OneOwner, StreamHolds,
              OnlyFinishedStuck, QueuedFinished
<1> QED
  BY <1>1, <1>2, BuilderHeap, LoopHeap, WorkHeap, StreamHeap DEF Next, Aside

LEMMA HeapHolds == Spec => [](TypeOK /\ Position /\ HeapInv)
<1>1. Init => TypeOK /\ Position /\ StreamShifted /\ HeapInv
  BY InitStream, InitHeap
<1>2. TypeOK /\ Position /\ StreamShifted /\ HeapInv /\ [Next]_vars
        => (TypeOK /\ Position /\ StreamShifted /\ HeapInv)'
  BY NextStream, NextHeap
<1> QED
  BY <1>1, <1>2, PTL DEF Spec

\* repairingChunks and the threads that hold chunks agree: no chunk is repaired
\* twice at once and no entry is without a holder.
THEOREM ChunksOwned == Spec => []OneOwner
<1>1. TypeOK /\ HeapInv => OneOwner
  BY DEF HeapInv
<1> QED
  BY <1>1, HeapHolds, PTL

\* No chunk of an unfinished upload is marked as stuck: the repair loop has only
\* chunks of finished files (QueuedFinished), and everybody else looks.
THEOREM UnfinishedNeverStuck == Spec => []OnlyFinishedStuck
<1>1. TypeOK /\ HeapInv => OnlyFinishedStuck
  BY DEF HeapInv
<1> QED
  BY <1>1, HeapHolds, PTL

-----------------------------------------------------------------------------
(* Chunks go from hand to hand as ChunkCustody says *)

\* When every object has one holder and an entry, Holder finds it.
LEMMA HolderIs ==
    ASSUME NEW rep, NEW own, NEW c, rep = UNION {own[h] : h \in Holders},
           \A g, h \in Holders : g # h => own[g] \cap own[h] = {}
    PROVE  /\ Holder(rep, own, c) \in Holders \cup {"nobody"}
           /\ \A h \in Holders : Holder(rep, own, c) = h <=> c \in own[h]
           /\ Holder(rep, own, c) = "nobody" <=> c \notin rep
<1>1. "nobody" \notin Holders
  BY DEF Holders, Builders, Outside
<1>2. c \in rep <=> \E h \in Holders : c \in own[h]
  OBVIOUS
<1>3. CASE c \in rep
  <2>1. PICK h \in Holders : c \in own[h]
    BY <1>2, <1>3
  <2>2. \A g \in Holders : c \in own[g] <=> g = h
    BY <2>1
  <2>3. Holder(rep, own, c) = CHOOSE g \in Holders : c \in own[g]
    BY <1>3, <2>1 DEF Holder
  <2>4. (CHOOSE g \in Holders : c \in own[g]) = h
    BY <2>1, <2>2
  <2> QED
    BY <1>1, <1>3, <2>2, <2>3, <2>4
<1>4. CASE c \notin rep
  BY <1>1, <1>2, <1>4 DEF Holder
<1> QED
  BY <1>3, <1>4

LEMMA HolderNow ==
    ASSUME OneOwner, NEW c
    PROVE  /\ Holder(repairing, owner, c) \in Holders \cup {"nobody"}
           /\ \A h \in Holders :
                Holder(repairing, owner, c) = h <=> c \in owner[h]
           /\ Holder(repairing, owner, c) = "nobody" <=> c \notin repairing
BY HolderIs DEF OneOwner

LEMMA HolderNext ==
    ASSUME OneOwner', NEW c
    PROVE  /\ Holder(repairing', owner', c) \in Holders \cup {"nobody"}
           /\ \A h \in Holders :
                Holder(repairing', owner', c) = h <=> c \in owner'[h]
           /\ Holder(repairing', owner', c) = "nobody" <=> c \notin repairing'
BY HolderIs DEF OneOwner

\* Who is not involved keeps its holder.
LEMMA SameHolder ==
    ASSUME OneOwner, OneOwner', NEW c,
           \A h \in Holders : c \in owner'[h] <=> c \in owner[h]
    PROVE  Holder(repairing', owner', c) = Holder(repairing, owner, c)
<1>1. CASE Holder(repairing, owner, c) \in Holders
  <2>1. c \in owner[Holder(repairing, owner, c)]
    BY <1>1, HolderNow
  <2> QED
    BY <1>1, <2>1, HolderNext
<1>2. CASE Holder(repairing, owner, c) = "nobody"
  <2>1. \A h \in Holders : c \notin owner[h]
    BY <1>2, HolderNow DEF OneOwner
  <2>2. Holder(repairing', owner', c) \notin Holders
    BY <2>1, HolderNext
  <2> QED
    BY <1>2, <2>2, HolderNext
<1> QED
  BY <1>1, <1>2, HolderNow

LEMMA TakeHolder ==
    ASSUME TypeOK, OneOwner, NEW h \in Holders, NEW c \in Chunks, Build(h, c)
    PROVE  /\ Holder(repairing, owner, c) = "nobody"
           /\ \A x \in Chunks : Holder(repairing', owner', x) =
                IF x = c THEN h ELSE Holder(repairing, owner, x)
<1>1. /\ OneOwner'
      /\ owner'[h] = owner[h] \cup {c}
      /\ \A g \in Holders : g # h => owner'[g] = owner[g]
  BY BuildOwner
<1>2. Holder(repairing, owner, c) = "nobody"
  BY HolderNow DEF Build
<1>3. Holder(repairing', owner', c) = h
  BY <1>1, HolderNext
<1>4. ASSUME NEW x \in Chunks, x # c
      PROVE  Holder(repairing', owner', x) = Holder(repairing, owner, x)
  <2>1. \A g \in Holders : x \in owner'[g] <=> x \in owner[g]
    BY <1>1, <1>4
  <2> QED
    BY <1>1, <2>1, SameHolder
<1> QED
  BY <1>2, <1>3, <1>4

LEMMA PassHolder ==
    ASSUME TypeOK, OneOwner, OneOwner',
           NEW g \in Holders, NEW h \in Holders, g # h, NEW c \in owner[g],
           owner'[g] = owner[g] \ {c}, owner'[h] = owner[h] \cup {c},
           \A f \in Holders \ {g, h} : owner'[f] = owner[f]
    PROVE  /\ Holder(repairing, owner, c) = g
           /\ \A x \in Chunks : Holder(repairing', owner', x) =
                IF x = c THEN h ELSE Holder(repairing, owner, x)
<1>1. Holder(repairing, owner, c) = g
  BY HolderNow
<1>2. Holder(repairing', owner', c) = h
  BY HolderNext
<1>3. ASSUME NEW x \in Chunks, x # c
      PROVE  Holder(repairing', owner', x) = Holder(repairing, owner, x)
  <2>1. \A f \in Holders : x \in owner'[f] <=> x \in owner[f]
    BY <1>3
  <2> QED
    BY <2>1, SameHolder
<1> QED
  BY <1>1, <1>2, <1>3

LEMMA CloseHolder ==
    ASSUME TypeOK, OneOwner, NEW h \in Holders, NEW cs \in SUBSET owner[h],
           Close(h, cs)
    PROVE  /\ \A x \in cs : Holder(repairing, owner, x) = h
           /\ \A x \in Chunks : Holder(repairing', owner', x) =
                IF x \in cs THEN "nobody" ELSE Holder(repairing, owner, x)
<1>1. /\ OneOwner'
      /\ owner'[h] = owner[h] \ cs
      /\ \A g \in Holders : g # h => owner'[g] = owner[g]
  BY CloseOwner
<1>2. ASSUME NEW x \in cs PROVE Holder(repairing, owner, x) = h
  BY <1>2, HolderNow
<1>3. ASSUME NEW x \in cs PROVE Holder(repairing', owner', x) = "nobody"
  <2>1. x \notin repairing'
    BY <1>3 DEF Close
  <2> QED
    BY <1>1, <2>1, HolderNext
<1>4. ASSUME NEW x \in Chunks, x \notin cs
      PROVE  Holder(repairing', owner', x) = Holder(repairing, owner, x)
  <2>1. \A g \in Holders : x \in owner'[g] <=> x \in owner[g]
    BY <1>1, <1>4
  <2> QED
    BY <1>1, <2>1, SameHolder
<1> QED
  BY <1>2, <1>3, <1>4

\* The steps of the code on objects are the steps of the custody.
LEMMA BuildCustody ==
    ASSUME TypeOK, OneOwner, NEW h \in Custody!Takers, h \in Holders,
           NEW c \in Chunks, Build(h, c), UNCHANGED <<health, finished>>
    PROVE  Custody!Next
<1>1. /\ Holder(repairing, owner, c) = "nobody"
      /\ \A x \in Chunks : Holder(repairing', owner', x) =
           IF x = c THEN h ELSE Holder(repairing, owner, x)
  BY TakeHolder
<1>2. Custody!Take(h, c)
  BY <1>1 DEF Custody!Take
<1> QED
  BY <1>2 DEF Custody!Next

LEMMA PassCustody ==
    ASSUME TypeOK, OneOwner, OneOwner',
           NEW g \in Holders, NEW h \in Holders, g # h, NEW c \in owner[g],
           owner'[g] = owner[g] \ {c}, owner'[h] = owner[h] \cup {c},
           \A f \in Holders \ {g, h} : owner'[f] = owner[f],
           <<g, h>> \in Custody!Ways, UNCHANGED <<health, finished>>
    PROVE  Custody!Next
<1>1. /\ Holder(repairing, owner, c) = g
      /\ \A x \in Chunks : Holder(repairing', owner', x) =
           IF x = c THEN h ELSE Holder(repairing, owner, x)
  BY PassHolder
<1>2. c \in Chunks
  BY DEF TypeOK
<1>3. Custody!Pass(<<g, h>>, c)
  BY <1>1, <1>2 DEF Custody!Pass
<1> QED
  BY <1>2, <1>3 DEF Custody!Next

LEMMA GiveCustody ==
    ASSUME TypeOK, OneOwner, UNCHANGED repairing,
           NEW g \in Holders, NEW h \in Holders, g # h, NEW c \in owner[g],
           Give(g, h, c), <<g, h>> \in Custody!Ways, UNCHANGED <<health, finished>>
    PROVE  Custody!Next
<1>1. /\ OneOwner'
      /\ owner'[g] = owner[g] \ {c} /\ owner'[h] = owner[h] \cup {c}
      /\ \A f \in Holders \ {g, h} : owner'[f] = owner[f]
  BY GiveOwner
<1> QED
  BY <1>1, PassCustody

LEMMA CloseCustody ==
    ASSUME TypeOK, OneOwner, NEW h \in Holders, NEW cs \in SUBSET owner[h],
           Close(h, cs), h \in Custody!Closers, UNCHANGED health,
           finished' = finished \/ (h = "workers" /\ finished' = TRUE)
    PROVE  Custody!Next
<1>1. /\ \A x \in cs : Holder(repairing, owner, x) = h
      /\ \A x \in Chunks : Holder(repairing', owner', x) =
           IF x \in cs THEN "nobody" ELSE Holder(repairing, owner, x)
  BY CloseHolder
<1>2. cs \in SUBSET Chunks
  BY DEF TypeOK
<1>3. finished' \in {finished, finished \/ h = "workers"}
  <2>1. finished \in BOOLEAN
    BY DEF TypeOK
  <2>2. h = "workers" => (finished \/ h = "workers") = TRUE
    BY <2>1
  <2> QED
    BY <2>2
<1>4. Custody!Close(h, cs)
  BY <1>1, <1>2, <1>3 DEF Custody!Close
<1> QED
  BY <1>2, <1>4 DEF Custody!Next

LEMMA StillCustody ==
    ASSUME UNCHANGED <<repairing, owner, health, finished>>
    PROVE  UNCHANGED Custody!vars
BY DEF Custody!vars

LEMMA BuilderCustody ==
    ASSUME TypeOK, HeapInv, NEW b \in Builders, NEW c \in Chunks,
           BuildNext(b, c) \/ BuilderStep(b, c)
    PROVE  Custody!Next
<1>1. /\ b \in Holders /\ b \in {"repair", "upload", "stuck"} /\ "heap" \in Holders
      /\ b # "heap" /\ OneOwner
  BY HolderNames DEF Builders, Outside, HeapInv
<1>2. UNCHANGED <<health, finished>>
  BY DEF BuildNext, BuilderStep, Prune, Push, Ignore, fileVars
<1>3. CASE BuildNext(b, c)
  <2>1. finished
    BY <1>3 DEF BuildNext, Eligible, HeapInv, OnlyFinishedStuck
  <2>2. b \in Custody!Takers
    BY <1>1, <2>1 DEF Custody!Takers
  <2> QED
    BY <1>1, <1>2, <1>3, <2>2, BuildCustody DEF BuildNext
<1>4. CASE Prune(b, c) \/ Ignore(b, c)
  <2>1. Close(b, {c}) /\ {c} \in SUBSET owner[b]
    BY <1>4 DEF Prune, Ignore
  <2>2. b \in Custody!Closers
    BY <1>1 DEF Custody!Closers
  <2> QED
    BY <1>1, <1>2, <2>1, <2>2, CloseCustody
<1>5. CASE Push(b, c)
  <2>1. Give(b, "heap", c) /\ c \in owner[b] /\ UNCHANGED repairing
    BY <1>5 DEF Push
  <2>2. <<b, "heap">> \in Custody!Ways
    BY <1>1 DEF Custody!Ways
  <2> QED
    BY <1>1, <1>2, <2>1, <2>2, GiveCustody
<1> QED
  BY <1>3, <1>4, <1>5 DEF BuilderStep

LEMMA LoopCustody ==
    ASSUME TypeOK, HeapInv, LoopStep
    PROVE  [Custody!Next]_(Custody!vars)
<1>1. OneOwner /\ {"heap", "loop", "workers"} \subseteq Holders
  BY HolderNames DEF HeapInv
<1>2. UNCHANGED <<health, finished>>
  BY DEF LoopStep, CheckPaused, Sleep, WakeUp, EnterLoop, LeaveLoop, ResetHeap,
         Pop, NoWorkers, Prepare, fileVars
<1>3. {"heap", "loop"} \subseteq Custody!Closers
  BY DEF Custody!Closers
<1>4. <<"heap", "loop">> \in Custody!Ways /\ <<"loop", "workers">> \in Custody!Ways
  BY DEF Custody!Ways
<1>5. CASE LoopMove
  BY <1>2, <1>5, StillCustody DEF LoopMove, CheckPaused, Sleep, WakeUp,
                                 EnterLoop, LeaveLoop
<1>6. CASE ResetHeap
  <2>1. Close("heap", Heap) /\ Heap \in SUBSET owner["heap"]
    BY <1>6 DEF ResetHeap, Heap
  <2> QED
    BY <1>1, <1>2, <1>3, <2>1, CloseCustody
<1>7. ASSUME NEW c \in Chunks, Pop(c) PROVE Custody!Next
  <2>1. /\ Give("heap", "loop", c) /\ c \in owner["heap"] /\ UNCHANGED repairing
    BY <1>7 DEF Pop, Heap
  <2> QED
    BY <1>1, <1>2, <1>4, <2>1, GiveCustody
<1>8. ASSUME NEW c \in Chunks, NoWorkers(c) PROVE Custody!Next
  <2>1. Close("loop", {c}) /\ {c} \in SUBSET owner["loop"]
    BY <1>8 DEF NoWorkers
  <2> QED
    BY <1>1, <1>2, <1>3, <2>1, CloseCustody
<1>9. ASSUME NEW c \in Chunks, Prepare(c) PROVE Custody!Next
  <2>1. /\ Give("loop", "workers", c) /\ c \in owner["loop"] /\ UNCHANGED repairing
    BY <1>9 DEF Prepare
  <2> QED
    BY <1>1, <1>2, <1>4, <2>1, GiveCustody
<1> QED
  BY <1>5, <1>6, <1>7, <1>8, <1>9 DEF LoopStep, LoopMove

LEMMA WorkCustody ==
    ASSUME TypeOK, HeapInv, NEW c \in Chunks, WorkStep(c) \/ MarkLate(c)
    PROVE  [Custody!Next]_(Custody!vars)
<1>1. OneOwner /\ "workers" \in Holders
  BY HolderNames DEF HeapInv
<1>2. CASE CleanUp(c)
  <2>1. /\ Close("workers", {c}) /\ {c} \in SUBSET owner["workers"]
        /\ UNCHANGED health
    BY <1>2 DEF CleanUp
  <2>2. finished' = (finished \/ (\A i \in known : health[i] < Lost))
    BY <1>2 DEF CleanUp
  <2>3. finished' = finished \/ finished' = TRUE
    <3>1. finished \in BOOLEAN
      BY DEF TypeOK
    <3> QED
      BY <2>2, <3>1
  <2>4. "workers" \in Custody!Closers
    BY DEF Custody!Closers
  <2> QED
    BY <1>1, <2>1, <2>3, <2>4, CloseCustody
<1>3. CASE Upload(c)
  <2>1. PICK h \in Good .. health[c] - 1 : health' = [health EXCEPT ![c] = h]
    BY <1>3 DEF Upload
  <2>2. /\ c \in owner["workers"] /\ UNCHANGED <<repairing, owner, finished>>
    BY <1>3 DEF Upload
  <2>3. h \in Healths /\ h < health[c]
    <3>1. health[c] \in Healths
      BY DEF TypeOK
    <3> QED
      BY <3>1 DEF Healths, Good, Lost
  <2>4. Holder(repairing, owner, c) = "workers"
    BY <1>1, <2>2, HolderNow
  <2>5. Custody!Repair(c, h)
    BY <2>1, <2>2, <2>3, <2>4 DEF Custody!Repair
  <2> QED
    BY <2>3, <2>5 DEF Custody!Next
<1>4. CASE Fetch(c) \/ FetchFails(c) \/ Complete(c) \/ MarkLate(c)
  BY <1>4, StillCustody DEF Fetch, FetchFails, Complete, MarkLate, fileVars
<1> QED
  BY <1>2, <1>3, <1>4 DEF WorkStep

LEMMA StreamCustody ==
    ASSUME TypeOK, Position, HeapInv, StreamStep
    PROVE  [Custody!Next]_(Custody!vars)
<1>1. /\ OneOwner /\ StreamHolds
      /\ {"heap", "stream", "workers", "left"} \subseteq Holders
  BY HolderNames DEF HeapInv
<1>2. UNCHANGED <<health, finished>>
  BY DEF StreamStep, GrowNumChunks, GrowFails, FindExisting, BuildStreamChunk,
         BuildStreamFails, SkipChunk, SkipFails, PushStreamChunk, CancelRequest,
         NextChunk, WaitAvailable, fileVars
<1>3. /\ <<"stream", "workers">> \in Custody!Ways
      /\ <<"stream", "left">> \in Custody!Ways
      /\ "stream" \in Custody!Takers
  BY DEF Custody!Ways, Custody!Takers
<1>4. CASE \/ GrowNumChunks \/ GrowFails \/ FindExisting \/ BuildStreamFails
           \/ NextChunk \/ WaitAvailable
  BY <1>2, <1>4, StillCustody DEF GrowNumChunks, GrowFails, FindExisting,
                                 BuildStreamFails, NextChunk, WaitAvailable
<1>5. CASE BuildStreamChunk
  <2>1. idx \in Chunks /\ Build("stream", idx)
    BY <1>5 DEF BuildStreamChunk, Position
  <2> QED
    BY <1>1, <1>2, <1>3, <2>1, BuildCustody
<1>6. CASE SkipChunk \/ SkipFails
  <2>1. /\ idx \in owner["stream"] /\ Give("stream", "left", idx)
        /\ UNCHANGED repairing
    BY <1>1, <1>6 DEF SkipChunk, SkipFails, StreamHolds
  <2> QED
    BY <1>1, <1>2, <1>3, <2>1, GiveCustody
<1>7. ASSUME NEW h \in {"workers", "left"}, idx \in owner["stream"],
             UNCHANGED repairing,
             owner' = [owner EXCEPT !["heap"] = @ \ {idx},
                                    !["stream"] = @ \ {idx},
                                    ![h] = @ \cup {idx}]
      PROVE  Custody!Next
  <2>1. OneOwner' /\ owner'[h] = owner[h] \cup {idx}
    BY <1>7, LeaveOwner
  <2>2. idx \notin owner["heap"]
    BY <1>1, <1>7 DEF OneOwner
  <2>3. /\ owner'["stream"] = owner["stream"] \ {idx}
        /\ \A f \in Holders \ {"stream", h} : owner'[f] = owner[f]
    BY <1>1, <1>7, <2>2 DEF TypeOK
  <2>4. h \in Holders /\ h # "stream" /\ <<"stream", h>> \in Custody!Ways
    BY <1>1, <1>3
  <2> QED
    BY <1>1, <1>2, <1>7, <2>1, <2>3, <2>4, PassCustody
<1>8. CASE PushStreamChunk
  BY <1>1, <1>7, <1>8 DEF PushStreamChunk, StreamHolds
<1>9. CASE CancelRequest
  BY <1>1, <1>7, <1>9 DEF CancelRequest, StreamHolds
<1> QED
  BY <1>4, <1>5, <1>6, <1>8, <1>9 DEF StreamStep

LEMMA InitCustody == Init => Custody!Init
<1> SUFFICES ASSUME Init PROVE Custody!Init
  OBVIOUS
<1>1. \A c \in Chunks : Holder(repairing, owner, c) = "nobody"
  BY DEF Init, Holder
<1>2. health \in [Chunks -> Healths] /\ finished \in BOOLEAN
  BY InitStream DEF TypeOK
<1> QED
  BY <1>1, <1>2 DEF Custody!Init

LEMMA NextCustody ==
    TypeOK /\ Position /\ HeapInv /\ [Next]_vars => [Custody!Next]_(Custody!vars)
<1> SUFFICES ASSUME TypeOK, Position, HeapInv, [Next]_vars
             PROVE  [Custody!Next]_(Custody!vars)
  OBVIOUS
<1>1. CASE Aside \/ UNCHANGED vars
  BY <1>1, AsideStep, StillCustody DEF vars, fileVars
<1>2. ASSUME NEW c \in Chunks, NEW h \in Healths, HealthChanges(c, h)
      PROVE  Custody!Next
  <2>1. /\ c \notin repairing /\ health[c] < h
        /\ health' = [health EXCEPT ![c] = h]
        /\ UNCHANGED <<repairing, owner, finished>>
    BY <1>2 DEF HealthChanges
  <2>2. Holder(repairing, owner, c) = "nobody"
    BY <2>1 DEF Holder
  <2>3. h > health[c]
    <3>1. health[c] \in Healths
      BY DEF TypeOK
    <3> QED
      BY <2>1, <3>1 DEF Healths, Good, Lost
  <2>4. Custody!Decay(c, h)
    BY <2>1, <2>2, <2>3 DEF Custody!Decay
  <2> QED
    BY <2>4 DEF Custody!Next
<1> QED
  BY <1>1, <1>2, BuilderCustody, LoopCustody, WorkCustody, StreamCustody
     DEF Next, Aside

\* The heap, the loops and the stream upload hand chunks on as ChunkCustody
\* says: only the holder closes a chunk, only the workers repair it, and before
\* its upload is finished only the stream upload takes it.
THEOREM RepairImplementsCustody == Spec => ImplementsCustody
BY InitCustody, NextCustody, HeapHolds, PTL
   DEF Spec, ImplementsCustody, Custody!Spec

-----------------------------------------------------------------------------
(* Whoever holds a chunk is where it is dealt with *)

LEMMA KeepAct ==
    ASSUME HoldersAct, UNCHANGED <<stage, rpc, upc, idx>>,
           \A h \in {"repair", "workers", "loop", "stream"} : owner'[h] = owner[h]
    PROVE  HoldersAct'
BY DEF HoldersAct

LEMMA InitAct == Init => HoldersAct
<1>1. "repair" \in Holders
  BY DEF Holders, Builders
<1> QED
  BY <1>1, HolderNames DEF Init, HoldersAct

\* A builder touches what it holds itself, and the heap.
LEMMA BuilderAct ==
    ASSUME TypeOK, HeapInv, HoldersAct, NEW b \in Builders, NEW c \in Chunks,
           BuildNext(b, c) \/ BuilderStep(b, c)
    PROVE  HoldersAct'
<1>1. /\ b \in Holders /\ b \notin {"heap", "loop", "workers", "stream", "left"}
      /\ {"heap", "loop", "workers", "stream"} \subseteq Holders /\ OneOwner
  BY HolderNames, HoldersDistinct DEF HeapInv
<1>2. UNCHANGED <<stage, upc, idx>>
  BY DEF BuildNext, BuilderStep, Prune, Push, Ignore, workVars, streamVars
<1>3. \A h \in {"workers", "loop", "stream"} : owner'[h] = owner[h]
  <2>1. CASE BuildNext(b, c)
    BY <1>1, <2>1, BuildOwner DEF BuildNext
  <2>2. CASE Prune(b, c) \/ Ignore(b, c)
    <3>1. Close(b, {c}) /\ {c} \in SUBSET owner[b]
      BY <2>2 DEF Prune, Ignore
    <3> QED
      BY <1>1, <3>1, CloseOwner
  <2>3. CASE Push(b, c)
    <3>1. Give(b, "heap", c) /\ c \in owner[b] /\ UNCHANGED repairing
      BY <2>3 DEF Push
    <3> QED
      BY <1>1, <3>1, GiveOwner
  <2> QED
    BY <2>1, <2>2, <2>3 DEF BuilderStep
<1>4. /\ owner["repair"] # {} => rpc \in {"build", "push"}
      /\ rpc' = rpc \/ (rpc \in {"build", "push"} /\ rpc' = "push")
      /\ owner'["repair"] # {} => rpc' \in {"build", "push"}
  <2>1. owner["repair"] # {} => rpc \in {"build", "push"}
    BY DEF HoldersAct
  <2>2. CASE BuildNext(b, c)
    <3>1. UNCHANGED rpc /\ (b = "repair" => rpc = "build")
      BY <2>2 DEF BuildNext, Building
    <3>2. b # "repair" => owner'["repair"] = owner["repair"]
      BY <1>1, <2>2, BuildOwner, HolderNames DEF BuildNext, Builders
    <3> QED
      BY <2>1, <3>1, <3>2
  <2>3. CASE BuilderStep(b, c)
    <3>1. c \in owner[b] /\ rpc' = (IF b = "repair" THEN "push" ELSE rpc)
      BY <2>3 DEF BuilderStep, Prune, Push, Ignore, AfterBuilding
    <3>2. b # "repair" => owner'["repair"] = owner["repair"]
      BY <1>1, <2>3, HolderNames
         DEF BuilderStep, Prune, Push, Ignore, Close, Give, Builders, TypeOK
    <3> QED
      BY <2>1, <3>1, <3>2
  <2> QED
    BY <2>1, <2>2, <2>3
<1> QED
  BY <1>2, <1>3, <1>4 DEF HoldersAct

LEMMA LoopAct ==
    ASSUME TypeOK, HeapInv, HoldersAct, LoopStep
    PROVE  HoldersAct'
<1>1. /\ {"repair", "heap", "loop", "workers", "stream"} \subseteq Holders /\ OneOwner
  BY HolderNames DEF HeapInv, Builders
<1>2. UNCHANGED <<upc, idx>>
  BY DEF LoopStep, CheckPaused, Sleep, WakeUp, EnterLoop, LeaveLoop, ResetHeap,
         Pop, NoWorkers, Prepare, streamVars
<1>3. CASE LoopMove
  <2>1. /\ rpc # "popped" /\ rpc' # "popped" /\ UNCHANGED <<stage, owner>>
        /\ rpc \in {"build", "push"} => owner["repair"] = {}
    BY <1>3 DEF LoopMove, CheckPaused, Sleep, WakeUp, EnterLoop, LeaveLoop,
                workVars
  <2> QED
    BY <1>2, <2>1 DEF HoldersAct
<1>4. CASE ResetHeap
  <2>1. /\ Close("heap", Heap) /\ Heap \in SUBSET owner["heap"]
        /\ rpc \notin {"popped", "build", "push"} /\ rpc' = "top"
        /\ UNCHANGED stage
    BY <1>4 DEF ResetHeap, Heap
  <2>2. \A h \in {"repair", "workers", "loop", "stream"} : owner'[h] = owner[h]
    BY <1>1, <2>1, CloseOwner
  <2> QED
    BY <1>2, <2>1, <2>2 DEF HoldersAct
<1>5. ASSUME NEW c \in Chunks, Pop(c) PROVE HoldersAct'
  <2>1. /\ Give("heap", "loop", c) /\ c \in owner["heap"]
        /\ UNCHANGED <<repairing, stage>>
        /\ rpc = "loop" /\ rpc' = "popped"
    BY <1>5 DEF Pop, Heap, workVars
  <2>2. /\ owner'["loop"] = owner["loop"] \cup {c}
        /\ owner'["workers"] = owner["workers"]
        /\ owner'["stream"] = owner["stream"]
        /\ owner'["repair"] = owner["repair"]
    BY <1>1, <2>1, GiveOwner
  <2>3. owner'["loop"] = {c}
    BY <2>1, <2>2 DEF HoldersAct
  <2> QED
    BY <1>2, <2>1, <2>2, <2>3 DEF HoldersAct
<1>6. ASSUME NEW c \in Chunks, c \in owner["loop"], rpc = "popped"
      PROVE  owner["loop"] = {c}
  BY <1>6 DEF HoldersAct
<1>7. ASSUME NEW c \in Chunks, NoWorkers(c) PROVE HoldersAct'
  <2>1. /\ Close("loop", {c}) /\ {c} \in SUBSET owner["loop"]
        /\ rpc = "popped" /\ rpc' = "loop" /\ UNCHANGED stage
    BY <1>7 DEF NoWorkers
  <2>2. /\ owner'["loop"] = owner["loop"] \ {c}
        /\ owner'["workers"] = owner["workers"]
        /\ owner'["stream"] = owner["stream"]
        /\ owner'["repair"] = owner["repair"]
    BY <1>1, <2>1, CloseOwner
  <2>3. owner'["loop"] = {}
    BY <1>6, <2>1, <2>2
  <2> QED
    BY <1>2, <2>1, <2>2, <2>3 DEF HoldersAct
<1>8. ASSUME NEW c \in Chunks, Prepare(c) PROVE HoldersAct'
  <2>1. /\ Give("loop", "workers", c) /\ c \in owner["loop"]
        /\ rpc = "popped" /\ rpc' = "loop" /\ UNCHANGED repairing
        /\ stage' = [stage EXCEPT ![c] = "fetch"]
    BY <1>8 DEF Prepare
  <2>2. /\ owner'["loop"] = owner["loop"] \ {c}
        /\ owner'["workers"] = owner["workers"] \cup {c}
        /\ owner'["stream"] = owner["stream"]
        /\ owner'["repair"] = owner["repair"]
    BY <1>1, <2>1, GiveOwner
  <2>3. owner'["loop"] = {}
    BY <1>6, <2>1, <2>2
  <2>4. owner'["workers"] = {x \in Chunks : stage'[x] # "none"}
    BY <2>1, <2>2 DEF HoldersAct, TypeOK
  <2> QED
    BY <1>2, <2>1, <2>2, <2>3, <2>4 DEF HoldersAct
<1> QED
  BY <1>3, <1>4, <1>5, <1>7, <1>8 DEF LoopStep, LoopMove

LEMMA WorkAct ==
    ASSUME TypeOK, HeapInv, HoldersAct, NEW c \in Chunks,
           WorkStep(c) \/ MarkLate(c)
    PROVE  HoldersAct'
<1>1. /\ {"repair", "loop", "workers", "stream"} \subseteq Holders /\ OneOwner
  BY HolderNames DEF HeapInv, Builders
<1>2. UNCHANGED <<rpc, idx>>
  BY DEF WorkStep, Fetch, FetchFails, Upload, Complete, CleanUp, MarkLate,
         streamVars
<1>3. CASE CleanUp(c)
  <2>1. /\ Close("workers", {c}) /\ {c} \in SUBSET owner["workers"]
        /\ stage' = [stage EXCEPT ![c] = "none"] /\ UNCHANGED upc
    BY <1>3 DEF CleanUp, streamVars
  <2>2. /\ owner'["workers"] = owner["workers"] \ {c}
        /\ owner'["loop"] = owner["loop"]
        /\ owner'["stream"] = owner["stream"]
        /\ owner'["repair"] = owner["repair"]
    BY <1>1, <2>1, CloseOwner
  <2>3. owner'["workers"] = {x \in Chunks : stage'[x] # "none"}
    BY <2>1, <2>2 DEF HoldersAct, TypeOK
  <2> QED
    BY <1>2, <2>1, <2>2, <2>3 DEF HoldersAct
<1>4. CASE Fetch(c) \/ FetchFails(c) \/ Upload(c) \/ Complete(c)
  <2>1. /\ c \in owner["workers"] /\ UNCHANGED owner
        /\ \E t \in Stages \ {"none"} : stage' = [stage EXCEPT ![c] = t]
    BY <1>4 DEF Fetch, FetchFails, Upload, Complete, Stages
  <2>2. owner'["workers"] = {x \in Chunks : stage'[x] # "none"}
    BY <2>1 DEF HoldersAct, TypeOK
  <2>3. upc' = upc \/ (upc = "reading" /\ upc' \in {"read", "done"})
    BY <1>4 DEF Fetch, FetchFails, Upload, Complete, Sourced, streamVars
  <2> QED
    BY <1>2, <2>1, <2>2, <2>3 DEF HoldersAct
<1>5. CASE MarkLate(c)
  BY <1>2, <1>5, KeepAct DEF MarkLate, streamVars
<1> QED
  BY <1>3, <1>4, <1>5 DEF WorkStep

LEMMA StreamAct ==
    ASSUME TypeOK, Position, HeapInv, HoldersAct, StreamStep
    PROVE  HoldersAct'
<1>1. /\ {"repair", "heap", "loop", "workers", "stream", "left"} \subseteq Holders
      /\ OneOwner /\ StreamHolds
  BY HolderNames DEF HeapInv, Builders
<1>2. UNCHANGED rpc
  BY DEF StreamStep, GrowNumChunks, GrowFails, FindExisting, BuildStreamChunk,
         BuildStreamFails, SkipChunk, SkipFails, PushStreamChunk, CancelRequest,
         NextChunk, WaitAvailable
<1>3. CASE \/ GrowNumChunks \/ GrowFails \/ FindExisting \/ BuildStreamFails
           \/ NextChunk \/ WaitAvailable
  <2>1. /\ UNCHANGED <<owner, stage>>
        /\ upc \notin {"skip", "push"} /\ upc' \notin {"skip", "push"}
    BY <1>3 DEF GrowNumChunks, GrowFails, FindExisting, BuildStreamFails,
                NextChunk, WaitAvailable, workVars
  <2> QED
    BY <1>2, <2>1 DEF HoldersAct
<1>4. CASE BuildStreamChunk
  <2>1. /\ idx \in Chunks /\ Build("stream", idx) /\ UNCHANGED <<idx, stage>>
        /\ upc = "build" /\ upc' \in {"skip", "push"}
    BY <1>4 DEF BuildStreamChunk, Position, workVars
  <2>2. /\ owner'["stream"] = owner["stream"] \cup {idx}
        /\ owner'["loop"] = owner["loop"] /\ owner'["workers"] = owner["workers"]
        /\ owner'["repair"] = owner["repair"]
    BY <1>1, <2>1, BuildOwner
  <2>3. owner'["stream"] = {idx}
    BY <2>1, <2>2 DEF HoldersAct
  <2> QED
    BY <1>2, <2>1, <2>2, <2>3 DEF HoldersAct
<1>5. CASE SkipChunk \/ SkipFails
  <2>1. /\ idx \in owner["stream"] /\ Give("stream", "left", idx)
        /\ UNCHANGED <<repairing, stage>> /\ upc = "skip"
        /\ upc' \in {"read", "done"}
    BY <1>1, <1>5 DEF SkipChunk, SkipFails, StreamHolds, workVars
  <2>2. /\ owner'["stream"] = owner["stream"] \ {idx}
        /\ owner'["loop"] = owner["loop"] /\ owner'["workers"] = owner["workers"]
        /\ owner'["repair"] = owner["repair"]
    BY <1>1, <2>1, GiveOwner
  <2>3. owner'["stream"] = {}
    BY <2>1, <2>2 DEF HoldersAct
  <2> QED
    BY <1>2, <2>1, <2>2, <2>3 DEF HoldersAct
<1>6. ASSUME upc = "push", owner["stream"] = {idx} PROVE idx \in Chunks
  BY <1>1, <1>6 DEF TypeOK
<1>7. CASE PushStreamChunk
  <2>1. /\ upc = "push" /\ upc' = "reading"
        /\ stage' = [stage EXCEPT ![idx] = "fetch"]
        /\ owner' = [owner EXCEPT !["heap"] = @ \ {idx}, !["stream"] = @ \ {idx},
                                  !["workers"] = @ \cup {idx}]
    BY <1>7 DEF PushStreamChunk
  <2>2. owner["stream"] = {idx} /\ idx \in Chunks
    BY <1>6, <2>1 DEF HoldersAct
  <2>3. /\ owner'["stream"] = {}
        /\ owner'["workers"] = owner["workers"] \cup {idx}
        /\ owner'["loop"] = owner["loop"] /\ owner'["repair"] = owner["repair"]
    BY <1>1, <2>1, <2>2 DEF TypeOK
  <2>4. owner'["workers"] = {x \in Chunks : stage'[x] # "none"}
    BY <2>1, <2>2, <2>3 DEF HoldersAct, TypeOK
  <2> QED
    BY <1>2, <2>1, <2>3, <2>4 DEF HoldersAct
<1>8. CASE CancelRequest
  <2>1. /\ upc = "push" /\ upc' = "done" /\ UNCHANGED stage
        /\ owner' = [owner EXCEPT !["heap"] = @ \ {idx}, !["stream"] = @ \ {idx},
                                  !["left"] = @ \cup {idx}]
    BY <1>8 DEF CancelRequest, workVars
  <2>2. owner["stream"] = {idx}
    BY <2>1 DEF HoldersAct
  <2>3. /\ owner'["stream"] = {}
        /\ owner'["workers"] = owner["workers"]
        /\ owner'["loop"] = owner["loop"] /\ owner'["repair"] = owner["repair"]
    BY <1>1, <2>1, <2>2 DEF TypeOK
  <2> QED
    BY <1>2, <2>1, <2>3 DEF HoldersAct
<1> QED
  BY <1>3, <1>4, <1>5, <1>7, <1>8 DEF StreamStep

LEMMA NextAct ==
    TypeOK /\ Position /\ HeapInv /\ HoldersAct /\ [Next]_vars => HoldersAct'
<1> SUFFICES ASSUME TypeOK, Position, HeapInv, HoldersAct, [Next]_vars
             PROVE  HoldersAct'
  OBVIOUS
<1>1. CASE Aside \/ UNCHANGED vars
  <2>1. UNCHANGED <<stage, rpc, upc, idx, owner>>
    BY <1>1, AsideStep DEF vars, workVars, streamVars
  <2> QED
    BY <2>1, KeepAct
<1>2. ASSUME NEW c \in Chunks, NEW h \in Healths, HealthChanges(c, h)
      PROVE  HoldersAct'
  BY <1>2, KeepAct DEF HealthChanges, workVars, streamVars
<1> QED
  BY <1>1, <1>2, BuilderAct, LoopAct, WorkAct, StreamAct DEF Next, Aside

\* No entry of repairingChunks is with a thread that has moved on: the holder
\* is where its next step hands the chunk on or closes it.  This is the part
\* of EntriesRemoved that does not depend on fairness.
THEOREM EntriesInGoodHands == Spec => []HoldersAct
BY InitAct, NextAct, HeapHolds, PTL DEF Spec

-----------------------------------------------------------------------------
(* Answers *)

AnswerInv == LiveHeld /\ CleanedAnswered /\ OwnChunksAnswered

LEMMA InitAnswer == Init => AnswerInv
BY DEF Init, AnswerInv, LiveHeld, CleanedAnswered, OwnChunksAnswered

\* Steps that answer nobody and bring no chunk into its cleanup.
LEMMA KeepAnswer ==
    ASSUME TypeOK, AnswerInv, UNCHANGED waits, skipped \subseteq skipped',
           owner["workers"] \subseteq owner'["workers"],
           \A i \in Chunks : stage'[i] \in {stage[i], "fetch", "upload", "complete"}
    PROVE  AnswerInv'
<1>1. \A i \in Chunks : stage'[i] = "cleanup" => stage[i] = "cleanup"
  OBVIOUS
<1> QED
  BY <1>1 DEF AnswerInv, LiveHeld, CleanedAnswered, OwnChunksAnswered

\* A thread other than the workers closes chunks: only those that the stream
\* upload found in repair can be dropped.
LEMMA CloseAnswer ==
    ASSUME TypeOK, OneOwner, AnswerInv, NEW h \in Holders, h # "workers",
           NEW cs \in SUBSET owner[h], Close(h, cs), UNCHANGED <<stage, skipped>>
    PROVE  AnswerInv'
<1>1. owner'["workers"] = owner["workers"] /\ owner[h] \cap owner["workers"] = {}
  BY HolderNames, CloseOwner DEF OneOwner
<1>2. \A i \in Chunks :
        \/ waits'[i] = waits[i]
        \/ i \in cs /\ waits[i] = "live" /\ waits'[i] = "dropped"
  BY DEF Close
<1>3. \A i \in Chunks : waits'[i] = "dropped" /\ waits[i] = "live" => i \in skipped
  BY <1>1, <1>2 DEF AnswerInv, LiveHeld
<1> QED
  BY <1>1, <1>2, <1>3 DEF AnswerInv, LiveHeld, CleanedAnswered,
                          OwnChunksAnswered

LEMMA WorkAnswer ==
    ASSUME TypeOK, OneOwner, AnswerInv, NEW c \in Chunks,
           WorkStep(c) \/ MarkLate(c)
    PROVE  AnswerInv'
<1>1. CASE Fetch(c) \/ FetchFails(c) \/ MarkLate(c)
  <2>1. /\ UNCHANGED <<waits, skipped, owner>>
        /\ \A i \in Chunks : stage'[i] \in {stage[i], "upload", "complete"}
    BY <1>1 DEF Fetch, FetchFails, MarkLate, TypeOK, streamVars
  <2> QED
    BY <2>1, KeepAnswer
<1>2. CASE Upload(c) \/ Complete(c)
  <2>1. PICK a \in {"ok", "err"} : CloseAvailable(c, a)
    BY <1>2, AnswerValue DEF Upload, Complete
  <2>2. /\ waits'[c] # "live"
        /\ waits'[c] = "dropped" => waits[c] = "dropped"
        /\ \A i \in Chunks : i # c => waits'[i] = waits[i]
    BY <2>1 DEF CloseAvailable
  <2>3. /\ UNCHANGED <<skipped, owner>>
        /\ \A i \in Chunks : i # c => stage'[i] = stage[i]
    BY <1>2 DEF Upload, Complete, TypeOK, streamVars
  <2> QED
    BY <2>2, <2>3 DEF AnswerInv, LiveHeld, CleanedAnswered, OwnChunksAnswered
<1>3. CASE CleanUp(c)
  <2>1. waits[c] # "live"
    BY <1>3 DEF CleanUp, AnswerInv, CleanedAnswered
  <2>2. /\ \A i \in Chunks : waits'[i] = waits[i]
        /\ UNCHANGED skipped
    BY <1>3, <2>1 DEF CleanUp, Close, streamVars
  <2>3. /\ owner'["workers"] = owner["workers"] \ {c}
        /\ stage'[c] = "none" /\ \A i \in Chunks : i # c => stage'[i] = stage[i]
    BY <1>3, HolderNames DEF CleanUp, Close, TypeOK
  <2> QED
    BY <2>1, <2>2, <2>3 DEF AnswerInv, LiveHeld, CleanedAnswered,
                            OwnChunksAnswered
<1> QED
  BY <1>1, <1>2, <1>3 DEF WorkStep

LEMMA StreamAnswer ==
    ASSUME TypeOK, Position, HeapInv, AnswerInv, StreamStep
    PROVE  AnswerInv'
<1>1. CASE FindExisting
  <2>1. idx \in Chunks
    BY <1>1 DEF FindExisting, Position
  <2>2. /\ waits'[idx] \in {"live", "ok", "err"}
        /\ stage[idx] = "cleanup" => waits'[idx] # "live"
        /\ \A i \in Chunks : i # idx => waits'[i] = waits[i]
    BY <1>1, <2>1, AnswerValue DEF FindExisting, TypeOK, Available
  <2>3. UNCHANGED <<owner, stage>> /\ skipped' = skipped \cup {idx}
    BY <1>1 DEF FindExisting, workVars
  <2> QED
    BY <2>1, <2>2, <2>3 DEF AnswerInv, LiveHeld, CleanedAnswered,
                            OwnChunksAnswered
<1>2. CASE PushStreamChunk
  <2>1. idx \in Chunks /\ idx \in owner["stream"]
    BY <1>2 DEF PushStreamChunk, Position, HeapInv, StreamHolds
  <2>2. /\ waits'[idx] = "live" /\ stage'[idx] = "fetch"
        /\ \A i \in Chunks : i # idx =>
                waits'[i] = waits[i] /\ stage'[i] = stage[i]
    BY <1>2, <2>1 DEF PushStreamChunk, TypeOK
  <2>3. owner'["workers"] = owner["workers"] \cup {idx} /\ UNCHANGED skipped
    BY <1>2, <2>1, LeaveOwner DEF PushStreamChunk
  <2> QED
    BY <2>1, <2>2, <2>3 DEF AnswerInv, LiveHeld, CleanedAnswered,
                            OwnChunksAnswered
<1>3. CASE \/ GrowNumChunks \/ GrowFails \/ BuildStreamChunk
           \/ BuildStreamFails \/ SkipChunk \/ SkipFails \/ CancelRequest
           \/ NextChunk \/ WaitAvailable
  <2>1. UNCHANGED <<waits, skipped, stage>>
    BY <1>3 DEF GrowNumChunks, GrowFails, BuildStreamChunk, BuildStreamFails,
                SkipChunk, SkipFails, CancelRequest, NextChunk, WaitAvailable,
                workVars
  <2>2. owner'["workers"] = owner["workers"]
    BY <1>3, HolderNames
       DEF GrowNumChunks, GrowFails, BuildStreamChunk, BuildStreamFails, Build,
           SkipChunk, SkipFails, Give, CancelRequest, NextChunk, WaitAvailable,
           TypeOK
  <2> QED
    BY <2>1, <2>2, KeepAnswer
<1> QED
  BY <1>1, <1>2, <1>3 DEF StreamStep

LEMMA NextAnswer ==
    TypeOK /\ Position /\ HeapInv /\ AnswerInv /\ [Next]_vars => AnswerInv'
<1> SUFFICES ASSUME TypeOK, Position, HeapInv, AnswerInv, [Next]_vars
             PROVE  AnswerInv'
  OBVIOUS
<1>1. OneOwner
  BY DEF HeapInv
<1>2. ASSUME NEW b \in Builders, NEW c \in Chunks,
             BuildNext(b, c) \/ BuilderStep(b, c)
      PROVE  AnswerInv'
  <2>1. b \in Holders /\ b \notin {"heap", "workers"}
    BY HolderNames, HoldersDistinct
  <2>2. CASE BuildNext(b, c) \/ Push(b, c)
    <3>1. UNCHANGED <<waits, skipped, stage>>
      BY <2>2 DEF BuildNext, Push, streamVars, workVars
    <3>2. owner'["workers"] = owner["workers"]
      BY <2>1, <2>2, HolderNames DEF BuildNext, Build, Push, Give, TypeOK
    <3> QED
      BY <3>1, <3>2, KeepAnswer
  <2>3. CASE Prune(b, c) \/ Ignore(b, c)
    BY <1>1, <2>1, <2>3, CloseAnswer DEF Prune, Ignore, streamVars
  <2> QED
    BY <1>2, <2>2, <2>3 DEF BuilderStep
<1>3. ASSUME LoopStep PROVE AnswerInv'
  <2>1. CASE LoopMove
    <3>1. UNCHANGED <<waits, skipped, stage, owner>>
      BY <2>1 DEF LoopMove, CheckPaused, Sleep, WakeUp, EnterLoop, LeaveLoop,
                  streamVars, workVars
    <3> QED
      BY <3>1, KeepAnswer
  <2>2. CASE ResetHeap
    BY <1>1, <2>2, HolderNames, CloseAnswer DEF ResetHeap, Heap, streamVars
  <2>3. ASSUME NEW c \in Chunks, NoWorkers(c) PROVE AnswerInv'
    BY <1>1, <2>3, HolderNames, CloseAnswer DEF NoWorkers, streamVars
  <2>4. ASSUME NEW c \in Chunks, Pop(c) \/ Prepare(c) PROVE AnswerInv'
    <3>1. /\ UNCHANGED <<waits, skipped>>
          /\ \A i \in Chunks : stage'[i] \in {stage[i], "fetch"}
      BY <2>4 DEF Pop, Prepare, TypeOK, streamVars, workVars
    <3>2. owner["workers"] \subseteq owner'["workers"]
      BY <2>4, HolderNames DEF Pop, Prepare, Give, TypeOK
    <3> QED
      BY <3>1, <3>2, KeepAnswer
  <2> QED
    BY <1>3, <2>1, <2>2, <2>3, <2>4 DEF LoopStep, LoopMove
<1>4. ASSUME Aside \/ UNCHANGED vars PROVE AnswerInv'
  <2>1. UNCHANGED <<waits, skipped, stage, owner>>
    BY <1>4, AsideStep DEF vars, streamVars, workVars
  <2> QED
    BY <2>1, KeepAnswer
<1>5. ASSUME NEW c \in Chunks, NEW h \in Healths, HealthChanges(c, h)
      PROVE  AnswerInv'
  BY <1>5, KeepAnswer DEF HealthChanges, streamVars, workVars
<1> QED
  BY <1>1, <1>2, <1>3, <1>4, <1>5, WorkAnswer, StreamAnswer DEF Next, Aside

\* A stream upload is always told what became of the chunks that it gave to the
\* workers itself.
THEOREM OwnAnswered == Spec => []OwnChunksAnswered
<1>1. Init => TypeOK /\ Position /\ StreamShifted /\ HeapInv /\ AnswerInv
  BY InitStream, InitHeap, InitAnswer
<1>2. TypeOK /\ Position /\ StreamShifted /\ HeapInv /\ AnswerInv /\ [Next]_vars
        => (TypeOK /\ Position /\ StreamShifted /\ HeapInv /\ AnswerInv)'
  BY NextStream, NextHeap, NextAnswer
<1>3. AnswerInv => OwnChunksAnswered
  BY DEF AnswerInv
<1> QED
  BY <1>1, <1>2, <1>3, PTL DEF Spec

=============================================================================
