------------------------- MODULE UploadChunkProgress -------------------------
(***************************************************************************)
(* TLAPS proof that no wakeup of a chunk's workers is lost: a chunk that   *)
(* nobody works on any more is finished, for every finite set of workers   *)
(* and every number of pieces.                                             *)
(***************************************************************************)
EXTENDS UploadChunkProofs

\* The cleanups and the wakeups that threads still have to make.
CleanWt == [c \in CallSet |-> IF c[1] = "managedCleanUpUploadChunk" THEN 1 ELSE 0]
WakeWt == [c \in CallSet |-> IF c[1] = "managedNotifyStandbyWorkers" THEN 1 ELSE 0]

\* Somebody is going to look after the chunk: a worker that is remaining
\* and does not stand by, a cleanup, an upload or a wakeup of workers.
Attended ==
    \/ workersRemaining > Len(workersStandby)
    \/ Pending(CleanWt, todo) > 0
    \/ piecesRegistered > 0
    \/ Pending(WakeWt, todo) > 0 /\ workersStandby # <<>>

\* The invariant: a distributed chunk that is not complete is attended to,
\* and completion closes both channels.
Awake ==
    /\ stage = "distributed" /\ ~released => Attended
    /\ released => uploadComplete /\ available

-----------------------------------------------------------------------------
LEMMA ProgressWeights ==
    /\ CleanWt \in [CallSet -> Nat] /\ WakeWt \in [CallSet -> Nat]
    /\ CleanUpCall \in CallSet /\ CleanWt[CleanUpCall] = 1
    /\ NotifyCall \in CallSet /\ WakeWt[NotifyCall] = 1
<1>1. CleanUpCall \in CallSet /\ NotifyCall \in CallSet
  BY CallNames
<1> QED BY <1>1 DEF CleanWt, WakeWt, CleanUpCall, NotifyCall

\* A call that stands in some stack is counted.
LEMMA PendingFound ==
    ASSUME NEW wt \in [CallSet -> Nat], NEW td \in [Threads -> Seq(CallSet)],
           NEW t \in Threads, NEW i \in 1 .. Len(td[t]), wt[td[t][i]] = 1
    PROVE  Pending(wt, td) > 0
<1> DEFINE s == td[t]
           f == [j \in 1 .. Len(s) |-> wt[s[j]]]
<1>1. s \in Seq(CallSet)
  OBVIOUS
<1>2. f \in [1 .. Len(s) -> Nat] /\ IsFiniteSet(1 .. Len(s)) /\ Load(wt, s) = Total(f)
  BY <1>1, LoadType DEF Load
<1>3. f[i] = 1 /\ i \in 1 .. Len(s)
  OBVIOUS
<1>4. f[i] <= Total(f) /\ Total(f) \in Nat
  <2> HIDE DEF f, s
  <2> QED BY <1>2, <1>3, TotalType
<1>5. Load(wt, td[t]) <= Pending(wt, td) /\ Pending(wt, td) \in Nat
  BY PendingType
<1>6. Load(wt, td[t]) >= 1
  <2> HIDE DEF f
  <2> QED BY <1>2, <1>3, <1>4
<1>7. Load(wt, td[t]) \in Nat
  BY <1>1, LoadType
<1> HIDE DEF f, s
<1> QED BY <1>5, <1>6, <1>7

\* A thread that goes on loses no cleanup and no wakeup but the one it is at.
LEMMA GoOnKeeps ==
    ASSUME Stacks, NEW t \in Threads, NEW name, At(t, name),
           NEW cs \in Seq(CallSet), GoOn(t, cs)
    PROVE  /\ Pending(CleanWt, todo) \in Nat /\ Pending(CleanWt, todo') \in Nat
           /\ Pending(WakeWt, todo) \in Nat /\ Pending(WakeWt, todo') \in Nat
           /\ name # "managedCleanUpUploadChunk" =>
                Pending(CleanWt, todo') >= Pending(CleanWt, todo)
           /\ name # "managedNotifyStandbyWorkers" =>
                Pending(WakeWt, todo') >= Pending(WakeWt, todo)
<1> DEFINE hd == Head(todo[t])
<1>1. todo[t] # <<>> /\ hd \in CallSet /\ hd[1] = name
  BY AtWeights
<1>2. CleanWt \in [CallSet -> Nat] /\ WakeWt \in [CallSet -> Nat]
  BY ProgressWeights
<1>3. /\ name # "managedCleanUpUploadChunk" => CleanWt[hd] = 0
      /\ name # "managedNotifyStandbyWorkers" => WakeWt[hd] = 0
  BY <1>1 DEF CleanWt, WakeWt
<1>4. /\ Pending(CleanWt, todo') = Pending(CleanWt, todo) - CleanWt[hd] + Load(CleanWt, cs)
      /\ Load(CleanWt, cs) \in Nat
      /\ Pending(CleanWt, todo) \in Nat /\ Pending(CleanWt, todo') \in Nat
  BY <1>1, <1>2, GoOnPending
<1>5. /\ Pending(WakeWt, todo') = Pending(WakeWt, todo) - WakeWt[hd] + Load(WakeWt, cs)
      /\ Load(WakeWt, cs) \in Nat
      /\ Pending(WakeWt, todo) \in Nat /\ Pending(WakeWt, todo') \in Nat
  BY <1>1, <1>2, GoOnPending
<1> HIDE DEF hd
<1> QED BY <1>3, <1>4, <1>5

LEMMA BeginKeeps ==
    ASSUME Stacks, NEW t \in Threads, todo[t] = <<>>,
           NEW cs \in Seq(CallSet), Begin(t, cs)
    PROVE  /\ Pending(CleanWt, todo) \in Nat /\ Pending(CleanWt, todo') \in Nat
           /\ Pending(WakeWt, todo) \in Nat /\ Pending(WakeWt, todo') \in Nat
           /\ Pending(CleanWt, todo') >= Pending(CleanWt, todo)
           /\ Pending(WakeWt, todo') >= Pending(WakeWt, todo)
<1>1. CleanWt \in [CallSet -> Nat] /\ WakeWt \in [CallSet -> Nat]
  BY ProgressWeights
<1>2. /\ Pending(CleanWt, todo') = Pending(CleanWt, todo) + Load(CleanWt, cs)
      /\ Load(CleanWt, cs) \in Nat
      /\ Pending(CleanWt, todo) \in Nat /\ Pending(CleanWt, todo') \in Nat
  BY <1>1, BeginPending
<1>3. /\ Pending(WakeWt, todo') = Pending(WakeWt, todo) + Load(WakeWt, cs)
      /\ Load(WakeWt, cs) \in Nat
      /\ Pending(WakeWt, todo) \in Nat /\ Pending(WakeWt, todo') \in Nat
  BY <1>1, BeginPending
<1> QED BY <1>2, <1>3

\* A step that leaves the counters alone and loses no call.
LEMMA KeepsAwake ==
    ASSUME IndInv, Awake,
           UNCHANGED <<workersRemaining, workersStandby, piecesRegistered, stage,
                       released, uploadComplete, available>>,
           Pending(CleanWt, todo) \in Nat, Pending(CleanWt, todo') \in Nat,
           Pending(WakeWt, todo) \in Nat, Pending(WakeWt, todo') \in Nat,
           Pending(CleanWt, todo') >= Pending(CleanWt, todo),
           Pending(WakeWt, todo') >= Pending(WakeWt, todo)
    PROVE  Awake'
<1>1. Pending(CleanWt, todo) > 0 => Pending(CleanWt, todo') > 0
  OBVIOUS
<1>2. Pending(WakeWt, todo) > 0 => Pending(WakeWt, todo') > 0
  OBVIOUS
<1> QED BY <1>1, <1>2 DEF Awake, Attended

\* A step after which a cleanup stands in a stack.
LEMMA CleanUpAwakes ==
    ASSUME IndInv', Awake, UNCHANGED <<released, uploadComplete, available>>,
           NEW t \in Threads, NEW i \in 1 .. Len(todo'[t]), todo'[t][i] = CleanUpCall
    PROVE  Awake'
<1>1. todo' \in [Threads -> Seq(CallSet)]
  BY DEF IndInv, Stacks
<1>2. CleanWt \in [CallSet -> Nat] /\ CleanWt[CleanUpCall] = 1
  BY ProgressWeights
<1>3. Pending(CleanWt, todo') > 0
  <2>1. PICK td : td = todo'
    OBVIOUS
  <2>2. Pending(CleanWt, td) > 0
    BY <1>1, <1>2, <2>1, PendingFound
  <2> QED BY <2>1, <2>2
<1> QED BY <1>3 DEF Awake, Attended

\* A thread that goes on with a cleanup has it at the top of its stack.
LEMMA GoOnCleanUp ==
    ASSUME Stacks, NEW t \in Threads, todo[t] # <<>>, GoOn(t, <<CleanUpCall>>)
    PROVE  1 \in 1 .. Len(todo'[t]) /\ todo'[t][1] = CleanUpCall
<1> DEFINE tl == Tail(todo[t])
<1>1. <<CleanUpCall>> \in Seq(CallSet) /\ tl \in Seq(CallSet)
  BY ProgressWeights, HeadTailProperties DEF Stacks
<1>2. todo'[t] = <<CleanUpCall>> \o tl
  BY DEF GoOn, Stacks
<1> HIDE DEF tl
<1>3. /\ Len(<<CleanUpCall>> \o tl) = 1 + Len(tl) /\ Len(tl) \in Nat
      /\ (<<CleanUpCall>> \o tl)[1] = CleanUpCall
  BY <1>1, ConcatProperties, LenProperties
<1> QED BY <1>2, <1>3

LEMMA FetchAwake ==
    ASSUME IndInv, IndInv', Awake, FetchOk \/ FetchFails \/ managedDistributeChunkToWorkers
    PROVE  Awake'
<1>1. CASE FetchOk
  <2>1. stage' # "distributed" /\ UNCHANGED <<released, uploadComplete, available>>
    BY <1>1 DEF FetchOk, endVars
  <2> QED BY <2>1 DEF Awake
<1>2. todo \in [Threads -> Seq(CallSet)] /\ Distributor \in Threads
  BY ThreadNames DEF IndInv, Stacks
<1>3. CASE FetchFails
  <2>1. /\ UNCHANGED <<released, uploadComplete, available>>
        /\ todo'[Distributor] = <<CleanUpCall>>
    BY <1>2, <1>3 DEF FetchFails, Begin
  <2>2. 1 \in 1 .. Len(<<CleanUpCall>>) /\ (<<CleanUpCall>>)[1] = CleanUpCall
    OBVIOUS
  <2> QED BY <1>2, <2>1, <2>2, CleanUpAwakes
<1>4. CASE managedDistributeChunkToWorkers
  <2>1. PICK ws \in SetToAllKPermutations(Workers) :
          Begin(Distributor, [i \in 1 .. Len(ws) |-> QueueCall(ws[i])] \o <<CleanUpCall>>)
    BY <1>4 DEF managedDistributeChunkToWorkers
  <2> DEFINE qs == [i \in 1 .. Len(ws) |-> QueueCall(ws[i])]
             n == Len(qs) + 1
  <2>2. qs \in Seq(CallSet)
    BY Selected, LoadsQueue DEF Weighs
  <2>3. todo'[Distributor] = qs \o <<CleanUpCall>>
    BY <1>2, <2>1 DEF Begin
  <2> HIDE DEF qs
  <2>4. <<CleanUpCall>> \in Seq(CallSet) /\ Len(<<CleanUpCall>>) = 1 /\ (<<CleanUpCall>>)[1] = CleanUpCall
    BY ProgressWeights
  <2>5. Len(qs) \in Nat
    BY <2>2, LenProperties
  <2>6. /\ Len(qs \o <<CleanUpCall>>) = Len(qs) + 1
        /\ \A i \in 1 .. (Len(qs) + 1) : (qs \o <<CleanUpCall>>)[i] =
             IF i <= Len(qs) THEN qs[i] ELSE (<<CleanUpCall>>)[i - Len(qs)]
    BY <2>2, <2>4, ConcatProperties
  <2>7. /\ n \in 1 .. Len(todo'[Distributor])
        /\ todo'[Distributor][n] = CleanUpCall
    BY <2>3, <2>4, <2>5, <2>6
  <2>8. UNCHANGED <<released, uploadComplete, available>>
    BY <1>4 DEF managedDistributeChunkToWorkers, endVars
  <2> HIDE DEF n
  <2> QED BY <1>2, <2>7, <2>8, CleanUpAwakes
<1> QED BY <1>1, <1>3, <1>4

\* Steps that only move a worker's responsibility, end a call or return
\* memory.
LEMMA PassiveAwake ==
    ASSUME IndInv, Awake, NEW t \in Threads,
           callQueueUploadChunk(t) \/ managedDropUploadChunks(t) \/ Close(t) \/ Return(t)
    PROVE  Awake'
<1>1. UNCHANGED <<workersRemaining, workersStandby, piecesRegistered, stage,
                  released, uploadComplete, available>>
  BY DEF callQueueUploadChunk, managedDropUploadChunks, Close, Return, chunkVars, endVars
<1>2. PICK name : /\ At(t, name) /\ name # "managedCleanUpUploadChunk"
                  /\ name # "managedNotifyStandbyWorkers"
                  /\ \E cs \in Seq(CallSet) : GoOn(t, cs)
  <2>1. CASE callQueueUploadChunk(t)
    <3>1. At(t, "callQueueUploadChunk") /\ (GoOn(t, <<>>) \/ GoOn(t, <<DropCall>>))
      BY <2>1 DEF callQueueUploadChunk
    <3> QED BY <3>1, LoadsNone, LoadsDrop DEF Weighs
  <2>2. CASE managedDropUploadChunks(t)
    <3>1. /\ At(t, "managedDropUploadChunks")
          /\ GoOn(t, [i \in 1 .. queued[Arg(t)] |-> DropCall])
      BY <2>2 DEF managedDropUploadChunks
    <3>2. Arg(t) \in Workers
      BY <3>1, AtWeights, CallArguments DEF IndInv, Arg
    <3>3. queued[Arg(t)] \in Nat
      BY <3>2 DEF IndInv, Types
    <3>4. [i \in 1 .. queued[Arg(t)] |-> DropCall] \in Seq(CallSet)
      BY <3>3, LoadsDrops DEF Weighs
    <3> QED BY <3>1, <3>4
  <2>3. CASE Close(t)
    <3>1. At(t, "Close") /\ GoOn(t, <<>>)
      BY <2>3 DEF Close
    <3> QED BY <3>1, LoadsNone DEF Weighs
  <2>4. CASE Return(t)
    <3>1. At(t, "Return") /\ GoOn(t, <<>>)
      BY <2>4 DEF Return
    <3> QED BY <3>1, LoadsNone DEF Weighs
  <2> QED BY <2>1, <2>2, <2>3, <2>4
<1>3. PICK cs \in Seq(CallSet) : GoOn(t, cs)
  BY <1>2
<1>4. /\ Pending(CleanWt, todo) \in Nat /\ Pending(CleanWt, todo') \in Nat
      /\ Pending(WakeWt, todo) \in Nat /\ Pending(WakeWt, todo') \in Nat
      /\ Pending(CleanWt, todo') >= Pending(CleanWt, todo)
      /\ Pending(WakeWt, todo') >= Pending(WakeWt, todo)
  BY <1>2, <1>3, GoOnKeeps DEF IndInv
<1> QED BY <1>1, <1>4, KeepsAwake

LEMMA DropAwake ==
    ASSUME IndInv, IndInv', Awake, NEW t \in Threads, managedDropChunk(t)
    PROVE  Awake'
<1>1. /\ todo[t] # <<>> /\ GoOn(t, <<CleanUpCall>>)
      /\ UNCHANGED <<released, uploadComplete, available>>
  BY DEF managedDropChunk, At, endVars
<1>2. 1 \in 1 .. Len(todo'[t]) /\ todo'[t][1] = CleanUpCall
  BY <1>1, GoOnCleanUp DEF IndInv
<1> QED BY <1>1, <1>2, CleanUpAwakes

\* The workers that are woken no longer stand by but are remaining.
LEMMA NotifyAwake ==
    ASSUME IndInv, Awake, NEW t \in Threads, managedNotifyStandbyWorkers(t)
    PROVE  Awake'
<1> DEFINE cs == [i \in 1 .. Len(workersStandby) |-> QueueCall(workersStandby[i])]
<1>1. /\ At(t, "managedNotifyStandbyWorkers") /\ GoOn(t, cs) /\ workersStandby' = <<>>
      /\ UNCHANGED <<workersRemaining, piecesRegistered, stage, released,
                     uploadComplete, available>>
  BY DEF managedNotifyStandbyWorkers, endVars
<1>2. workersStandby \in Seq(Workers)
  BY DEF IndInv, Types
<1>3. cs \in Seq(CallSet)
  BY <1>2, LoadsQueue DEF Weighs
<1> HIDE DEF cs
<1>4. /\ Pending(CleanWt, todo) \in Nat /\ Pending(CleanWt, todo') \in Nat
      /\ Pending(CleanWt, todo') >= Pending(CleanWt, todo)
  BY <1>1, <1>3, GoOnKeeps DEF IndInv
<1>5. Len(workersStandby') = 0
  BY <1>1, EmptySeq
<1>6. SUFFICES ASSUME stage = "distributed", ~released PROVE Attended'
  BY <1>1 DEF Awake
<1>7. CASE workersStandby = <<>>
  <2>1. \/ workersRemaining > Len(workersStandby)
        \/ Pending(CleanWt, todo) > 0
        \/ piecesRegistered > 0
    BY <1>6, <1>7 DEF Awake, Attended
  <2>2. Pending(CleanWt, todo) > 0 => Pending(CleanWt, todo') > 0
    BY <1>4
  <2> QED BY <1>1, <1>7, <2>1, <2>2 DEF Attended
<1>8. CASE workersStandby # <<>>
  <2>1. Len(workersStandby) \in Nat /\ Len(workersStandby) > 0
    BY <1>2, <1>8, LenProperties, EmptySeq
  <2>2. workersRemaining = Total(queued) + Len(workersStandby) + Pending(RespWt, todo)
    BY DEF IndInv, Responsible
  <2>3. Total(queued) \in Nat /\ Pending(RespWt, todo) \in Nat
    BY CountTypes, WeightTypes, PendingType DEF IndInv, Stacks
  <2>4. workersRemaining > 0
    BY <2>1, <2>2, <2>3
  <2> QED BY <1>1, <1>5, <2>4 DEF Attended
<1> QED BY <1>7, <1>8

\* Workers that all stand by, without an upload: a chunk that is not
\* complete has a piece for them.
LEMMA IncompleteKeeps ==
    ASSUME IndInv, ~chunkComplete, piecesRegistered = 0
    PROVE  Kept # {} /\ workersRemaining > 0
<1>1. PICK u \in Nat : u = Cardinality(Unused(pieceUsage))
  BY CountTypes DEF IndInv
<1>2. piecesCompleted \in Nat /\ NumPieces \in Nat /\ workersRemaining \in Nat
  BY CountTypes DEF IndInv
<1>3. piecesCompleted # NumPieces /\ workersRemaining # 0
  BY DEF chunkComplete
<1>4. Freed = NumPieces - u - piecesCompleted - 0
  BY <1>1 DEF Freed
<1>5. Freed >= 0 /\ (Freed > 0 => u >= workersRemaining)
  BY <1>1 DEF IndInv, Surplus
<1>6. u # 0
  BY <1>2, <1>3, <1>4, <1>5
<1>7. Unused(pieceUsage) # {} /\ Unused(pieceUsage) \subseteq Pieces
  BY <1>1, <1>6, UnusedFacts DEF IndInv, Types
<1>8. Unused(pieceUsage) \in SUBSET Nat
  BY <1>7, PiecesAssumption DEF Pieces
<1>9. PICK i \in Unused(pieceUsage) : \A j \in Unused(pieceUsage) : i <= j
  BY <1>7, <1>8, LeastNatural
<1>10. {j \in Unused(pieceUsage) : j < i} = {}
  BY <1>8, <1>9
<1>11. Cardinality({j \in Unused(pieceUsage) : j < i}) = 0
  BY <1>10, FS_EmptySet
<1>12. workersRemaining > 0
  BY <1>2, <1>3
<1>13. i \in Kept
  BY <1>11, <1>12 DEF Kept
<1> QED BY <1>12, <1>13

\* A cleanup completes the chunk or leaves somebody to look after it.
LEMMA CleanUpAwake ==
    ASSUME IndInv, Awake, NEW t \in Threads, managedCleanUpUploadChunk(t)
    PROVE  Awake'
<1> DEFINE size == Cardinality(Unused(pieceUsage) \ Kept)
           a == IF Kept # {} THEN <<NotifyCall>> ELSE <<>>
           b == IF Releases THEN <<CloseCall>> ELSE <<>>
           d == IF size > 0 THEN <<ReturnCall(size)>> ELSE <<>>
<1>1. /\ At(t, "managedCleanUpUploadChunk") /\ GoOn(t, (a \o b) \o d)
      /\ UNCHANGED <<piecesRegistered, workersRemaining, workersStandby, stage>>
  BY DEF managedCleanUpUploadChunk
<1>2. /\ available' = (available \/ Reached \/ Releases)
      /\ uploadComplete' = (uploadComplete \/ chunkComplete)
      /\ released' = (released \/ chunkComplete)
  BY DEF managedCleanUpUploadChunk
<1>3. released' => uploadComplete' /\ available'
  <2>1. released => uploadComplete /\ available
    BY DEF Awake
  <2> QED BY <1>2, <2>1 DEF Releases
<1>4. ASSUME stage = "distributed", ~released, ~chunkComplete PROVE Attended'
  <2>1. CASE piecesRegistered > 0 \/ workersRemaining > Len(workersStandby)
    BY <1>1, <2>1 DEF Attended
  <2>2. CASE ~(piecesRegistered > 0) /\ ~(workersRemaining > Len(workersStandby))
    <3>1. /\ workersRemaining \in Nat /\ Len(workersStandby) \in Nat
          /\ piecesRegistered \in Nat
      BY CountTypes DEF IndInv
    <3>2. piecesRegistered = 0
      BY <2>2, <3>1
    <3>3. Kept # {} /\ workersRemaining > 0
      BY <1>4, <3>2, IncompleteKeeps
    <3>4. Len(workersStandby) > 0
      BY <2>2, <3>1, <3>3
    <3>5. workersStandby # <<>>
      BY <3>4, EmptySeq
    <3>6. size \in 0 .. NumPieces
      BY KeptFacts DEF IndInv
    <3>7. a \in Seq(CallSet) /\ b \in Seq(CallSet) /\ d \in Seq(CallSet)
      BY <3>6, LoadsNone, LoadsNotify, LoadsClose, LoadsReturn DEF Weighs
    <3>8. WakeWt \in [CallSet -> Nat] /\ Load(WakeWt, a) = 1
      <4>1. WakeWt \in [CallSet -> Nat] /\ NotifyCall \in CallSet /\ WakeWt[NotifyCall] = 1
        BY ProgressWeights
      <4>2. Load(WakeWt, <<NotifyCall>>) = 1
        BY <4>1, LoadOne
      <4> QED BY <3>3, <4>1, <4>2
    <3> HIDE DEF a, b, d
    <3>9. a \o b \in Seq(CallSet) /\ (a \o b) \o d \in Seq(CallSet)
      BY <3>7, ConcatProperties
    <3>10. Load(WakeWt, (a \o b) \o d) = 1 + Load(WakeWt, b) + Load(WakeWt, d)
      <4>1. Load(WakeWt, a \o b) = Load(WakeWt, a) + Load(WakeWt, b)
        BY <3>7, <3>8, LoadConcat
      <4>2. Load(WakeWt, (a \o b) \o d) = Load(WakeWt, a \o b) + Load(WakeWt, d)
        BY <3>7, <3>8, <3>9, LoadConcat
      <4> QED BY <3>8, <4>1, <4>2
    <3>11. Load(WakeWt, b) \in Nat /\ Load(WakeWt, d) \in Nat
      BY <3>7, <3>8, LoadType
    <3>12. todo[t] # <<>>
      BY <1>1 DEF At
    <3>13. /\ Pending(WakeWt, todo') = Pending(WakeWt, todo) - WakeWt[Head(todo[t])]
                                         + Load(WakeWt, (a \o b) \o d)
           /\ WakeWt[Head(todo[t])] \in Nat /\ Pending(WakeWt, todo) \in Nat
           /\ WakeWt[Head(todo[t])] <= Pending(WakeWt, todo)
      BY <1>1, <3>8, <3>9, <3>12, GoOnPending DEF IndInv
    <3>14. Pending(WakeWt, todo') > 0
      BY <3>10, <3>11, <3>13
    <3> QED BY <1>1, <3>5, <3>14 DEF Attended
  <2> QED BY <2>1, <2>2
<1> QED BY <1>1, <1>2, <1>3, <1>4 DEF Awake

LEMMA JobAwake ==
    ASSUME IndInv, IndInv', Awake, NEW w \in Workers, JobStep(w)
    PROVE  Awake'
<1> DEFINE t == Job(w)
<1>1. t \in Threads /\ todo \in [Threads -> Seq(CallSet)]
  BY ThreadNames DEF IndInv, Stacks
<1>2. CASE managedPerformUploadChunkJob(w)
  <2>1. /\ todo[t] = <<>> /\ Begin(t, <<ProcessCall(w)>>)
        /\ UNCHANGED <<workersRemaining, workersStandby, piecesRegistered, stage,
                       released, uploadComplete, available>>
    BY <1>2 DEF managedPerformUploadChunkJob, chunkVars, endVars
  <2>2. <<ProcessCall(w)>> \in Seq(CallSet)
    BY LoadsProcess DEF Weighs
  <2> HIDE DEF t
  <2>3. /\ Pending(CleanWt, todo) \in Nat /\ Pending(CleanWt, todo') \in Nat
        /\ Pending(WakeWt, todo) \in Nat /\ Pending(WakeWt, todo') \in Nat
        /\ Pending(CleanWt, todo') >= Pending(CleanWt, todo)
        /\ Pending(WakeWt, todo') >= Pending(WakeWt, todo)
    BY <1>1, <2>1, <2>2, BeginKeeps DEF IndInv
  <2> QED BY <2>1, <2>3, KeepsAwake
<1>3. CASE ProcessDrops(w)
  <2>1. /\ At(t, "managedProcessUploadChunk")
        /\ UNCHANGED <<workersRemaining, workersStandby, piecesRegistered, stage,
                       released, uploadComplete, available>>
    BY <1>3 DEF ProcessDrops, chunkVars, endVars
  <2>2. PICK cs : GoOn(t, cs) /\ cs \in {<<DropCall>>, <<DropCall, DropQueuedCall(w)>>}
    BY <1>3 DEF ProcessDrops
  <2>3. cs \in Seq(CallSet)
    BY <2>2, LoadsDrop, LoadsDropBoth DEF Weighs
  <2> HIDE DEF t
  <2>4. /\ Pending(CleanWt, todo) \in Nat /\ Pending(CleanWt, todo') \in Nat
        /\ Pending(WakeWt, todo) \in Nat /\ Pending(WakeWt, todo') \in Nat
        /\ Pending(CleanWt, todo') >= Pending(CleanWt, todo)
        /\ Pending(WakeWt, todo') >= Pending(WakeWt, todo)
    BY <1>1, <2>1, <2>2, <2>3, GoOnKeeps DEF IndInv
  <2> QED BY <2>1, <2>4, KeepsAwake
<1>4. CASE ProcessStandsBy(w)
  <2>1. /\ todo[t] # <<>> /\ GoOn(t, <<CleanUpCall>>)
        /\ UNCHANGED <<released, uploadComplete, available>>
    BY <1>4 DEF ProcessStandsBy, At, endVars
  <2> HIDE DEF t
  <2>2. 1 \in 1 .. Len(todo'[t]) /\ todo'[t][1] = CleanUpCall
    BY <1>1, <2>1, GoOnCleanUp DEF IndInv
  <2> QED BY <1>1, <2>1, <2>2, CleanUpAwakes
<1>5. CASE ProcessRegisters(w)
  <2>1. /\ piecesRegistered' = piecesRegistered + 1
        /\ UNCHANGED <<released, uploadComplete, available>>
    BY <1>5 DEF ProcessRegisters, endVars
  <2>2. piecesRegistered' > 0
    BY <2>1 DEF IndInv, Types
  <2> QED BY <2>1, <2>2 DEF Awake, Attended
<1>6. CASE UploadSucceeds(w)
  <2>1. /\ todo'[t] = <<ReturnCall(1), CleanUpCall>>
        /\ UNCHANGED <<released, uploadComplete, available>>
    BY <1>1, <1>6 DEF UploadSucceeds, Begin, endVars
  <2>2. 2 \in 1 .. Len(todo'[t]) /\ todo'[t][2] = CleanUpCall
    BY <2>1
  <2> HIDE DEF t
  <2> QED BY <1>1, <2>1, <2>2, CleanUpAwakes
<1>7. CASE managedUploadFailed(w)
  <2>1. /\ todo'[t] = <<NotifyCall, CleanUpCall, DropQueuedCall(w)>>
        /\ UNCHANGED <<released, uploadComplete, available>>
    BY <1>1, <1>7 DEF managedUploadFailed, Begin, endVars
  <2>2. 2 \in 1 .. Len(todo'[t]) /\ todo'[t][2] = CleanUpCall
    BY <2>1
  <2> HIDE DEF t
  <2> QED BY <1>1, <2>1, <2>2, CleanUpAwakes
<1> QED BY <1>2, <1>3, <1>4, <1>5, <1>6, <1>7 DEF JobStep

LEMMA KillAwake ==
    ASSUME IndInv, Awake, NEW w \in Workers, managedKillUploading(w)
    PROVE  Awake'
<1> DEFINE t == Loop(w)
<1>1. /\ todo[t] = <<>> /\ t \in Threads /\ Begin(t, <<DropQueuedCall(w)>>)
      /\ UNCHANGED <<workersRemaining, workersStandby, piecesRegistered, stage,
                     released, uploadComplete, available>>
  BY ThreadNames DEF managedKillUploading, chunkVars, endVars, IndInv, Control
<1>2. <<DropQueuedCall(w)>> \in Seq(CallSet)
  BY LoadsDropQueued DEF Weighs
<1> HIDE DEF t
<1>3. /\ Pending(CleanWt, todo) \in Nat /\ Pending(CleanWt, todo') \in Nat
      /\ Pending(WakeWt, todo) \in Nat /\ Pending(WakeWt, todo') \in Nat
      /\ Pending(CleanWt, todo') >= Pending(CleanWt, todo)
      /\ Pending(WakeWt, todo') >= Pending(WakeWt, todo)
  BY <1>1, <1>2, BeginKeeps DEF IndInv
<1> QED BY <1>1, <1>3, KeepsAwake

LEMMA NextAwake == IndInv /\ IndInv' /\ Awake /\ [Next]_vars => Awake'
<1> SUFFICES ASSUME IndInv, IndInv', Awake, [Next]_vars PROVE Awake'
  OBVIOUS
<1>1. CASE ChunkStep
  BY <1>1, FetchAwake DEF ChunkStep
<1>2. ASSUME NEW t \in Threads, ThreadStep(t) PROVE Awake'
  BY <1>2, PassiveAwake, DropAwake, NotifyAwake, CleanUpAwake DEF ThreadStep
<1>3. ASSUME NEW w \in Workers, JobStep(w) PROVE Awake'
  BY <1>3, JobAwake
<1>4. ASSUME NEW w \in Workers, managedKillUploading(w) PROVE Awake'
  BY <1>4, KillAwake
<1>5. CASE UNCHANGED vars
  BY <1>5 DEF vars, chunkVars, endVars, Awake, Attended
<1> QED BY <1>1, <1>2, <1>3, <1>4, <1>5 DEF Next

\* A distributed chunk that is not complete is always attended to: some
\* thread, queue, upload or pending wakeup leads to a further cleanup.
THEOREM AlwaysAttended == Spec => []Awake
<1>1. Init => Awake
  BY DEF Init, Awake
<1>2. IndInv /\ IndInv' /\ Awake /\ [Next]_vars => Awake'
  BY NextAwake
<1> QED BY Inductive, <1>1, <1>2, PTL DEF Spec

LEMMA NoCalls ==
    ASSUME Stacks, \A t \in Threads : todo[t] = <<>>, NEW wt \in [CallSet -> Nat]
    PROVE  Pending(wt, todo) = 0
<1> DEFINE f == [t \in Threads |-> Load(wt, todo[t])]
<1>1. f \in [Threads -> Nat]
  BY PendingType DEF Stacks
<1>2. \A t \in Threads : f[t] = 0
  BY LoadEmpty
<1>3. Total(f) = 0
  <2> HIDE DEF f
  <2> QED BY <1>1, <1>2, ThreadsFinite, TotalZero
<1> QED BY <1>3 DEF Pending

LEMMA StuckFollows == IndInv /\ Awake => NeverStuck
<1> SUFFICES ASSUME IndInv, Awake, stage = "distributed",
                    \A t \in Threads : todo[t] = <<>>,
                    \A w \in Workers : queued[w] = 0 /\ uploading[w] = 0
             PROVE  uploadComplete /\ available /\ ~repairing /\ returned = MemoryNeeded
  BY DEF NeverStuck
<1>1. /\ Pending(RespWt, todo) = 0 /\ Pending(CloseWt, todo) = 0 /\ Pending(MemWt, todo) = 0
      /\ Pending(CleanWt, todo) = 0 /\ Pending(WakeWt, todo) = 0
  BY NoCalls, WeightTypes, ProgressWeights DEF IndInv
<1>2. Total(queued) = 0
  BY WorkersAssumption, TotalZero DEF IndInv, Types
<1>3. Len(workersStandby) \in Nat
  BY CountTypes DEF IndInv
<1>4. workersRemaining = Len(workersStandby)
  BY <1>1, <1>2, <1>3 DEF IndInv, Responsible
<1>5. piecesRegistered = 0
  <2>1. Active = {}
    BY DEF Active
  <2> QED BY <2>1, UploadsPointwise, FS_EmptySet DEF IndInv, UploadsApart
<1>6. ~Attended
  BY <1>1, <1>3, <1>4, <1>5 DEF Attended
<1>7. released
  BY <1>6 DEF Awake
<1>8. uploadComplete /\ available
  BY <1>7 DEF Awake
<1>9. ~repairing
  <2>1. Pending(CloseWt, todo) + (IF repairing THEN 0 ELSE 1) = (IF released THEN 1 ELSE 0)
    BY DEF IndInv, Closing
  <2> QED BY <1>1, <1>7, <2>1
<1>10. memoryReleased = MemoryNeeded
  BY <1>7, MemoryFollows DEF AllMemoryReleased
<1>11. returned = MemoryNeeded
  <2>1. returned \in Nat /\ returned + Pending(MemWt, todo) = memoryReleased
    BY DEF IndInv, Types, MemoryCounted
  <2> QED BY <1>1, <1>10, <2>1
<1> QED BY <1>8, <1>9, <1>11

\* A chunk that no thread, queue or upload works on any more is finished,
\* whatever order workers stand by, fail, are killed and clean up in: both
\* channels are closed, the chunk left repairingChunks and its memory is back.
\* managedNotifyStandbyWorkers and managedCleanUpUploadChunk lose no wakeup.
THEOREM ChunkNeverStuck == Spec => []NeverStuck
BY Inductive, AlwaysAttended, StuckFollows, PTL

=============================================================================
