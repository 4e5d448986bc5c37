-------------------------- MODULE UploadChunkProofs --------------------------
(***************************************************************************)
(* TLAPS proofs about UploadChunk, for every finite set of workers and     *)
(* every number of pieces.                                                 *)
(***************************************************************************)
EXTENDS UploadChunk, TotalsProofs, SequenceTheorems

\* The calls that stand in a call stack.  A worker that looks at the chunk
\* does nothing else: managedProcessUploadChunk is alone in its stack.
PlainCalls ==
    {QueueCall(w) : w \in Workers} \cup {DropQueuedCall(w) : w \in Workers}
      \cup {ReturnCall(n) : n \in 0 .. NumPieces}
      \cup {DropCall, CleanUpCall, NotifyCall, CloseCall}
CallSet == PlainCalls \cup {ProcessCall(w) : w \in Workers}

\* What the calls of a stack, and of all stacks, weigh together.
Load(wt, s) == Total([i \in 1 .. Len(s) |-> wt[s[i]]])
Pending(wt, td) == Total([t \in Threads |-> Load(wt, td[t])])

\* A call for which the worker still counts as remaining.
RespWt == [c \in CallSet |->
             IF c[1] \in {"callQueueUploadChunk", "managedDropChunk",
                          "managedProcessUploadChunk"} THEN 1 ELSE 0]
CloseWt == [c \in CallSet |-> IF c[1] \in {"Close"} THEN 1 ELSE 0]
\* The memory that a call is going to return.
MemWt == [c \in CallSet |-> IF c[1] = "Return" THEN c[2] ELSE 0]
\* A call that has the chunk for worker w.
OwnWt(w) == [c \in CallSet |->
               IF c[1] \in {"callQueueUploadChunk", "managedProcessUploadChunk"}
               THEN IF c[2] = w THEN 1 ELSE 0
               ELSE 0]
SelfWt(w) == [v \in Workers |-> IF v = w THEN 1 ELSE 0]

-----------------------------------------------------------------------------
(* The parts of the inductive invariant. *)

Stacks ==
    /\ todo \in [Threads -> Seq(CallSet)]
    /\ \A t \in Threads :
        \/ todo[t] \in Seq(PlainCalls)
        \/ \E w \in Workers : t = Job(w) /\ todo[t] = <<ProcessCall(w)>>

\* An upload that runs holds its job, and the work loop has nothing to do
\* for the chunk before it ends.
Control ==
    \A w \in Workers :
        /\ uploading[w] # 0 => todo[Job(w)] = <<>>
        /\ ~terminated[w] => todo[Loop(w)] = <<>>

\* Before the distribution nobody has the chunk; a work loop that ends looks
\* for it in vain.
Before ==
    stage # "distributed" =>
        /\ workersRemaining = 0 /\ piecesRegistered = 0 /\ ~released
        /\ workersStandby = <<>> /\ todo[Distributor] = <<>>
        /\ \A t \in Threads : todo[t] \in Seq({DropQueuedCall(w) : w \in Workers})
        /\ \A w \in Workers : queued[w] = 0 /\ uploading[w] = 0

Responsible ==
    workersRemaining = Total(queued) + Len(workersStandby) + Pending(RespWt, todo)

\* A worker has the chunk at most once.
OwnedOnce ==
    \A w \in Workers :
        queued[w] + Load(SelfWt(w), workersStandby) + Pending(OwnWt(w), todo) <= 1

\* The pieces that are neither unused, nor uploading, nor uploaded: a
\* cleanup gave them up.
Freed == NumPieces - Cardinality(Unused(pieceUsage)) - piecesCompleted - piecesRegistered

\* Pieces are given up only when every remaining worker has one to take.
Surplus ==
    /\ Freed >= 0
    /\ Freed > 0 => Cardinality(Unused(pieceUsage)) >= workersRemaining
    /\ stage # "distributed" => Freed = 0

MemoryCounted ==
    /\ memoryReleased = IF stage = "fetching" THEN 0
                        ELSE MemoryNeeded - Cardinality(Unused(pieceUsage)) - piecesRegistered
    /\ returned + Pending(MemWt, todo) = memoryReleased

Closing ==
    /\ Pending(CloseWt, todo) + (IF repairing THEN 0 ELSE 1) = (IF released THEN 1 ELSE 0)
    /\ freed => released
    /\ released => /\ piecesRegistered = 0
                   /\ Unused(pieceUsage) = {}
                   /\ piecesCompleted = NumPieces \/ workersRemaining = 0

\* The types that the counters do not follow from.
Types ==
    /\ pieceUsage \in [Pieces -> BOOLEAN]
    /\ piecesCompleted \in Nat
    /\ piecesRegistered \in Nat
    /\ memoryReleased \in Nat
    /\ returned \in Nat
    /\ workersRemaining \in 0 .. Cardinality(Workers)
    /\ workersStandby \in Seq(Workers)
    /\ unusedHosts \subseteq Workers
    /\ released \in BOOLEAN /\ failed \in BOOLEAN /\ available \in BOOLEAN
    /\ uploadComplete \in BOOLEAN /\ repairing \in BOOLEAN /\ freed \in BOOLEAN
    /\ stage \in {"fetching", "fetched", "distributed"}
    /\ queued \in [Workers -> Nat]
    /\ terminated \in [Workers -> BOOLEAN]
    /\ uploading \in [Workers -> 0 .. NumPieces]

\* The inductive invariant.
IndInv ==
    /\ Types
    /\ Stacks
    /\ Control
    /\ Before
    /\ Responsible
    /\ OwnedOnce
    /\ Surplus
    /\ MemoryCounted
    /\ Closing
    /\ UploadsDistinct
    /\ AvailableIsRecoverable

-----------------------------------------------------------------------------
(* Weights of stacks. *)

LEMMA UpTo ==
    ASSUME NEW n \in Nat
    PROVE  IsFiniteSet(1 .. n) /\ Cardinality(1 .. n) = n
BY FS_Interval

LEMMA LoadType ==
    ASSUME NEW C, NEW wt \in [C -> Nat], NEW s \in Seq(C)
    PROVE  /\ Load(wt, s) \in Nat
           /\ [i \in 1 .. Len(s) |-> wt[s[i]]] \in [1 .. Len(s) -> Nat]
           /\ IsFiniteSet(1 .. Len(s))
<1>1. Len(s) \in Nat /\ \A i \in 1 .. Len(s) : s[i] \in C
  BY LenProperties, ElementOfSeq
<1>2. IsFiniteSet(1 .. Len(s))
  BY <1>1, FS_Interval
<1> DEFINE f == [i \in 1 .. Len(s) |-> wt[s[i]]]
<1>3. f \in [1 .. Len(s) -> Nat]
  BY <1>1
<1>4. Total(f) \in Nat
  <2> HIDE DEF f
  <2> QED BY <1>2, <1>3, TotalType
<1> QED BY <1>2, <1>3, <1>4 DEF Load

\* Calls that weigh nothing add nothing.
LEMMA LoadZero ==
    ASSUME NEW C, NEW wt \in [C -> Nat], NEW s \in Seq(C),
           \A i \in 1 .. Len(s) : wt[s[i]] = 0
    PROVE  Load(wt, s) = 0
<1> DEFINE f == [i \in 1 .. Len(s) |-> wt[s[i]]]
<1>1. f \in [1 .. Len(s) -> Nat] /\ IsFiniteSet(1 .. Len(s))
  BY LoadType
<1>2. \A i \in 1 .. Len(s) : f[i] = 0
  OBVIOUS
<1>3. Total(f) = 0
  <2> HIDE DEF f
  <2> QED BY <1>1, <1>2, TotalZero
<1> QED BY <1>3 DEF Load

LEMMA LoadEmpty ==
    ASSUME NEW C, NEW wt \in [C -> Nat]
    PROVE  Load(wt, <<>>) = 0
<1>1. <<>> \in Seq(C) /\ Len(<<>>) = 0
  BY EmptySeq
<1>2. \A i \in 1 .. Len(<<>>) : wt[(<<>>)[i]] = 0
  BY <1>1
<1> QED BY <1>1, <1>2, LoadZero

\* Weights of zero or one count the places of weight one.
LEMMA LoadCounts ==
    ASSUME NEW C, NEW wt \in [C -> Nat], NEW s \in Seq(C),
           \A i \in 1 .. Len(s) : wt[s[i]] \in {0, 1}
    PROVE  Load(wt, s) = Cardinality({i \in 1 .. Len(s) : wt[s[i]] = 1})
<1> DEFINE f == [i \in 1 .. Len(s) |-> wt[s[i]]]
<1>1. f \in [1 .. Len(s) -> Nat] /\ IsFiniteSet(1 .. Len(s))
  BY LoadType
<1>2. \A i \in 1 .. Len(s) : f[i] \in {0, 1}
  OBVIOUS
<1>3. Total(f) = Cardinality({i \in 1 .. Len(s) : f[i] = 1})
  <2> HIDE DEF f
  <2> QED BY <1>1, <1>2, TotalIndicator
<1>4. {i \in 1 .. Len(s) : f[i] = 1} = {i \in 1 .. Len(s) : wt[s[i]] = 1}
  OBVIOUS
<1> QED BY <1>3, <1>4 DEF Load

\* Calls that weigh one each weigh as much as there are.
LEMMA LoadOnes ==
    ASSUME NEW C, NEW wt \in [C -> Nat], NEW s \in Seq(C),
           \A i \in 1 .. Len(s) : wt[s[i]] = 1
    PROVE  Load(wt, s) = Len(s)
<1>1. Load(wt, s) = Cardinality({i \in 1 .. Len(s) : wt[s[i]] = 1})
  BY LoadCounts
<1>2. {i \in 1 .. Len(s) : wt[s[i]] = 1} = 1 .. Len(s)
  OBVIOUS
<1>3. Len(s) \in Nat
  BY LenProperties
<1>4. Cardinality(1 .. Len(s)) = Len(s)
  BY <1>3, UpTo
<1> QED BY <1>1, <1>2, <1>4

LEMMA LoadConcat ==
    ASSUME NEW C, NEW wt \in [C -> Nat], NEW s \in Seq(C), NEW u \in Seq(C)
    PROVE  Load(wt, s \o u) = Load(wt, s) + Load(wt, u)
<1> DEFINE m == Len(s)
           n == Len(u)
           f == [i \in 1 .. m |-> wt[s[i]]]
           g == [i \in 1 .. n |-> wt[u[i]]]
           h == [i \in 1 .. Len(s \o u) |-> wt[(s \o u)[i]]]
<1>1. m \in Nat /\ n \in Nat
  BY LenProperties
<1>2. /\ s \o u \in Seq(C)
      /\ Len(s \o u) = m + n
      /\ \A i \in 1 .. (m + n) : (s \o u)[i] = IF i <= m THEN s[i] ELSE u[i - m]
  BY ConcatProperties
<1>3. f \in [1 .. m -> Nat] /\ g \in [1 .. n -> Nat]
  BY LoadType
<1>4. h \in [1 .. (m + n) -> Nat]
  BY <1>2, LoadType
<1>5. /\ \A i \in 1 .. m : h[i] = f[i]
      /\ \A i \in 1 .. n : h[i + m] = g[i]
  <2>1. ASSUME NEW i \in 1 .. m PROVE h[i] = f[i]
    <3>1. i \in 1 .. (m + n) /\ i <= m
      BY <1>1
    <3> QED BY <1>2, <3>1
  <2>2. ASSUME NEW i \in 1 .. n PROVE h[i + m] = g[i]
    <3>1. i + m \in 1 .. (m + n) /\ ~(i + m <= m) /\ (i + m) - m = i
      BY <1>1
    <3> QED BY <1>2, <3>1
  <2> QED BY <2>1, <2>2
<1> HIDE DEF m, n, f, g, h
<1>6. Concats(m, n, f, g, h)
  BY <1>3, <1>4, <1>5 DEF Concats
<1>7. Total(h) = Total(f) + Total(g)
  BY <1>1, <1>6, TotalConcat
<1> QED BY <1>7 DEF Load, f, g, h, m, n

LEMMA LoadOne ==
    ASSUME NEW C, NEW wt \in [C -> Nat], NEW c \in C
    PROVE  Load(wt, <<c>>) = wt[c]
<1> DEFINE f == [i \in 1 .. 1 |-> wt[c]]
           dom == 1 .. 1
           one == 1
           z == [i \in dom |-> 0]
<1>1. <<c>> \in Seq(C) /\ Len(<<c>>) = 1 /\ (<<c>>)[1] = c /\ wt[c] \in Nat
  OBVIOUS
<1>2. [i \in 1 .. Len(<<c>>) |-> wt[(<<c>>)[i]]] = f
  BY <1>1
<1>3. IsFiniteSet(dom)
  <2>1. one \in Nat
    OBVIOUS
  <2>2. IsFiniteSet(1 .. one)
    <3> HIDE DEF one
    <3> QED BY <2>1, UpTo
  <2> QED BY <2>2
<1>4. z \in [dom -> Nat] /\ one \in dom /\ z[one] = 0 /\ \A i \in dom : z[i] = 0
  OBVIOUS
<1>5. f = [z EXCEPT ![one] = wt[c]]
  OBVIOUS
<1>6. Total([z EXCEPT ![one] = wt[c]]) = Total(z) - z[one] + wt[c]
  <2>1. PICK v \in Nat : v = wt[c]
    BY <1>1
  <2> HIDE DEF z, dom, one
  <2>2. Total([z EXCEPT ![one] = v]) = Total(z) - z[one] + v
    BY <1>3, <1>4, TotalExcept
  <2> QED BY <2>1, <2>2
<1>7. Total(z) = 0
  <2> HIDE DEF z, dom
  <2> QED BY <1>3, <1>4, TotalZero
<1> HIDE DEF f, z, dom, one
<1> QED BY <1>1, <1>2, <1>4, <1>5, <1>6, <1>7 DEF Load

LEMMA LoadTwo ==
    ASSUME NEW C, NEW wt \in [C -> Nat], NEW c \in C, NEW d \in C
    PROVE  Load(wt, <<c, d>>) = wt[c] + wt[d]
<1>1. <<c>> \in Seq(C) /\ <<d>> \in Seq(C)
  OBVIOUS
<1>2. <<c, d>> = <<c>> \o <<d>>
  <2>1. <<c, d>> \in Seq(C)
    OBVIOUS
  <2>2. /\ <<c>> \o <<d>> \in Seq(C)
        /\ Len(<<c>> \o <<d>>) = 2
        /\ (<<c>> \o <<d>>)[1] = c /\ (<<c>> \o <<d>>)[2] = d
    BY <1>1, ConcatProperties
  <2>3. \A i \in 1 .. Len(<<c, d>>) : (<<c, d>>)[i] = (<<c>> \o <<d>>)[i]
    BY <2>2
  <2> QED BY <2>1, <2>2, <2>3, SeqEqual
<1>3. Load(wt, <<c>> \o <<d>>) = Load(wt, <<c>>) + Load(wt, <<d>>)
  BY <1>1, LoadConcat
<1> QED BY <1>2, <1>3, LoadOne

LEMMA LoadThree ==
    ASSUME NEW C, NEW wt \in [C -> Nat], NEW c \in C, NEW d \in C, NEW e \in C
    PROVE  Load(wt, <<c, d, e>>) = wt[c] + wt[d] + wt[e]
<1>1. <<c, d>> \in Seq(C) /\ <<e>> \in Seq(C)
  OBVIOUS
<1>2. <<c, d, e>> = <<c, d>> \o <<e>>
  OBVIOUS
<1>3. Load(wt, <<c, d>> \o <<e>>) = Load(wt, <<c, d>>) + Load(wt, <<e>>)
  BY <1>1, LoadConcat
<1> QED BY <1>2, <1>3, LoadOne, LoadTwo

LEMMA LoadTail ==
    ASSUME NEW C, NEW wt \in [C -> Nat], NEW s \in Seq(C), s # <<>>
    PROVE  Load(wt, s) = wt[Head(s)] + Load(wt, Tail(s))
<1>1. /\ Head(s) \in C /\ Tail(s) \in Seq(C)
      /\ <<Head(s)>> \in Seq(C)
  BY HeadTailProperties
<1>2. s = <<Head(s)>> \o Tail(s)
  OBVIOUS
<1>3. Load(wt, <<Head(s)>> \o Tail(s)) = Load(wt, <<Head(s)>>) + Load(wt, Tail(s))
  BY <1>1, LoadConcat
<1>4. Load(wt, <<Head(s)>>) = wt[Head(s)]
  BY <1>1, LoadOne
<1> QED BY <1>2, <1>3, <1>4

-----------------------------------------------------------------------------
(* Threads and calls. *)

LEMMA ThreadsFinite == IsFiniteSet(Threads)
<1> DEFINE jobs == {Job(w) : w \in Workers}
           loops == {Loop(w) : w \in Workers}
<1>1. IsFiniteSet(jobs)
  <2>1. [w \in Workers |-> Job(w)] \in Surjection(Workers, jobs)
    BY DEF Surjection
  <2> QED BY <2>1, WorkersAssumption, FS_Surjection
<1>2. IsFiniteSet(loops)
  <2>1. [w \in Workers |-> Loop(w)] \in Surjection(Workers, loops)
    BY DEF Surjection
  <2> QED BY <2>1, WorkersAssumption, FS_Surjection
<1>3. IsFiniteSet({Distributor})
  BY FS_Singleton
<1> HIDE DEF jobs, loops
<1>4. IsFiniteSet({Distributor} \cup jobs)
  BY <1>1, <1>3, FS_Union
<1>5. IsFiniteSet(({Distributor} \cup jobs) \cup loops)
  BY <1>2, <1>4, FS_Union
<1> QED BY <1>5 DEF Threads, jobs, loops

LEMMA ThreadNames ==
    /\ Distributor \in Threads
    /\ \A w \in Workers :
        /\ Job(w) \in Threads /\ Loop(w) \in Threads
        /\ Job(w) # Distributor /\ Loop(w) # Distributor
        /\ \A v \in Workers : Job(w) # Loop(v) /\ (v # w => Job(v) # Job(w) /\ Loop(v) # Loop(w))
BY DEF Threads, Distributor, Job, Loop

LEMMA CallNames ==
    /\ {DropCall, CleanUpCall, NotifyCall, CloseCall} \subseteq PlainCalls
    /\ \A w \in Workers : QueueCall(w) \in PlainCalls /\ DropQueuedCall(w) \in PlainCalls
    /\ \A w \in Workers : ProcessCall(w) \in CallSet
    /\ \A n \in 0 .. NumPieces : ReturnCall(n) \in PlainCalls
    /\ PlainCalls \subseteq CallSet
BY DEF PlainCalls, CallSet

\* The arguments of the calls.
LEMMA CallArguments ==
    ASSUME NEW c \in CallSet
    PROVE  /\ c[1] \in {"callQueueUploadChunk", "managedDropUploadChunks",
                        "managedProcessUploadChunk"} => c[2] \in Workers
           /\ c[1] = "Return" => c[2] \in 0 .. NumPieces
BY DEF CallSet, PlainCalls, QueueCall, ProcessCall, DropQueuedCall, ReturnCall,
       DropCall, CleanUpCall, NotifyCall, CloseCall

LEMMA PlainNotProcess ==
    ASSUME NEW c \in PlainCalls
    PROVE  c[1] # "managedProcessUploadChunk"
BY DEF PlainCalls, QueueCall, DropQueuedCall, ReturnCall, DropCall, CleanUpCall,
       NotifyCall, CloseCall

LEMMA WeightTypes ==
    /\ RespWt \in [CallSet -> Nat]
    /\ CloseWt \in [CallSet -> Nat]
    /\ MemWt \in [CallSet -> Nat]
    /\ \A w \in Workers : OwnWt(w) \in [CallSet -> Nat]
    /\ \A w \in Workers : SelfWt(w) \in [Workers -> Nat]
<1>1. \A c \in CallSet : c[1] = "Return" => c[2] \in Nat
  BY CallArguments, PiecesAssumption
<1> QED BY <1>1 DEF RespWt, CloseWt, MemWt, OwnWt, SelfWt

\* What each call weighs.
LEMMA RespWeights ==
    /\ \A w \in Workers : RespWt[QueueCall(w)] = 1 /\ RespWt[ProcessCall(w)] = 1
    /\ RespWt[DropCall] = 1
    /\ \A w \in Workers : RespWt[DropQueuedCall(w)] = 0
    /\ \A n \in 0 .. NumPieces : RespWt[ReturnCall(n)] = 0
    /\ RespWt[CleanUpCall] = 0 /\ RespWt[NotifyCall] = 0 /\ RespWt[CloseCall] = 0
BY CallNames DEF RespWt, QueueCall, ProcessCall, DropQueuedCall, ReturnCall,
       DropCall, CleanUpCall, NotifyCall, CloseCall

LEMMA CloseWeights ==
    /\ CloseWt[CloseCall] = 1
    /\ \A w \in Workers : /\ CloseWt[QueueCall(w)] = 0 /\ CloseWt[ProcessCall(w)] = 0
                          /\ CloseWt[DropQueuedCall(w)] = 0
    /\ \A n \in 0 .. NumPieces : CloseWt[ReturnCall(n)] = 0
    /\ CloseWt[CleanUpCall] = 0 /\ CloseWt[NotifyCall] = 0 /\ CloseWt[DropCall] = 0
BY CallNames DEF CloseWt, QueueCall, ProcessCall, DropQueuedCall, ReturnCall,
       DropCall, CleanUpCall, NotifyCall, CloseCall

LEMMA MemWeights ==
    /\ \A n \in 0 .. NumPieces : MemWt[ReturnCall(n)] = n
    /\ \A w \in Workers : /\ MemWt[QueueCall(w)] = 0 /\ MemWt[ProcessCall(w)] = 0
                          /\ MemWt[DropQueuedCall(w)] = 0
    /\ MemWt[CleanUpCall] = 0 /\ MemWt[NotifyCall] = 0 /\ MemWt[DropCall] = 0
    /\ MemWt[CloseCall] = 0
BY CallNames DEF MemWt, QueueCall, ProcessCall, DropQueuedCall, ReturnCall,
       DropCall, CleanUpCall, NotifyCall, CloseCall

LEMMA OwnWeights ==
    ASSUME NEW v \in Workers
    PROVE  /\ \A w \in Workers : /\ OwnWt(v)[QueueCall(w)] = SelfWt(v)[w]
                                 /\ OwnWt(v)[ProcessCall(w)] = SelfWt(v)[w]
                                 /\ OwnWt(v)[DropQueuedCall(w)] = 0
           /\ \A n \in 0 .. NumPieces : OwnWt(v)[ReturnCall(n)] = 0
           /\ OwnWt(v)[CleanUpCall] = 0 /\ OwnWt(v)[NotifyCall] = 0
           /\ OwnWt(v)[DropCall] = 0 /\ OwnWt(v)[CloseCall] = 0
BY CallNames DEF OwnWt, SelfWt, QueueCall, ProcessCall, DropQueuedCall, ReturnCall,
       DropCall, CleanUpCall, NotifyCall, CloseCall

LEMMA PendingType ==
    ASSUME NEW wt \in [CallSet -> Nat], NEW td \in [Threads -> Seq(CallSet)]
    PROVE  /\ [t \in Threads |-> Load(wt, td[t])] \in [Threads -> Nat]
           /\ Pending(wt, td) \in Nat
           /\ \A t \in Threads : Load(wt, td[t]) <= Pending(wt, td)
<1> DEFINE f == [t \in Threads |-> Load(wt, td[t])]
<1>1. f \in [Threads -> Nat]
  BY LoadType
<1>2. Total(f) \in Nat /\ \A t \in Threads : f[t] <= Total(f)
  <2> HIDE DEF f
  <2> QED BY <1>1, ThreadsFinite, TotalType
<1> QED BY <1>1, <1>2 DEF Pending

\* Exchanging one stack.
LEMMA PendingExcept ==
    ASSUME NEW wt \in [CallSet -> Nat], NEW td \in [Threads -> Seq(CallSet)],
           NEW t \in Threads, NEW s \in Seq(CallSet)
    PROVE  Pending(wt, [td EXCEPT ![t] = s]) =
             Pending(wt, td) - Load(wt, td[t]) + Load(wt, s)
<1> DEFINE f == [u \in Threads |-> Load(wt, td[u])]
           g == [u \in Threads |-> Load(wt, [td EXCEPT ![t] = s][u])]
<1>1. f \in [Threads -> Nat] /\ f[t] = Load(wt, td[t])
  BY PendingType
<1>2. Load(wt, s) \in Nat
  BY LoadType
<1>3. g = [f EXCEPT ![t] = Load(wt, s)]
  OBVIOUS
<1>4. Total([f EXCEPT ![t] = Load(wt, s)]) = Total(f) - f[t] + Load(wt, s)
  <2> HIDE DEF f
  <2> QED BY <1>1, <1>2, ThreadsFinite, TotalExcept
<1> QED BY <1>1, <1>3, <1>4 DEF Pending

\* The call that a thread is at, and what it weighs.
LEMMA AtWeights ==
    ASSUME Stacks, NEW t \in Threads, NEW name, At(t, name)
    PROVE  /\ todo[t] \in Seq(CallSet) /\ todo[t] # <<>>
           /\ Head(todo[t]) \in CallSet /\ Head(todo[t])[1] = name
           /\ RespWt[Head(todo[t])] =
                IF name \in {"callQueueUploadChunk", "managedDropChunk",
                             "managedProcessUploadChunk"} THEN 1 ELSE 0
           /\ CloseWt[Head(todo[t])] = IF name = "Close" THEN 1 ELSE 0
           /\ MemWt[Head(todo[t])] = IF name = "Return" THEN Arg(t) ELSE 0
           /\ \A v \in Workers : OwnWt(v)[Head(todo[t])] =
                IF name \in {"callQueueUploadChunk", "managedProcessUploadChunk"}
                THEN SelfWt(v)[Arg(t)] ELSE 0
<1>1. todo[t] \in Seq(CallSet) /\ todo[t] # <<>> /\ Head(todo[t])[1] = name
  BY DEF Stacks, At
<1>2. Head(todo[t]) \in CallSet
  BY <1>1, HeadTailProperties
<1>3. name \in {"callQueueUploadChunk", "managedProcessUploadChunk"} => Arg(t) \in Workers
  BY <1>1, <1>2, CallArguments DEF Arg
<1>4. RespWt[Head(todo[t])] =
                IF name \in {"callQueueUploadChunk", "managedDropChunk",
                             "managedProcessUploadChunk"} THEN 1 ELSE 0
  BY <1>1, <1>2 DEF RespWt
<1>5. CloseWt[Head(todo[t])] = IF name = "Close" THEN 1 ELSE 0
  BY <1>1, <1>2 DEF CloseWt
<1>6. MemWt[Head(todo[t])] = IF name = "Return" THEN Arg(t) ELSE 0
  BY <1>1, <1>2 DEF MemWt, Arg
<1>7. ASSUME NEW v \in Workers
      PROVE  OwnWt(v)[Head(todo[t])] =
                IF name \in {"callQueueUploadChunk", "managedProcessUploadChunk"}
                THEN SelfWt(v)[Arg(t)] ELSE 0
  BY <1>1, <1>2, <1>3 DEF OwnWt, SelfWt, Arg
<1> QED BY <1>1, <1>2, <1>4, <1>5, <1>6, <1>7

LEMMA GoOnPending ==
    ASSUME Stacks, NEW t \in Threads, todo[t] # <<>>, NEW cs \in Seq(CallSet),
           GoOn(t, cs), NEW wt \in [CallSet -> Nat]
    PROVE  /\ Pending(wt, todo') = Pending(wt, todo) - wt[Head(todo[t])] + Load(wt, cs)
           /\ wt[Head(todo[t])] \in Nat /\ Load(wt, cs) \in Nat
           /\ Pending(wt, todo) \in Nat /\ Pending(wt, todo') \in Nat
           /\ wt[Head(todo[t])] <= Pending(wt, todo)
<1>1. todo \in [Threads -> Seq(CallSet)] /\ todo[t] \in Seq(CallSet)
  BY DEF Stacks
<1>2. Head(todo[t]) \in CallSet /\ Tail(todo[t]) \in Seq(CallSet)
  BY <1>1, HeadTailProperties
<1>3. /\ Load(wt, todo[t]) = wt[Head(todo[t])] + Load(wt, Tail(todo[t]))
      /\ Load(wt, cs \o Tail(todo[t])) = Load(wt, cs) + Load(wt, Tail(todo[t]))
      /\ cs \o Tail(todo[t]) \in Seq(CallSet)
  <2>1. Load(wt, todo[t]) = wt[Head(todo[t])] + Load(wt, Tail(todo[t]))
    BY <1>1, LoadTail
  <2>2. Load(wt, cs \o Tail(todo[t])) = Load(wt, cs) + Load(wt, Tail(todo[t]))
    BY <1>2, LoadConcat
  <2>3. cs \o Tail(todo[t]) \in Seq(CallSet)
    BY <1>2, ConcatProperties
  <2> QED BY <2>1, <2>2, <2>3
<1>4. /\ Load(wt, todo[t]) \in Nat /\ Load(wt, cs) \in Nat
      /\ Load(wt, Tail(todo[t])) \in Nat /\ wt[Head(todo[t])] \in Nat
  BY <1>1, <1>2, LoadType
<1>5. todo' = [todo EXCEPT ![t] = cs \o Tail(todo[t])]
  BY DEF GoOn
<1>6. Pending(wt, todo') = Pending(wt, todo) - Load(wt, todo[t])
                             + Load(wt, cs \o Tail(todo[t]))
  BY <1>1, <1>3, <1>5, PendingExcept
<1>7. Pending(wt, todo) \in Nat /\ Load(wt, todo[t]) <= Pending(wt, todo)
  BY <1>1, PendingType
<1> DEFINE p == Pending(wt, todo)
           q == Pending(wt, todo')
           a == wt[Head(todo[t])]
           b == Load(wt, Tail(todo[t]))
           x == Load(wt, cs)
<1>8. /\ p \in Nat /\ a \in Nat /\ b \in Nat /\ x \in Nat
      /\ a + b <= p /\ q = p - (a + b) + (x + b)
  BY <1>3, <1>4, <1>6, <1>7
<1>9. q = p - a + x /\ q \in Nat /\ a <= p
  <2> HIDE DEF p, q, a, b, x
  <2> QED BY <1>8
<1> QED BY <1>8, <1>9

LEMMA BeginPending ==
    ASSUME Stacks, NEW t \in Threads, todo[t] = <<>>, NEW cs \in Seq(CallSet),
           Begin(t, cs), NEW wt \in [CallSet -> Nat]
    PROVE  /\ Pending(wt, todo') = Pending(wt, todo) + Load(wt, cs)
           /\ Load(wt, cs) \in Nat
           /\ Pending(wt, todo) \in Nat /\ Pending(wt, todo') \in Nat
<1>1. todo \in [Threads -> Seq(CallSet)]
  BY DEF Stacks
<1>2. Load(wt, todo[t]) = 0 /\ Load(wt, cs) \in Nat
  BY LoadEmpty, LoadType
<1>3. todo' = [todo EXCEPT ![t] = cs]
  BY DEF Begin
<1>4. Pending(wt, todo') = Pending(wt, todo) - Load(wt, todo[t]) + Load(wt, cs)
  BY <1>1, <1>3, PendingExcept
<1>5. Pending(wt, todo) \in Nat
  BY <1>1, PendingType
<1> QED BY <1>2, <1>4, <1>5

-----------------------------------------------------------------------------
(* What the sequences of calls weigh that the actions put on a stack. *)

Weighs(cs, r, c, m) ==
    /\ cs \in Seq(CallSet)
    /\ Load(RespWt, cs) = r /\ Load(CloseWt, cs) = c /\ Load(MemWt, cs) = m

\* No worker is given the chunk.
Idle(cs) == \A v \in Workers : Load(OwnWt(v), cs) = 0

LEMMA LoadsNone == Weighs(<<>>, 0, 0, 0) /\ Idle(<<>>) /\ <<>> \in Seq(PlainCalls)
BY LoadEmpty, WeightTypes, EmptySeq DEF Weighs, Idle

LEMMA SingleLoads ==
    ASSUME NEW c \in PlainCalls
    PROVE  /\ Weighs(<<c>>, RespWt[c], CloseWt[c], MemWt[c])
           /\ (\A v \in Workers : OwnWt(v)[c] = 0) => Idle(<<c>>)
           /\ <<c>> \in Seq(PlainCalls)
<1>1. c \in CallSet
  BY CallNames
<1>2. <<c>> \in Seq(CallSet) /\ <<c>> \in Seq(PlainCalls)
  BY <1>1
<1>3. \A wt \in [CallSet -> Nat] : Load(wt, <<c>>) = wt[c]
  BY <1>1, LoadOne
<1> QED BY <1>2, <1>3, WeightTypes DEF Weighs, Idle

LEMMA PairLoads ==
    ASSUME NEW c \in PlainCalls, NEW d \in PlainCalls
    PROVE  /\ Weighs(<<c, d>>, RespWt[c] + RespWt[d], CloseWt[c] + CloseWt[d], MemWt[c] + MemWt[d])
           /\ (\A v \in Workers : OwnWt(v)[c] = 0 /\ OwnWt(v)[d] = 0) => Idle(<<c, d>>)
           /\ <<c, d>> \in Seq(PlainCalls)
<1>1. c \in CallSet /\ d \in CallSet
  BY CallNames
<1>2. <<c, d>> \in Seq(CallSet) /\ <<c, d>> \in Seq(PlainCalls)
  BY <1>1
<1>3. \A wt \in [CallSet -> Nat] : Load(wt, <<c, d>>) = wt[c] + wt[d]
  BY <1>1, LoadTwo
<1>4. Weighs(<<c, d>>, RespWt[c] + RespWt[d], CloseWt[c] + CloseWt[d], MemWt[c] + MemWt[d])
  BY <1>2, <1>3, WeightTypes DEF Weighs
<1>5. ASSUME NEW v \in Workers, OwnWt(v)[c] = 0, OwnWt(v)[d] = 0
      PROVE  Load(OwnWt(v), <<c, d>>) = 0
  <2>1. OwnWt(v) \in [CallSet -> Nat]
    BY WeightTypes
  <2>2. Load(OwnWt(v), <<c, d>>) = OwnWt(v)[c] + OwnWt(v)[d]
    BY <1>3, <2>1
  <2> QED BY <1>5, <2>2
<1> QED BY <1>2, <1>4, <1>5 DEF Idle

LEMMA TripleLoads ==
    ASSUME NEW c \in PlainCalls, NEW d \in PlainCalls, NEW e \in PlainCalls
    PROVE  /\ Weighs(<<c, d, e>>, RespWt[c] + RespWt[d] + RespWt[e],
                     CloseWt[c] + CloseWt[d] + CloseWt[e], MemWt[c] + MemWt[d] + MemWt[e])
           /\ (\A v \in Workers : OwnWt(v)[c] = 0 /\ OwnWt(v)[d] = 0 /\ OwnWt(v)[e] = 0)
                => Idle(<<c, d, e>>)
           /\ <<c, d, e>> \in Seq(PlainCalls)
<1>1. c \in CallSet /\ d \in CallSet /\ e \in CallSet
  BY CallNames
<1>2. <<c, d, e>> \in Seq(CallSet) /\ <<c, d, e>> \in Seq(PlainCalls)
  BY <1>1
<1>3. \A wt \in [CallSet -> Nat] : Load(wt, <<c, d, e>>) = wt[c] + wt[d] + wt[e]
  BY <1>1, LoadThree
<1>4. Weighs(<<c, d, e>>, RespWt[c] + RespWt[d] + RespWt[e],
             CloseWt[c] + CloseWt[d] + CloseWt[e], MemWt[c] + MemWt[d] + MemWt[e])
  BY <1>2, <1>3, WeightTypes DEF Weighs
<1>5. ASSUME NEW v \in Workers, OwnWt(v)[c] = 0, OwnWt(v)[d] = 0, OwnWt(v)[e] = 0
      PROVE  Load(OwnWt(v), <<c, d, e>>) = 0
  <2>1. OwnWt(v) \in [CallSet -> Nat]
    BY WeightTypes
  <2>2. Load(OwnWt(v), <<c, d, e>>) = OwnWt(v)[c] + OwnWt(v)[d] + OwnWt(v)[e]
    BY <1>3, <2>1
  <2> QED BY <1>5, <2>2
<1> QED BY <1>2, <1>4, <1>5 DEF Idle

LEMMA LoadsDrop == Weighs(<<DropCall>>, 1, 0, 0) /\ Idle(<<DropCall>>) /\ <<DropCall>> \in Seq(PlainCalls)
<1>1. DropCall \in PlainCalls
  BY CallNames
<1>2. /\ Weighs(<<DropCall>>,
                RespWt[DropCall],
                CloseWt[DropCall],
                MemWt[DropCall])
      /\ <<DropCall>> \in Seq(PlainCalls)
  BY <1>1, SingleLoads
<1>3. \A v \in Workers : OwnWt(v)[DropCall] = 0
  BY OwnWeights
<1>4. Idle(<<DropCall>>)
  BY <1>1, <1>3, SingleLoads
<1> QED BY <1>2, <1>4, RespWeights, CloseWeights, MemWeights DEF Weighs

LEMMA ConcatLoads ==
    ASSUME NEW a, NEW r1, NEW c1, NEW m1, Weighs(a, r1, c1, m1),
           NEW b, NEW r2, NEW c2, NEW m2, Weighs(b, r2, c2, m2)
    PROVE  /\ Weighs(a \o b, r1 + r2, c1 + c2, m1 + m2)
           /\ \A v \in Workers :
                Load(OwnWt(v), a \o b) = Load(OwnWt(v), a) + Load(OwnWt(v), b)
           /\ Idle(a) /\ Idle(b) => Idle(a \o b)
<1>1. a \in Seq(CallSet) /\ b \in Seq(CallSet)
  BY DEF Weighs
<1>2. a \o b \in Seq(CallSet)
  BY <1>1, ConcatProperties
<1>3. \A v \in Workers :
        Load(OwnWt(v), a \o b) = Load(OwnWt(v), a) + Load(OwnWt(v), b)
  BY <1>1, LoadConcat, WeightTypes
<1>4. Weighs(a \o b, r1 + r2, c1 + c2, m1 + m2)
  BY <1>1, <1>2, LoadConcat, WeightTypes DEF Weighs
<1> QED BY <1>3, <1>4 DEF Idle

LEMMA LoadsCleanUp ==
    Weighs(<<CleanUpCall>>, 0, 0, 0) /\ Idle(<<CleanUpCall>>) /\ <<CleanUpCall>> \in Seq(PlainCalls)
<1>1. CleanUpCall \in PlainCalls
  BY CallNames
<1>2. /\ Weighs(<<CleanUpCall>>,
                RespWt[CleanUpCall],
                CloseWt[CleanUpCall],
                MemWt[CleanUpCall])
      /\ <<CleanUpCall>> \in Seq(PlainCalls)
  BY <1>1, SingleLoads
<1>3. \A v \in Workers : OwnWt(v)[CleanUpCall] = 0
  BY OwnWeights
<1>4. Idle(<<CleanUpCall>>)
  BY <1>1, <1>3, SingleLoads
<1> QED BY <1>2, <1>4, RespWeights, CloseWeights, MemWeights DEF Weighs

LEMMA LoadsNotify ==
    Weighs(<<NotifyCall>>, 0, 0, 0) /\ Idle(<<NotifyCall>>) /\ <<NotifyCall>> \in Seq(PlainCalls)
<1>1. NotifyCall \in PlainCalls
  BY CallNames
<1>2. /\ Weighs(<<NotifyCall>>,
                RespWt[NotifyCall],
                CloseWt[NotifyCall],
                MemWt[NotifyCall])
      /\ <<NotifyCall>> \in Seq(PlainCalls)
  BY <1>1, SingleLoads
<1>3. \A v \in Workers : OwnWt(v)[NotifyCall] = 0
  BY OwnWeights
<1>4. Idle(<<NotifyCall>>)
  BY <1>1, <1>3, SingleLoads
<1> QED BY <1>2, <1>4, RespWeights, CloseWeights, MemWeights DEF Weighs

LEMMA LoadsClose ==
    Weighs(<<CloseCall>>, 0, 1, 0) /\ Idle(<<CloseCall>>) /\ <<CloseCall>> \in Seq(PlainCalls)
<1>1. CloseCall \in PlainCalls
  BY CallNames
<1>2. /\ Weighs(<<CloseCall>>,
                RespWt[CloseCall],
                CloseWt[CloseCall],
                MemWt[CloseCall])
      /\ <<CloseCall>> \in Seq(PlainCalls)
  BY <1>1, SingleLoads
<1>3. \A v \in Workers : OwnWt(v)[CloseCall] = 0
  BY OwnWeights
<1>4. Idle(<<CloseCall>>)
  BY <1>1, <1>3, SingleLoads
<1> QED BY <1>2, <1>4, RespWeights, CloseWeights, MemWeights DEF Weighs

LEMMA LoadsReturn ==
    ASSUME NEW n \in 0 .. NumPieces
    PROVE  Weighs(<<ReturnCall(n)>>, 0, 0, n) /\ Idle(<<ReturnCall(n)>>)
             /\ <<ReturnCall(n)>> \in Seq(PlainCalls)
<1>1. ReturnCall(n) \in PlainCalls
  BY CallNames
<1>2. /\ Weighs(<<ReturnCall(n)>>,
                RespWt[ReturnCall(n)],
                CloseWt[ReturnCall(n)],
                MemWt[ReturnCall(n)])
      /\ <<ReturnCall(n)>> \in Seq(PlainCalls)
  BY <1>1, SingleLoads
<1>3. \A v \in Workers : OwnWt(v)[ReturnCall(n)] = 0
  BY OwnWeights
<1>4. Idle(<<ReturnCall(n)>>)
  BY <1>1, <1>3, SingleLoads
<1> QED BY <1>2, <1>4, RespWeights, CloseWeights, MemWeights DEF Weighs

LEMMA LoadsDropQueued ==
    ASSUME NEW w \in Workers
    PROVE  Weighs(<<DropQueuedCall(w)>>, 0, 0, 0) /\ Idle(<<DropQueuedCall(w)>>)
             /\ <<DropQueuedCall(w)>> \in Seq(PlainCalls)
<1>1. DropQueuedCall(w) \in PlainCalls
  BY CallNames
<1>2. /\ Weighs(<<DropQueuedCall(w)>>,
                RespWt[DropQueuedCall(w)],
                CloseWt[DropQueuedCall(w)],
                MemWt[DropQueuedCall(w)])
      /\ <<DropQueuedCall(w)>> \in Seq(PlainCalls)
  BY <1>1, SingleLoads
<1>3. \A v \in Workers : OwnWt(v)[DropQueuedCall(w)] = 0
  BY OwnWeights
<1>4. Idle(<<DropQueuedCall(w)>>)
  BY <1>1, <1>3, SingleLoads
<1> QED BY <1>2, <1>4, RespWeights, CloseWeights, MemWeights DEF Weighs

LEMMA LoadsProcess ==
    ASSUME NEW w \in Workers
    PROVE  /\ Weighs(<<ProcessCall(w)>>, 1, 0, 0)
           /\ \A v \in Workers : Load(OwnWt(v), <<ProcessCall(w)>>) = SelfWt(v)[w]
<1>1. ProcessCall(w) \in CallSet
  BY CallNames
<1>2. <<ProcessCall(w)>> \in Seq(CallSet)
  BY <1>1
<1>3. \A wt \in [CallSet -> Nat] : Load(wt, <<ProcessCall(w)>>) = wt[ProcessCall(w)]
  BY <1>1, LoadOne
<1>4. Weighs(<<ProcessCall(w)>>, 1, 0, 0)
  BY <1>2, <1>3, WeightTypes, RespWeights, CloseWeights, MemWeights DEF Weighs
<1>5. ASSUME NEW v \in Workers
      PROVE  Load(OwnWt(v), <<ProcessCall(w)>>) = SelfWt(v)[w]
  BY <1>3, WeightTypes, OwnWeights
<1> QED BY <1>4, <1>5

LEMMA LoadsDropBoth ==
    ASSUME NEW w \in Workers
    PROVE  Weighs(<<DropCall, DropQueuedCall(w)>>, 1, 0, 0) /\ Idle(<<DropCall, DropQueuedCall(w)>>)
             /\ <<DropCall, DropQueuedCall(w)>> \in Seq(PlainCalls)
<1>1. DropCall \in PlainCalls /\ DropQueuedCall(w) \in PlainCalls
  BY CallNames
<1>2. /\ Weighs(<<DropCall, DropQueuedCall(w)>>,
                RespWt[DropCall] + RespWt[DropQueuedCall(w)],
                CloseWt[DropCall] + CloseWt[DropQueuedCall(w)],
                MemWt[DropCall] + MemWt[DropQueuedCall(w)])
      /\ <<DropCall, DropQueuedCall(w)>> \in Seq(PlainCalls)
  BY <1>1, PairLoads
<1>3. \A v \in Workers : OwnWt(v)[DropCall] = 0 /\ OwnWt(v)[DropQueuedCall(w)] = 0
  BY OwnWeights
<1>4. Idle(<<DropCall, DropQueuedCall(w)>>)
  BY <1>1, <1>3, PairLoads
<1> QED BY <1>2, <1>4, RespWeights, CloseWeights, MemWeights DEF Weighs

LEMMA LoadsSucceeded ==
    Weighs(<<ReturnCall(1), CleanUpCall>>, 0, 0, 1) /\ Idle(<<ReturnCall(1), CleanUpCall>>)
      /\ <<ReturnCall(1), CleanUpCall>> \in Seq(PlainCalls)
<1>0. 1 \in 0 .. NumPieces
  BY PiecesAssumption
<1>1. ReturnCall(1) \in PlainCalls /\ CleanUpCall \in PlainCalls
  BY <1>0, CallNames
<1>2. /\ Weighs(<<ReturnCall(1), CleanUpCall>>,
                RespWt[ReturnCall(1)] + RespWt[CleanUpCall],
                CloseWt[ReturnCall(1)] + CloseWt[CleanUpCall],
                MemWt[ReturnCall(1)] + MemWt[CleanUpCall])
      /\ <<ReturnCall(1), CleanUpCall>> \in Seq(PlainCalls)
  BY <1>1, PairLoads
<1>3. \A v \in Workers : OwnWt(v)[ReturnCall(1)] = 0 /\ OwnWt(v)[CleanUpCall] = 0
  BY <1>0, OwnWeights
<1>4. Idle(<<ReturnCall(1), CleanUpCall>>)
  BY <1>1, <1>3, PairLoads
<1> QED BY <1>0, <1>2, <1>4, RespWeights, CloseWeights, MemWeights DEF Weighs

LEMMA LoadsFailed ==
    ASSUME NEW w \in Workers
    PROVE  /\ Weighs(<<NotifyCall, CleanUpCall, DropQueuedCall(w)>>, 0, 0, 0)
           /\ Idle(<<NotifyCall, CleanUpCall, DropQueuedCall(w)>>)
           /\ <<NotifyCall, CleanUpCall, DropQueuedCall(w)>> \in Seq(PlainCalls)
<1>1. NotifyCall \in PlainCalls /\ CleanUpCall \in PlainCalls /\ DropQueuedCall(w) \in PlainCalls
  BY CallNames
<1>2. /\ Weighs(<<NotifyCall, CleanUpCall, DropQueuedCall(w)>>,
                RespWt[NotifyCall] + RespWt[CleanUpCall] + RespWt[DropQueuedCall(w)],
                CloseWt[NotifyCall] + CloseWt[CleanUpCall] + CloseWt[DropQueuedCall(w)],
                MemWt[NotifyCall] + MemWt[CleanUpCall] + MemWt[DropQueuedCall(w)])
      /\ <<NotifyCall, CleanUpCall, DropQueuedCall(w)>> \in Seq(PlainCalls)
  BY <1>1, TripleLoads
<1>3. \A v \in Workers : OwnWt(v)[NotifyCall] = 0 /\ OwnWt(v)[CleanUpCall] = 0 /\ OwnWt(v)[DropQueuedCall(w)] = 0
  BY OwnWeights
<1>4. Idle(<<NotifyCall, CleanUpCall, DropQueuedCall(w)>>)
  BY <1>1, <1>3, TripleLoads
<1> QED BY <1>2, <1>4, RespWeights, CloseWeights, MemWeights DEF Weighs

\* The chunk dropped n times.
LEMMA LoadsDrops ==
    ASSUME NEW n \in Nat
    PROVE  /\ Weighs([i \in 1 .. n |-> DropCall], n, 0, 0)
           /\ Idle([i \in 1 .. n |-> DropCall])
           /\ [i \in 1 .. n |-> DropCall] \in Seq(PlainCalls)
<1> DEFINE s == [i \in 1 .. n |-> DropCall]
<1>1. DropCall \in CallSet /\ DropCall \in PlainCalls
  BY CallNames
<1>2. /\ s \in Seq(CallSet) /\ s \in Seq(PlainCalls) /\ Len(s) = n
      /\ \A i \in 1 .. Len(s) : s[i] = DropCall
  BY <1>1
<1> HIDE DEF s
<1>3. Load(RespWt, s) = n
  <2>1. RespWt \in [CallSet -> Nat] /\ \A i \in 1 .. Len(s) : RespWt[s[i]] = 1
    BY <1>2, WeightTypes, RespWeights
  <2>2. Load(RespWt, s) = Len(s)
    BY <1>2, <2>1, LoadOnes
  <2> QED BY <1>2, <2>2
<1>4. Load(CloseWt, s) = 0 /\ Load(MemWt, s) = 0
  <2>1. Load(CloseWt, s) = 0
    BY <1>2, LoadZero, WeightTypes, CloseWeights
  <2>2. Load(MemWt, s) = 0
    BY <1>2, LoadZero, WeightTypes, MemWeights
  <2> QED BY <2>1, <2>2
<1>5. ASSUME NEW v \in Workers PROVE Load(OwnWt(v), s) = 0
  BY <1>2, LoadZero, WeightTypes, OwnWeights
<1>6. Weighs(s, n, 0, 0) /\ Idle(s) /\ s \in Seq(PlainCalls)
  BY <1>2, <1>3, <1>4, <1>5 DEF Weighs, Idle
<1> QED BY <1>6 DEF s

\* The chunk queued for a list of workers.
LEMMA LoadsQueue ==
    ASSUME NEW ws \in Seq(Workers)
    PROVE  /\ Weighs([i \in 1 .. Len(ws) |-> QueueCall(ws[i])], Len(ws), 0, 0)
           /\ \A v \in Workers :
                Load(OwnWt(v), [i \in 1 .. Len(ws) |-> QueueCall(ws[i])]) = Load(SelfWt(v), ws)
           /\ [i \in 1 .. Len(ws) |-> QueueCall(ws[i])] \in Seq(PlainCalls)
<1> DEFINE s == [i \in 1 .. Len(ws) |-> QueueCall(ws[i])]
<1>1. Len(ws) \in Nat /\ \A i \in 1 .. Len(ws) : ws[i] \in Workers
  BY LenProperties, ElementOfSeq
<1>2. \A i \in 1 .. Len(ws) : QueueCall(ws[i]) \in CallSet /\ QueueCall(ws[i]) \in PlainCalls
  BY <1>1, CallNames
<1>3. /\ s \in Seq(CallSet) /\ s \in Seq(PlainCalls) /\ Len(s) = Len(ws)
      /\ \A i \in 1 .. Len(s) : s[i] = QueueCall(ws[i]) /\ ws[i] \in Workers
  BY <1>1, <1>2
<1> HIDE DEF s
<1>4. \A i \in 1 .. Len(s) :
        /\ RespWt[s[i]] = 1 /\ CloseWt[s[i]] = 0 /\ MemWt[s[i]] = 0
        /\ \A v \in Workers : OwnWt(v)[s[i]] = SelfWt(v)[ws[i]]
  BY <1>3, RespWeights, CloseWeights, MemWeights, OwnWeights
<1>5. Load(RespWt, s) = Len(ws)
  <2>1. RespWt \in [CallSet -> Nat] /\ \A i \in 1 .. Len(s) : RespWt[s[i]] = 1
    BY <1>4, WeightTypes
  <2>2. Load(RespWt, s) = Len(s)
    BY <1>3, <2>1, LoadOnes
  <2> QED BY <1>3, <2>2
<1>6. Load(CloseWt, s) = 0 /\ Load(MemWt, s) = 0
  <2>1. CloseWt \in [CallSet -> Nat] /\ MemWt \in [CallSet -> Nat]
    BY WeightTypes
  <2>2. s \in Seq(CallSet) /\ \A i \in 1 .. Len(s) : CloseWt[s[i]] = 0 /\ MemWt[s[i]] = 0
    BY <1>3, <1>4
  <2>3. Load(CloseWt, s) = 0
    BY <2>1, <2>2, LoadZero
  <2>4. Load(MemWt, s) = 0
    BY <2>1, <2>2, LoadZero
  <2> QED BY <2>3, <2>4
<1>7. ASSUME NEW v \in Workers PROVE Load(OwnWt(v), s) = Load(SelfWt(v), ws)
  <2>1. [i \in 1 .. Len(s) |-> OwnWt(v)[s[i]]] = [i \in 1 .. Len(ws) |-> SelfWt(v)[ws[i]]]
    BY <1>3, <1>4
  <2> QED BY <2>1 DEF Load
<1>8. Weighs(s, Len(ws), 0, 0) /\ s \in Seq(PlainCalls)
  BY <1>3, <1>5, <1>6 DEF Weighs
<1> QED BY <1>7, <1>8 DEF s

-----------------------------------------------------------------------------
(* What a step does to the stacks and to what they weigh. *)

LEMMA GoOnCounts ==
    ASSUME Stacks, NEW t \in Threads, NEW name, At(t, name),
           NEW cs, NEW r, NEW c, NEW m, Weighs(cs, r, c, m), GoOn(t, cs)
    PROVE  /\ Pending(RespWt, todo') = Pending(RespWt, todo) + r -
                (IF name \in {"callQueueUploadChunk", "managedDropChunk",
                              "managedProcessUploadChunk"} THEN 1 ELSE 0)
           /\ Pending(CloseWt, todo') = Pending(CloseWt, todo) + c -
                (IF name = "Close" THEN 1 ELSE 0)
           /\ Pending(MemWt, todo') = Pending(MemWt, todo) + m -
                (IF name = "Return" THEN Arg(t) ELSE 0)
           /\ Pending(RespWt, todo) \in Nat /\ Pending(RespWt, todo') \in Nat
           /\ Pending(CloseWt, todo) \in Nat /\ Pending(CloseWt, todo') \in Nat
           /\ Pending(MemWt, todo) \in Nat /\ Pending(MemWt, todo') \in Nat
           /\ r \in Nat /\ c \in Nat /\ m \in Nat
           /\ name = "Close" => Pending(CloseWt, todo) >= 1
           /\ name = "Return" => Arg(t) \in Nat /\ Arg(t) <= Pending(MemWt, todo)
<1> DEFINE hd == Head(todo[t])
<1>1. /\ todo[t] # <<>>
      /\ RespWt[hd] = IF name \in {"callQueueUploadChunk", "managedDropChunk",
                                   "managedProcessUploadChunk"} THEN 1 ELSE 0
      /\ CloseWt[hd] = IF name = "Close" THEN 1 ELSE 0
      /\ MemWt[hd] = IF name = "Return" THEN Arg(t) ELSE 0
  BY AtWeights
<1>2. /\ cs \in Seq(CallSet)
      /\ Load(RespWt, cs) = r /\ Load(CloseWt, cs) = c /\ Load(MemWt, cs) = m
  BY DEF Weighs
<1>3. RespWt \in [CallSet -> Nat] /\ CloseWt \in [CallSet -> Nat] /\ MemWt \in [CallSet -> Nat]
  BY WeightTypes
<1>4. /\ Pending(RespWt, todo') = Pending(RespWt, todo) - RespWt[hd] + r
      /\ r \in Nat /\ Pending(RespWt, todo) \in Nat /\ Pending(RespWt, todo') \in Nat
      /\ RespWt[hd] \in Nat
  BY <1>1, <1>2, <1>3, GoOnPending
<1>5. /\ Pending(CloseWt, todo') = Pending(CloseWt, todo) - CloseWt[hd] + c
      /\ c \in Nat /\ Pending(CloseWt, todo) \in Nat /\ Pending(CloseWt, todo') \in Nat
      /\ CloseWt[hd] \in Nat /\ CloseWt[hd] <= Pending(CloseWt, todo)
  BY <1>1, <1>2, <1>3, GoOnPending
<1>6. /\ Pending(MemWt, todo') = Pending(MemWt, todo) - MemWt[hd] + m
      /\ m \in Nat /\ Pending(MemWt, todo) \in Nat /\ Pending(MemWt, todo') \in Nat
      /\ MemWt[hd] \in Nat /\ MemWt[hd] <= Pending(MemWt, todo)
  BY <1>1, <1>2, <1>3, GoOnPending
<1> HIDE DEF hd
<1>7. /\ Pending(RespWt, todo') = Pending(RespWt, todo) + r -
                (IF name \in {"callQueueUploadChunk", "managedDropChunk",
                              "managedProcessUploadChunk"} THEN 1 ELSE 0)
  BY <1>1, <1>4
<1>8. Pending(CloseWt, todo') = Pending(CloseWt, todo) + c - (IF name = "Close" THEN 1 ELSE 0)
  BY <1>1, <1>5
<1>9. Pending(MemWt, todo') = Pending(MemWt, todo) + m - (IF name = "Return" THEN Arg(t) ELSE 0)
  BY <1>1, <1>6
<1>10. /\ name = "Close" => Pending(CloseWt, todo) >= 1
       /\ name = "Return" => Arg(t) \in Nat /\ Arg(t) <= Pending(MemWt, todo)
  BY <1>1, <1>5, <1>6
<1> QED BY <1>4, <1>5, <1>6, <1>7, <1>8, <1>9, <1>10

LEMMA GoOnOwn ==
    ASSUME Stacks, NEW t \in Threads, NEW name, At(t, name),
           NEW cs \in Seq(CallSet), GoOn(t, cs), NEW v \in Workers
    PROVE  /\ Pending(OwnWt(v), todo') = Pending(OwnWt(v), todo) + Load(OwnWt(v), cs) -
                (IF name \in {"callQueueUploadChunk", "managedProcessUploadChunk"}
                 THEN SelfWt(v)[Arg(t)] ELSE 0)
           /\ Pending(OwnWt(v), todo) \in Nat /\ Pending(OwnWt(v), todo') \in Nat
           /\ Load(OwnWt(v), cs) \in Nat
           /\ Pending(OwnWt(v), todo') <= Pending(OwnWt(v), todo) + Load(OwnWt(v), cs)
<1> DEFINE hd == Head(todo[t])
<1>1. /\ todo[t] # <<>>
      /\ OwnWt(v)[hd] = IF name \in {"callQueueUploadChunk", "managedProcessUploadChunk"}
                        THEN SelfWt(v)[Arg(t)] ELSE 0
  BY AtWeights
<1>2. OwnWt(v) \in [CallSet -> Nat]
  BY WeightTypes
<1>3. /\ Pending(OwnWt(v), todo') = Pending(OwnWt(v), todo) - OwnWt(v)[hd] + Load(OwnWt(v), cs)
      /\ Pending(OwnWt(v), todo) \in Nat /\ Pending(OwnWt(v), todo') \in Nat
      /\ OwnWt(v)[hd] \in Nat /\ Load(OwnWt(v), cs) \in Nat
  BY <1>1, <1>2, GoOnPending
<1> HIDE DEF hd
<1> QED BY <1>1, <1>3

LEMMA GoOnOwned ==
    ASSUME Types, Stacks, OwnedOnce, NEW t \in Threads, NEW name, At(t, name),
           NEW cs \in Seq(CallSet), Idle(cs), GoOn(t, cs),
           UNCHANGED <<queued, workersStandby>>
    PROVE  OwnedOnce'
<1>1. SUFFICES ASSUME NEW v \in Workers
      PROVE  queued'[v] + Load(SelfWt(v), workersStandby') + Pending(OwnWt(v), todo') <= 1
  BY DEF OwnedOnce
<1>2. /\ Pending(OwnWt(v), todo') <= Pending(OwnWt(v), todo) + 0
      /\ Pending(OwnWt(v), todo) \in Nat /\ Pending(OwnWt(v), todo') \in Nat
  BY GoOnOwn DEF Idle
<1>3. queued[v] \in Nat /\ Load(SelfWt(v), workersStandby) \in Nat
  BY WeightTypes, LoadType DEF Types
<1>4. queued[v] + Load(SelfWt(v), workersStandby) + Pending(OwnWt(v), todo) <= 1
  BY DEF OwnedOnce
<1> QED BY <1>2, <1>3, <1>4

LEMMA GoOnStacks ==
    ASSUME Stacks, NEW t \in Threads, todo[t] # <<>>,
           NEW cs \in Seq(PlainCalls), GoOn(t, cs)
    PROVE  /\ Stacks'
           /\ todo'[t] = cs \o Tail(todo[t])
           /\ \A u \in Threads : u # t => todo'[u] = todo[u]
<1>1. todo \in [Threads -> Seq(CallSet)] /\ todo[t] \in Seq(CallSet)
  BY DEF Stacks
<1>2. /\ todo' = [todo EXCEPT ![t] = cs \o Tail(todo[t])]
      /\ todo'[t] = cs \o Tail(todo[t])
      /\ \A u \in Threads : u # t => todo'[u] = todo[u]
  BY <1>1 DEF GoOn
<1>3. cs \in Seq(CallSet) /\ PlainCalls \subseteq CallSet
  BY CallNames, SeqMonotonic
<1>4. cs \o Tail(todo[t]) \in Seq(CallSet)
  BY <1>1, <1>3, HeadTailProperties, ConcatProperties
<1>5. todo' \in [Threads -> Seq(CallSet)]
  BY <1>1, <1>2, <1>4
<1>6. cs \o Tail(todo[t]) \in Seq(PlainCalls)
  <2>1. CASE todo[t] \in Seq(PlainCalls)
    BY <2>1, HeadTailProperties, ConcatProperties
  <2>2. ASSUME NEW w \in Workers, todo[t] = <<ProcessCall(w)>>
        PROVE  cs \o Tail(todo[t]) \in Seq(PlainCalls)
    <3>1. Tail(todo[t]) = <<>>
      BY <2>2
    <3> QED BY <3>1, ConcatEmptySeq
  <2> QED BY <2>1, <2>2 DEF Stacks
<1>7. \A u \in Threads :
        \/ todo'[u] \in Seq(PlainCalls)
        \/ \E w \in Workers : u = Job(w) /\ todo'[u] = <<ProcessCall(w)>>
  BY <1>2, <1>6 DEF Stacks
<1> QED BY <1>2, <1>5, <1>7 DEF Stacks

\* A thread that is in a call uploads nothing, and a work loop is only then
\* in a call when it has ended.
LEMMA GoOnControl ==
    ASSUME Stacks, Control, NEW t \in Threads, todo[t] # <<>>,
           NEW cs \in Seq(PlainCalls), GoOn(t, cs), UNCHANGED <<uploading, terminated>>
    PROVE  Control'
<1>1. SUFFICES ASSUME NEW w \in Workers
      PROVE  /\ uploading'[w] # 0 => todo'[Job(w)] = <<>>
             /\ ~terminated'[w] => todo'[Loop(w)] = <<>>
  BY DEF Control
<1>2. \A u \in Threads : u # t => todo'[u] = todo[u]
  BY GoOnStacks
<1>3. /\ uploading[w] # 0 => todo[Job(w)] = <<>>
      /\ ~terminated[w] => todo[Loop(w)] = <<>>
      /\ Job(w) \in Threads /\ Loop(w) \in Threads
  BY ThreadNames DEF Control
<1> QED BY <1>2, <1>3

LEMMA BeginStacks ==
    ASSUME Stacks, NEW t \in Threads, NEW cs \in Seq(CallSet), Begin(t, cs),
           \/ cs \in Seq(PlainCalls)
           \/ \E w \in Workers : t = Job(w) /\ cs = <<ProcessCall(w)>>
    PROVE  /\ Stacks'
           /\ todo'[t] = cs
           /\ \A u \in Threads : u # t => todo'[u] = todo[u]
<1>1. todo \in [Threads -> Seq(CallSet)]
  BY DEF Stacks
<1>2. /\ todo' = [todo EXCEPT ![t] = cs]
      /\ todo'[t] = cs
      /\ \A u \in Threads : u # t => todo'[u] = todo[u]
  BY <1>1 DEF Begin
<1>3. todo' \in [Threads -> Seq(CallSet)]
  BY <1>1, <1>2
<1>4. \A u \in Threads :
        \/ todo'[u] \in Seq(PlainCalls)
        \/ \E w \in Workers : u = Job(w) /\ todo'[u] = <<ProcessCall(w)>>
  BY <1>2 DEF Stacks
<1> QED BY <1>2, <1>3, <1>4 DEF Stacks

LEMMA BeginCounts ==
    ASSUME Stacks, NEW t \in Threads, todo[t] = <<>>,
           NEW cs, NEW r, NEW c, NEW m, Weighs(cs, r, c, m), Begin(t, cs)
    PROVE  /\ Pending(RespWt, todo') = Pending(RespWt, todo) + r
           /\ Pending(CloseWt, todo') = Pending(CloseWt, todo) + c
           /\ Pending(MemWt, todo') = Pending(MemWt, todo) + m
           /\ Pending(RespWt, todo) \in Nat /\ Pending(CloseWt, todo) \in Nat
           /\ Pending(MemWt, todo) \in Nat
           /\ r \in Nat /\ c \in Nat /\ m \in Nat
           /\ \A v \in Workers :
                /\ Pending(OwnWt(v), todo') = Pending(OwnWt(v), todo) + Load(OwnWt(v), cs)
                /\ Pending(OwnWt(v), todo) \in Nat
<1>1. /\ cs \in Seq(CallSet)
      /\ Load(RespWt, cs) = r /\ Load(CloseWt, cs) = c /\ Load(MemWt, cs) = m
  BY DEF Weighs
<1>2. RespWt \in [CallSet -> Nat] /\ CloseWt \in [CallSet -> Nat] /\ MemWt \in [CallSet -> Nat]
  BY WeightTypes
<1>3. ASSUME NEW v \in Workers
      PROVE  /\ Pending(OwnWt(v), todo') = Pending(OwnWt(v), todo) + Load(OwnWt(v), cs)
             /\ Pending(OwnWt(v), todo) \in Nat
  <2>1. OwnWt(v) \in [CallSet -> Nat]
    BY WeightTypes
  <2> QED BY <1>1, <2>1, BeginPending
<1>4. /\ Pending(RespWt, todo') = Pending(RespWt, todo) + r
      /\ Pending(RespWt, todo) \in Nat /\ r \in Nat
  BY <1>1, <1>2, BeginPending
<1>5. /\ Pending(CloseWt, todo') = Pending(CloseWt, todo) + c
      /\ Pending(CloseWt, todo) \in Nat /\ c \in Nat
  BY <1>1, <1>2, BeginPending
<1>6. /\ Pending(MemWt, todo') = Pending(MemWt, todo) + m
      /\ Pending(MemWt, todo) \in Nat /\ m \in Nat
  BY <1>1, <1>2, BeginPending
<1> QED BY <1>3, <1>4, <1>5, <1>6

\* Before the distribution a thread can only be dropping an empty queue.
LEMMA EarlyCalls ==
    ASSUME Stacks, Before, stage # "distributed", NEW t \in Threads, NEW name, At(t, name)
    PROVE  name = "managedDropUploadChunks"
<1>1. /\ todo[t] \in Seq({DropQueuedCall(w) : w \in Workers})
      /\ todo[t] # <<>> /\ Head(todo[t])[1] = name
  BY DEF Before, At
<1>2. Head(todo[t]) \in {DropQueuedCall(w) : w \in Workers}
  BY <1>1, HeadTailProperties
<1> QED BY <1>1, <1>2 DEF DropQueuedCall

-----------------------------------------------------------------------------
(* Pieces. *)

LEMMA LeastNatural ==
    ASSUME NEW S \in SUBSET Nat, S # {}
    PROVE  \E x \in S : \A y \in S : x <= y
<1> DEFINE R == {ss \in Nat \X Nat : ss[1] < ss[2]}
<1>1. IsWellFoundedOn(R, Nat)
  BY NatLessThanWellFounded DEF OpToRel
<1>2. PICK x \in S : \A y \in S : ~(<<y, x>> \in R)
  <2> HIDE DEF R
  <2> QED BY <1>1, WFMin
<1>3. ASSUME NEW y \in S PROVE x <= y
  <2>1. x \in Nat /\ y \in Nat
    OBVIOUS
  <2>2. y < x => <<y, x>> \in R
    BY <2>1
  <2>3. ~(y < x)
    BY <1>2, <2>2
  <2> QED BY <2>1, <2>3
<1> QED BY <1>3

LEMMA PiecesFinite ==
    IsFiniteSet(Pieces) /\ Cardinality(Pieces) = NumPieces /\ NumPieces \in Nat
BY PiecesAssumption, UpTo DEF Pieces

LEMMA UnusedFacts ==
    ASSUME NEW usage \in [Pieces -> BOOLEAN]
    PROVE  /\ Unused(usage) \subseteq Pieces
           /\ IsFiniteSet(Unused(usage))
           /\ Cardinality(Unused(usage)) \in 0 .. NumPieces
           /\ Cardinality(Unused(usage)) = 0 <=> Unused(usage) = {}
           /\ Cardinality(Pieces \ Unused(usage)) = NumPieces - Cardinality(Unused(usage))
<1>1. Unused(usage) \in SUBSET Pieces
  BY DEF Unused
<1>2. /\ IsFiniteSet(Unused(usage))
      /\ Cardinality(Unused(usage)) <= NumPieces
  BY <1>1, PiecesFinite, FS_Subset
<1>3. Cardinality(Unused(usage)) \in Nat
  BY <1>2, FS_CardinalityType
<1>4. Cardinality(Unused(usage)) = 0 <=> Unused(usage) = {}
  BY <1>2, FS_EmptySet
<1>5. Pieces \cap Unused(usage) = Unused(usage)
  BY <1>1
<1>6. Cardinality(Pieces \ Unused(usage)) = NumPieces - Cardinality(Unused(usage))
  BY <1>5, PiecesFinite, FS_Difference
<1> QED BY <1>1, <1>2, <1>3, <1>4, <1>6, PiecesFinite

\* Taking a piece and giving one back.
LEMMA TakePiece ==
    ASSUME NEW usage \in [Pieces -> BOOLEAN], NEW i \in Unused(usage)
    PROVE  /\ [usage EXCEPT ![i] = TRUE] \in [Pieces -> BOOLEAN]
           /\ Unused([usage EXCEPT ![i] = TRUE]) = Unused(usage) \ {i}
           /\ Cardinality(Unused([usage EXCEPT ![i] = TRUE])) = Cardinality(Unused(usage)) - 1
<1>1. i \in Pieces
  BY DEF Unused
<1>2. /\ [usage EXCEPT ![i] = TRUE] \in [Pieces -> BOOLEAN]
      /\ Unused([usage EXCEPT ![i] = TRUE]) = Unused(usage) \ {i}
  BY <1>1 DEF Unused
<1>3. Cardinality(Unused(usage) \ {i}) = Cardinality(Unused(usage)) - 1
  BY UnusedFacts, FS_RemoveElement
<1> QED BY <1>2, <1>3

LEMMA GivePiece ==
    ASSUME NEW usage \in [Pieces -> BOOLEAN], NEW i \in Pieces, usage[i]
    PROVE  /\ [usage EXCEPT ![i] = FALSE] \in [Pieces -> BOOLEAN]
           /\ Unused([usage EXCEPT ![i] = FALSE]) = Unused(usage) \cup {i}
           /\ Cardinality(Unused([usage EXCEPT ![i] = FALSE])) = Cardinality(Unused(usage)) + 1
<1>1. i \notin Unused(usage)
  BY DEF Unused
<1>2. /\ [usage EXCEPT ![i] = FALSE] \in [Pieces -> BOOLEAN]
      /\ Unused([usage EXCEPT ![i] = FALSE]) = Unused(usage) \cup {i}
  BY DEF Unused
<1>3. Cardinality(Unused(usage) \cup {i}) = Cardinality(Unused(usage)) + 1
  BY <1>1, UnusedFacts, FS_AddElement
<1> QED BY <1>2, <1>3

\* A cleanup that gives pieces up keeps one for every remaining worker: the
\* first piece it gives up has that many unused ones before it.
LEMMA KeptFacts ==
    ASSUME Types
    PROVE  /\ Kept \subseteq Unused(pieceUsage)
           /\ IsFiniteSet(Kept) /\ Cardinality(Kept) \in Nat
           /\ workersRemaining = 0 => Kept = {}
           /\ Unused(pieceUsage) \ Kept # {} => Cardinality(Kept) >= workersRemaining
           /\ Cardinality(Unused(pieceUsage) \ Kept) =
                Cardinality(Unused(pieceUsage)) - Cardinality(Kept)
           /\ Cardinality(Unused(pieceUsage) \ Kept) \in 0 .. NumPieces
<1> DEFINE un == Unused(pieceUsage)
           less(i) == {j \in un : j < i}
<1>1. un \subseteq Pieces /\ IsFiniteSet(un) /\ Cardinality(un) \in 0 .. NumPieces
  BY UnusedFacts DEF Types
<1>2. Kept \in SUBSET un
  BY DEF Kept
<1>3. IsFiniteSet(Kept) /\ Cardinality(Kept) \in Nat
  <2> HIDE DEF un
  <2> QED BY <1>1, <1>2, FS_Subset, FS_CardinalityType
<1>4. Cardinality(Workers) \in Nat /\ workersRemaining \in Nat
  BY WorkersAssumption, FS_CardinalityType DEF Types
<1>5. \A i : IsFiniteSet(less(i)) /\ Cardinality(less(i)) \in Nat
  <2>1. ASSUME NEW i PROVE IsFiniteSet(less(i)) /\ Cardinality(less(i)) \in Nat
    <3>1. less(i) \in SUBSET un
      OBVIOUS
    <3> HIDE DEF un, less
    <3> QED BY <1>1, <3>1, FS_Subset, FS_CardinalityType
  <2> QED BY <2>1
<1>6. \A i \in un : i \in Kept <=> Cardinality(less(i)) < workersRemaining
  BY DEF Kept
<1>7. workersRemaining = 0 => Kept = {}
  <2> HIDE DEF less, un
  <2> QED BY <1>2, <1>4, <1>5, <1>6
<1>8. ASSUME un \ Kept # {} PROVE Cardinality(Kept) >= workersRemaining
  <2>1. un \ Kept \in SUBSET Nat
    BY <1>1, PiecesAssumption DEF Pieces
  <2>2. PICK i \in un \ Kept : \A j \in un \ Kept : i <= j
    <3> HIDE DEF un
    <3> QED BY <1>8, <2>1, LeastNatural
  <2>3. less(i) \in SUBSET Kept
    <3>1. ASSUME NEW j \in less(i) PROVE j \in Kept
      <4>1. j \in un /\ j < i /\ j \in Nat /\ i \in Nat
        BY <1>1, <2>2, PiecesAssumption DEF Pieces
      <4>2. ~(i <= j)
        BY <4>1
      <4> QED BY <2>2, <4>1, <4>2
    <3> QED BY <3>1
  <2>4. Cardinality(less(i)) <= Cardinality(Kept)
    <3> HIDE DEF less
    <3> QED BY <1>3, <2>3, FS_Subset
  <2>5. ~(Cardinality(less(i)) < workersRemaining)
    <3> HIDE DEF less, un
    <3> QED BY <1>6, <2>2
  <2> HIDE DEF less
  <2> QED BY <1>3, <1>4, <1>5, <2>4, <2>5
<1>9. /\ Cardinality(un \ Kept) = Cardinality(un) - Cardinality(Kept)
      /\ Cardinality(un \ Kept) \in Nat
  <2>1. un \cap Kept = Kept
    BY <1>2
  <2> HIDE DEF un
  <2> QED BY <1>1, <2>1, FS_Difference, FS_CardinalityType
<1>10. Cardinality(un \ Kept) \in 0 .. NumPieces
  <2> HIDE DEF un
  <2> QED BY <1>1, <1>3, <1>9, PiecesFinite
<1> QED BY <1>2, <1>3, <1>7, <1>8, <1>9, <1>10

-----------------------------------------------------------------------------
(* The invariant holds initially and every action preserves it. *)

LEMMA CountTypes ==
    ASSUME Types
    PROVE  /\ piecesCompleted \in Nat /\ piecesRegistered \in Nat
           /\ workersRemaining \in Nat /\ workersRemaining <= Cardinality(Workers)
           /\ Cardinality(Workers) \in Nat
           /\ NumPieces \in Nat /\ MinPieces \in Nat /\ NumPieces >= 1
           /\ MinPieces >= 1 /\ MinPieces <= NumPieces
           /\ Cardinality(Unused(pieceUsage)) \in Nat
           /\ Cardinality(Unused(pieceUsage)) <= NumPieces
           /\ Total(queued) \in Nat /\ Len(workersStandby) \in Nat
<1>1. Cardinality(Workers) \in Nat
  BY WorkersAssumption, FS_CardinalityType
<1>2. Total(queued) \in Nat
  BY WorkersAssumption, TotalType DEF Types
<1>3. Len(workersStandby) \in Nat
  BY LenProperties DEF Types
<1>4. Cardinality(Unused(pieceUsage)) \in 0 .. NumPieces
  BY UnusedFacts DEF Types
<1> QED BY <1>1, <1>2, <1>3, <1>4, PiecesAssumption DEF Types

LEMMA NoneRegistered ==
    ASSUME UploadsDistinct, piecesRegistered = 0
    PROVE  \A w \in Workers : uploading[w] = 0
<1> DEFINE active == {w \in Workers : uploading[w] # 0}
<1>1. active \in SUBSET Workers /\ Cardinality(active) = 0
  BY DEF UploadsDistinct
<1>2. IsFiniteSet(active)
  <2> HIDE DEF active
  <2> QED BY <1>1, WorkersAssumption, FS_Subset
<1>3. active = {}
  <2> HIDE DEF active
  <2> QED BY <1>1, <1>2, FS_EmptySet
<1> QED BY <1>3

LEMMA InitInv == Init => IndInv
<1> SUFFICES ASSUME Init PROVE IndInv
  OBVIOUS
<1>1. PICK held \in SUBSET Pieces :
        /\ held # Pieces
        /\ pieceUsage = [i \in Pieces |-> i \in held]
        /\ piecesCompleted = Cardinality(held)
  BY DEF Init
<1>2. /\ IsFiniteSet(held) /\ Cardinality(held) \in Nat
      /\ Cardinality(held) <= NumPieces
  BY PiecesFinite, FS_Subset, FS_CardinalityType
<1>3. pieceUsage \in [Pieces -> BOOLEAN] /\ Pieces \ Unused(pieceUsage) = held
  <2>1. pieceUsage \in [Pieces -> BOOLEAN]
    BY <1>1
  <2>2. \A i \in Pieces : pieceUsage[i] <=> i \in held
    BY <1>1
  <2>3. ASSUME NEW i PROVE i \in Pieces \ Unused(pieceUsage) <=> i \in held
    BY <2>2 DEF Unused
  <2> QED BY <2>1, <2>3
<1>4. Cardinality(Unused(pieceUsage)) = NumPieces - piecesCompleted
  <2>1. /\ Cardinality(held) = NumPieces - Cardinality(Unused(pieceUsage))
        /\ Cardinality(Unused(pieceUsage)) \in 0 .. NumPieces
    BY <1>3, UnusedFacts
  <2> QED BY <1>1, <2>1, PiecesFinite
<1>5. Cardinality(Workers) \in Nat
  BY WorkersAssumption, FS_CardinalityType
<1>6. Types
  <2>1. 0 \in 0 .. Cardinality(Workers) /\ 0 \in 0 .. NumPieces
    BY <1>5, PiecesAssumption
  <2>2. piecesCompleted \in Nat
    BY <1>1, <1>2
  <2>3. workersStandby \in Seq(Workers)
    BY EmptySeq DEF Init
  <2>4. /\ released \in BOOLEAN /\ failed \in BOOLEAN /\ available \in BOOLEAN
        /\ uploadComplete \in BOOLEAN /\ repairing \in BOOLEAN /\ freed \in BOOLEAN
        /\ terminated \in [Workers -> BOOLEAN]
    BY DEF Init
  <2>5. /\ piecesRegistered \in Nat /\ memoryReleased \in Nat /\ returned \in Nat
        /\ workersRemaining \in 0 .. Cardinality(Workers)
        /\ unusedHosts \subseteq Workers
        /\ stage \in {"fetching", "fetched", "distributed"}
        /\ queued \in [Workers -> Nat] /\ uploading \in [Workers -> 0 .. NumPieces]
    BY <2>1 DEF Init
  <2> QED BY <1>3, <2>2, <2>3, <2>4, <2>5 DEF Types
<1>7. Stacks
  BY EmptySeq DEF Init, Stacks
<1>8. Control
  BY ThreadNames DEF Init, Control
<1>9. Before
  BY ThreadNames, EmptySeq DEF Init, Before
<1>10. ASSUME NEW wt \in [CallSet -> Nat] PROVE Pending(wt, todo) = 0
  <2> DEFINE f == [t \in Threads |-> Load(wt, todo[t])]
  <2>1. f \in [Threads -> Nat]
    BY <1>7, PendingType DEF Stacks
  <2>2. \A t \in Threads : f[t] = 0
    BY LoadEmpty DEF Init
  <2>3. Total(f) = 0
    <3> HIDE DEF f
    <3> QED BY <2>1, <2>2, ThreadsFinite, TotalZero
  <2> QED BY <2>3 DEF Pending
<1>11. /\ Pending(RespWt, todo) = 0 /\ Pending(CloseWt, todo) = 0 /\ Pending(MemWt, todo) = 0
       /\ \A v \in Workers : Pending(OwnWt(v), todo) = 0
  BY <1>10, WeightTypes
<1>12. Total(queued) = 0
  BY WorkersAssumption, TotalZero DEF Init
<1>13. Responsible
  BY <1>11, <1>12, EmptySeq DEF Init, Responsible
<1>14. \A v \in Workers : Load(SelfWt(v), <<>>) = 0
  BY LoadEmpty, WeightTypes
<1>15. OwnedOnce
  BY <1>11, <1>14 DEF Init, OwnedOnce
<1>16. Surplus
  <2>1. piecesRegistered = 0 /\ Freed = 0
    BY <1>1, <1>2, <1>4, PiecesFinite DEF Init, Freed
  <2> QED BY <2>1 DEF Surplus
<1>17. MemoryCounted
  BY <1>11 DEF Init, MemoryCounted
<1>18. Closing
  BY <1>11 DEF Init, Closing
<1>19. UploadsDistinct
  <2>1. {w \in Workers : uploading[w] # 0} = {} /\ piecesRegistered = 0
    BY DEF Init
  <2>2. {uploading[w] : w \in {}} = {}
    OBVIOUS
  <2> QED BY <2>1, <2>2, FS_EmptySet DEF UploadsDistinct
<1>20. AvailableIsRecoverable
  BY DEF Init, AvailableIsRecoverable
<1> QED BY <1>6, <1>7, <1>8, <1>9, <1>13, <1>15, <1>16, <1>17, <1>18, <1>19, <1>20 DEF IndInv

\* A step that goes on with calls that neither close the chunk nor return
\* memory, touches no piece and adds no worker.
LEMMA QuietStep ==
    ASSUME IndInv, NEW t \in Threads, NEW name, At(t, name),
           name # "Close", name # "Return",
           NEW cs \in Seq(PlainCalls), NEW r, Weighs(cs, r, 0, 0), GoOn(t, cs),
           UNCHANGED <<pieceUsage, piecesCompleted, piecesRegistered,
                       memoryReleased, returned, released, failed, available,
                       uploadComplete, repairing, freed, stage, terminated, uploading>>,
           workersRemaining' \in Nat, workersRemaining' <= workersRemaining
    PROVE  /\ Stacks' /\ Control' /\ Surplus' /\ MemoryCounted' /\ Closing'
           /\ UploadsDistinct' /\ AvailableIsRecoverable'
<1>1. todo[t] # <<>>
  BY DEF At
<1>2. Stacks' /\ Control'
  BY <1>1, GoOnStacks, GoOnControl DEF IndInv
<1>3. /\ Pending(CloseWt, todo') = Pending(CloseWt, todo)
      /\ Pending(MemWt, todo') = Pending(MemWt, todo)
  <2>1. Stacks
    BY DEF IndInv
  <2>2. /\ Pending(CloseWt, todo') = Pending(CloseWt, todo) + 0 - (IF name = "Close" THEN 1 ELSE 0)
        /\ Pending(CloseWt, todo) \in Nat
    BY <2>1, GoOnCounts
  <2>3. /\ Pending(MemWt, todo') = Pending(MemWt, todo) + 0 - (IF name = "Return" THEN Arg(t) ELSE 0)
        /\ Pending(MemWt, todo) \in Nat
    BY <2>1, GoOnCounts
  <2> QED BY <2>2, <2>3
<1>4. Freed' = Freed /\ Cardinality(Unused(pieceUsage))' = Cardinality(Unused(pieceUsage))
  BY DEF Freed
<1>5. workersRemaining \in Nat /\ Cardinality(Unused(pieceUsage)) \in Nat
  BY CountTypes DEF IndInv
<1>6. Surplus'
  BY <1>4, <1>5 DEF IndInv, Surplus
<1>7. MemoryCounted'
  BY <1>3 DEF IndInv, MemoryCounted
<1>8. Closing'
  BY <1>3, <1>5 DEF IndInv, Closing
<1>9. UploadsDistinct' /\ AvailableIsRecoverable'
  BY DEF IndInv, UploadsDistinct, AvailableIsRecoverable
<1> QED BY <1>2, <1>6, <1>7, <1>8, <1>9

LEMMA DropChunkStep ==
    ASSUME IndInv, NEW t \in Threads, managedDropChunk(t)
    PROVE  IndInv'
<1> DEFINE name == "managedDropChunk"
           cs == <<CleanUpCall>>
<1>1. /\ At(t, name) /\ GoOn(t, cs)
      /\ workersRemaining' = workersRemaining - 1
      /\ UNCHANGED <<pieceUsage, piecesCompleted, piecesRegistered, workersStandby,
                     unusedHosts, memoryReleased, returned, released, failed,
                     available, uploadComplete, repairing, freed, stage, queued,
                     terminated, uploading>>
  BY DEF managedDropChunk, memoryVars, endVars, workerVars
<1>2. stage = "distributed"
  BY <1>1, EarlyCalls DEF IndInv
<1>3. Weighs(cs, 0, 0, 0) /\ Idle(cs) /\ cs \in Seq(PlainCalls) /\ cs \in Seq(CallSet)
  BY LoadsCleanUp DEF Weighs
<1> HIDE DEF cs
<1>4. /\ Pending(RespWt, todo') = Pending(RespWt, todo) - 1
      /\ Pending(RespWt, todo) \in Nat /\ Pending(RespWt, todo') \in Nat
  BY <1>1, <1>3, GoOnCounts DEF IndInv
<1>5. /\ workersRemaining = Total(queued) + Len(workersStandby) + Pending(RespWt, todo)
      /\ Total(queued) \in Nat /\ Len(workersStandby) \in Nat
      /\ workersRemaining \in Nat /\ workersRemaining <= Cardinality(Workers)
      /\ Cardinality(Workers) \in Nat
  BY CountTypes DEF IndInv, Responsible
<1>6. /\ workersRemaining' \in 0 .. Cardinality(Workers)
      /\ workersRemaining' \in Nat /\ workersRemaining' <= workersRemaining
  BY <1>1, <1>4, <1>5
<1>7. /\ Stacks' /\ Control' /\ Surplus' /\ MemoryCounted' /\ Closing'
      /\ UploadsDistinct' /\ AvailableIsRecoverable'
  BY <1>1, <1>3, <1>6, QuietStep
<1>8. Types'
  BY <1>1, <1>6 DEF IndInv, Types
<1>9. Responsible'
  BY <1>1, <1>4, <1>5 DEF Responsible
<1>10. OwnedOnce'
  BY <1>1, <1>3, GoOnOwned DEF IndInv
<1>11. Before'
  BY <1>1, <1>2 DEF Before
<1> QED BY <1>7, <1>8, <1>9, <1>10, <1>11 DEF IndInv

LEMMA QueueUploadStep ==
    ASSUME IndInv, NEW t \in Threads, callQueueUploadChunk(t)
    PROVE  IndInv'
<1> DEFINE name == "callQueueUploadChunk"
           w == Arg(t)
<1>1. /\ At(t, name)
      /\ UNCHANGED <<pieceUsage, piecesCompleted, piecesRegistered, workersRemaining,
                     workersStandby, unusedHosts, memoryReleased, returned, released,
                     failed, available, uploadComplete, repairing, freed, stage,
                     terminated, uploading>>
  BY DEF callQueueUploadChunk, chunkVars, memoryVars, endVars
<1>2. stage = "distributed"
  BY <1>1, EarlyCalls DEF IndInv
<1>3. w \in Workers
  BY <1>1, AtWeights, CallArguments DEF IndInv, Arg
<1>4. /\ workersRemaining = Total(queued) + Len(workersStandby) + Pending(RespWt, todo)
      /\ Total(queued) \in Nat /\ Len(workersStandby) \in Nat
      /\ workersRemaining \in Nat /\ workersRemaining <= Cardinality(Workers)
      /\ Cardinality(Workers) \in Nat
  BY CountTypes DEF IndInv, Responsible
<1>5. queued \in [Workers -> Nat]
  BY DEF IndInv, Types
<1>6. CASE queued' = [queued EXCEPT ![w] = @ + 1] /\ GoOn(t, <<>>)
  <2> DEFINE cs == <<>>
  <2>1. /\ Weighs(cs, 0, 0, 0) /\ Idle(cs) /\ cs \in Seq(PlainCalls) /\ cs \in Seq(CallSet)
        /\ GoOn(t, cs)
    BY <1>6, LoadsNone DEF Weighs
  <2> HIDE DEF cs
  <2>2. /\ Pending(RespWt, todo') = Pending(RespWt, todo) - 1
        /\ Pending(RespWt, todo) \in Nat
    BY <1>1, <2>1, GoOnCounts DEF IndInv
  <2>3. Total(queued') = Total(queued) + 1
    <3>1. queued[w] + 1 \in Nat
      BY <1>3, <1>5
    <3>2. Total([queued EXCEPT ![w] = queued[w] + 1]) = Total(queued) - queued[w] + (queued[w] + 1)
      BY <1>3, <1>5, <3>1, WorkersAssumption, TotalExcept
    <3> QED BY <1>3, <1>4, <1>5, <1>6, <3>2
  <2>4. /\ Stacks' /\ Control' /\ Surplus' /\ MemoryCounted' /\ Closing'
        /\ UploadsDistinct' /\ AvailableIsRecoverable'
    <3>1. workersRemaining' \in Nat /\ workersRemaining' <= workersRemaining
      BY <1>1, <1>4
    <3> QED BY <1>1, <2>1, <3>1, QuietStep
  <2>5. Types'
    BY <1>1, <1>3, <1>5, <1>6 DEF IndInv, Types
  <2>6. Responsible'
    BY <1>1, <1>4, <2>2, <2>3 DEF Responsible
  <2>7. OwnedOnce'
    <3>1. SUFFICES ASSUME NEW v \in Workers
          PROVE  queued'[v] + Load(SelfWt(v), workersStandby') + Pending(OwnWt(v), todo') <= 1
      BY DEF OwnedOnce
    <3>2. /\ Pending(OwnWt(v), todo') = Pending(OwnWt(v), todo) + 0 - SelfWt(v)[w]
          /\ Pending(OwnWt(v), todo) \in Nat
      BY <1>1, <2>1, GoOnOwn DEF IndInv, Idle
    <3>3. queued'[v] = queued[v] + SelfWt(v)[w] /\ SelfWt(v)[w] \in Nat
      BY <1>3, <1>5, <1>6 DEF SelfWt
    <3>4. Load(SelfWt(v), workersStandby) \in Nat /\ queued[v] \in Nat
      BY <1>5, WeightTypes, LoadType DEF IndInv, Types
    <3>5. queued[v] + Load(SelfWt(v), workersStandby) + Pending(OwnWt(v), todo) <= 1
      BY DEF IndInv, OwnedOnce
    <3>6. workersStandby' = workersStandby
      BY <1>1
    <3> QED BY <3>2, <3>3, <3>4, <3>5, <3>6
  <2>8. Before'
    BY <1>1, <1>2 DEF Before
  <2> QED BY <2>4, <2>5, <2>6, <2>7, <2>8 DEF IndInv
<1>7. CASE GoOn(t, <<DropCall>>) /\ UNCHANGED queued
  <2> DEFINE cs == <<DropCall>>
  <2>1. Weighs(cs, 1, 0, 0) /\ Idle(cs) /\ cs \in Seq(PlainCalls) /\ cs \in Seq(CallSet)
    BY LoadsDrop DEF Weighs
  <2>2. GoOn(t, cs)
    BY <1>7
  <2> HIDE DEF cs
  <2>3. /\ Pending(RespWt, todo') = Pending(RespWt, todo) + 1 - 1
        /\ Pending(RespWt, todo) \in Nat
    BY <1>1, <2>1, <2>2, GoOnCounts DEF IndInv
  <2>4. /\ Stacks' /\ Control' /\ Surplus' /\ MemoryCounted' /\ Closing'
        /\ UploadsDistinct' /\ AvailableIsRecoverable'
    BY <1>1, <1>4, <2>1, <2>2, QuietStep
  <2>5. Types'
    BY <1>1, <1>7 DEF IndInv, Types
  <2>6. Responsible'
    BY <1>1, <1>4, <1>7, <2>3 DEF Responsible
  <2>7. OwnedOnce'
    BY <1>1, <1>7, <2>1, <2>2, GoOnOwned DEF IndInv
  <2>8. Before'
    BY <1>1, <1>2 DEF Before
  <2> QED BY <2>4, <2>5, <2>6, <2>7, <2>8 DEF IndInv
<1> QED BY <1>6, <1>7 DEF callQueueUploadChunk

LEMMA DropUploadChunksStep ==
    ASSUME IndInv, NEW t \in Threads, managedDropUploadChunks(t)
    PROVE  IndInv'
<1> DEFINE name == "managedDropUploadChunks"
           w == Arg(t)
           cs == [i \in 1 .. queued[w] |-> DropCall]
<1>1. /\ At(t, name) /\ GoOn(t, cs)
      /\ queued' = [queued EXCEPT ![w] = 0]
      /\ UNCHANGED <<pieceUsage, piecesCompleted, piecesRegistered, workersRemaining,
                     workersStandby, unusedHosts, memoryReleased, returned, released,
                     failed, available, uploadComplete, repairing, freed, stage,
                     terminated, uploading>>
  BY DEF managedDropUploadChunks, chunkVars, memoryVars, endVars
<1>2. w \in Workers
  BY <1>1, AtWeights, CallArguments DEF IndInv, Arg
<1>3. queued \in [Workers -> Nat] /\ queued[w] \in Nat
  BY <1>2 DEF IndInv, Types
<1>4. /\ workersRemaining = Total(queued) + Len(workersStandby) + Pending(RespWt, todo)
      /\ Total(queued) \in Nat /\ Len(workersStandby) \in Nat
      /\ workersRemaining \in Nat /\ workersRemaining <= Cardinality(Workers)
  BY CountTypes DEF IndInv, Responsible
<1>5. Weighs(cs, queued[w], 0, 0) /\ Idle(cs) /\ cs \in Seq(PlainCalls) /\ cs \in Seq(CallSet)
  BY <1>3, LoadsDrops DEF Weighs
<1>6. stage # "distributed" => cs = <<>>
  BY <1>2 DEF IndInv, Before
<1> HIDE DEF cs
<1>7. /\ Pending(RespWt, todo') = Pending(RespWt, todo) + queued[w] - 0
      /\ Pending(RespWt, todo) \in Nat
  BY <1>1, <1>5, GoOnCounts DEF IndInv
<1>8. Total(queued') = Total(queued) - queued[w] + 0
  <2>1. PICK z \in Nat : z = 0
    OBVIOUS
  <2>2. Total([queued EXCEPT ![w] = z]) = Total(queued) - queued[w] + z
    <3> HIDE DEF w
    <3> QED BY <1>2, <1>3, WorkersAssumption, TotalExcept
  <2> QED BY <1>1, <2>1, <2>2
<1>9. /\ Stacks' /\ Control' /\ Surplus' /\ MemoryCounted' /\ Closing'
      /\ UploadsDistinct' /\ AvailableIsRecoverable'
  BY <1>1, <1>4, <1>5, QuietStep
<1>10. Types'
  BY <1>1, <1>2, <1>3 DEF IndInv, Types
<1>11. Responsible'
  BY <1>1, <1>3, <1>4, <1>7, <1>8 DEF Responsible
<1>12. OwnedOnce'
  <2>1. SUFFICES ASSUME NEW v \in Workers
        PROVE  queued'[v] + Load(SelfWt(v), workersStandby') + Pending(OwnWt(v), todo') <= 1
    BY DEF OwnedOnce
  <2>2. /\ Pending(OwnWt(v), todo') <= Pending(OwnWt(v), todo) + 0
        /\ Pending(OwnWt(v), todo) \in Nat /\ Pending(OwnWt(v), todo') \in Nat
    BY <1>1, <1>5, GoOnOwn DEF IndInv, Idle
  <2>3. queued'[v] <= queued[v] /\ queued'[v] \in Nat /\ queued[v] \in Nat
    BY <1>1, <1>2, <1>3
  <2>4. Load(SelfWt(v), workersStandby) \in Nat
    BY WeightTypes, LoadType DEF IndInv, Types
  <2>5. queued[v] + Load(SelfWt(v), workersStandby) + Pending(OwnWt(v), todo) <= 1
    BY DEF IndInv, OwnedOnce
  <2>6. workersStandby' = workersStandby
    BY <1>1
  <2> QED BY <2>2, <2>3, <2>4, <2>5, <2>6
<1>13. Before'
  <2> SUFFICES ASSUME stage # "distributed" PROVE Before'
    BY <1>1 DEF Before
  <2> DEFINE D == {DropQueuedCall(v) : v \in Workers}
  <2>1. \A u \in Threads : todo[u] \in Seq(D)
    BY DEF IndInv, Before
  <2>2. todo[t] # <<>> /\ cs = <<>>
    BY <1>1, <1>6 DEF At
  <2>3. /\ todo'[t] = cs \o Tail(todo[t])
        /\ \A u \in Threads : u # t => todo'[u] = todo[u]
    BY <1>1, <1>5, <2>2, GoOnStacks DEF IndInv
  <2>4. Tail(todo[t]) \in Seq(D)
    <3> HIDE DEF D
    <3> QED BY <2>1, <2>2, HeadTailProperties
  <2>5. todo'[t] \in Seq(D)
    <3> HIDE DEF D
    <3> QED BY <2>2, <2>3, <2>4, ConcatEmptySeq
  <2>6. \A u \in Threads : todo'[u] \in Seq(D)
    BY <2>1, <2>3, <2>5
  <2>7. todo'[Distributor] = <<>>
    <3>1. todo[Distributor] = <<>> /\ Distributor \in Threads
      BY ThreadNames DEF IndInv, Before
    <3> QED BY <2>2, <2>3, <3>1
  <2>8. \A v \in Workers : queued'[v] = 0 /\ uploading'[v] = 0
    BY <1>1, <1>2, <1>3 DEF IndInv, Before
  <2> QED BY <1>1, <2>6, <2>7, <2>8 DEF IndInv, Before
<1> QED BY <1>9, <1>10, <1>11, <1>12, <1>13 DEF IndInv

LEMMA NotifyStep ==
    ASSUME IndInv, NEW t \in Threads, managedNotifyStandbyWorkers(t)
    PROVE  IndInv'
<1> DEFINE name == "managedNotifyStandbyWorkers"
           cs == [i \in 1 .. Len(workersStandby) |-> QueueCall(workersStandby[i])]
<1>1. /\ At(t, name) /\ GoOn(t, cs)
      /\ workersStandby' = <<>>
      /\ UNCHANGED <<pieceUsage, piecesCompleted, piecesRegistered, workersRemaining,
                     unusedHosts, memoryReleased, returned, released,
                     failed, available, uploadComplete, repairing, freed, stage,
                     queued, terminated, uploading>>
  BY DEF managedNotifyStandbyWorkers, memoryVars, endVars, workerVars
<1>2. stage = "distributed"
  BY <1>1, EarlyCalls DEF IndInv
<1>3. workersStandby \in Seq(Workers)
  BY DEF IndInv, Types
<1>4. /\ workersRemaining = Total(queued) + Len(workersStandby) + Pending(RespWt, todo)
      /\ Total(queued) \in Nat /\ Len(workersStandby) \in Nat
      /\ workersRemaining \in Nat
  BY CountTypes DEF IndInv, Responsible
<1>5. /\ Weighs(cs, Len(workersStandby), 0, 0) /\ cs \in Seq(PlainCalls) /\ cs \in Seq(CallSet)
      /\ \A v \in Workers : Load(OwnWt(v), cs) = Load(SelfWt(v), workersStandby)
  BY <1>3, LoadsQueue DEF Weighs
<1> HIDE DEF cs
<1>6. /\ Pending(RespWt, todo') = Pending(RespWt, todo) + Len(workersStandby) - 0
      /\ Pending(RespWt, todo) \in Nat
  BY <1>1, <1>5, GoOnCounts DEF IndInv
<1>7. /\ Stacks' /\ Control' /\ Surplus' /\ MemoryCounted' /\ Closing'
      /\ UploadsDistinct' /\ AvailableIsRecoverable'
  BY <1>1, <1>4, <1>5, QuietStep
<1>8. Types'
  BY <1>1, EmptySeq DEF IndInv, Types
<1>9. Responsible'
  <2>1. Len(workersStandby') = 0
    BY <1>1, EmptySeq
  <2> QED BY <1>1, <1>4, <1>6, <2>1 DEF Responsible
<1>10. OwnedOnce'
  <2>1. SUFFICES ASSUME NEW v \in Workers
        PROVE  queued'[v] + Load(SelfWt(v), workersStandby') + Pending(OwnWt(v), todo') <= 1
    BY DEF OwnedOnce
  <2>2. /\ Pending(OwnWt(v), todo') <= Pending(OwnWt(v), todo) + Load(SelfWt(v), workersStandby)
        /\ Pending(OwnWt(v), todo) \in Nat /\ Pending(OwnWt(v), todo') \in Nat
    BY <1>1, <1>5, GoOnOwn DEF IndInv
  <2>3. Load(SelfWt(v), workersStandby') = 0
    BY <1>1, WeightTypes, LoadEmpty
  <2>4. Load(SelfWt(v), workersStandby) \in Nat /\ queued[v] \in Nat /\ queued'[v] = queued[v]
    BY <1>1, WeightTypes, LoadType DEF IndInv, Types
  <2>5. queued[v] + Load(SelfWt(v), workersStandby) + Pending(OwnWt(v), todo) <= 1
    BY DEF IndInv, OwnedOnce
  <2> QED BY <2>2, <2>3, <2>4, <2>5
<1>11. Before'
  BY <1>1, <1>2 DEF Before
<1> QED BY <1>7, <1>8, <1>9, <1>10, <1>11 DEF IndInv

\* A worker that looks at the chunk does nothing else, and is responsible.
LEMMA ProcessAlone ==
    ASSUME Stacks, NEW w \in Workers, At(Job(w), "managedProcessUploadChunk")
    PROVE  /\ Job(w) \in Threads
           /\ todo[Job(w)] = <<ProcessCall(w)>>
           /\ todo[Job(w)] # <<>> /\ Tail(todo[Job(w)]) = <<>>
           /\ Arg(Job(w)) = w
           /\ Pending(RespWt, todo) \in Nat /\ Pending(RespWt, todo) >= 1
<1>1. Job(w) \in Threads
  BY ThreadNames
<1>2. ~(todo[Job(w)] \in Seq(PlainCalls))
  <2> SUFFICES ASSUME todo[Job(w)] \in Seq(PlainCalls) PROVE FALSE
    OBVIOUS
  <2>1. Head(todo[Job(w)]) \in PlainCalls
    BY HeadTailProperties DEF At
  <2> QED BY <2>1, PlainNotProcess DEF At
<1>3. todo[Job(w)] = <<ProcessCall(w)>>
  <2>1. PICK v \in Workers : Job(w) = Job(v) /\ todo[Job(w)] = <<ProcessCall(v)>>
    BY <1>1, <1>2 DEF Stacks
  <2>2. v = w
    BY <2>1, ThreadNames
  <2> QED BY <2>1, <2>2
<1>4. Arg(Job(w)) = w
  BY <1>3 DEF Arg, ProcessCall
<1>5. todo \in [Threads -> Seq(CallSet)] /\ RespWt \in [CallSet -> Nat]
  BY WeightTypes DEF Stacks
<1>6. Load(RespWt, todo[Job(w)]) = 1
  BY <1>3, LoadsProcess DEF Weighs
<1>7. Pending(RespWt, todo) \in Nat /\ Load(RespWt, todo[Job(w)]) <= Pending(RespWt, todo)
  BY <1>1, <1>5, PendingType
<1>8. todo[Job(w)] # <<>> /\ Tail(todo[Job(w)]) = <<>>
  BY <1>3
<1> QED BY <1>1, <1>3, <1>4, <1>6, <1>7, <1>8

LEMMA ProcessDropsStep ==
    ASSUME IndInv, NEW w \in Workers, ProcessDrops(w)
    PROVE  IndInv'
<1> DEFINE name == "managedProcessUploadChunk"
           t == Job(w)
<1>1. /\ At(t, name)
      /\ UNCHANGED <<pieceUsage, piecesCompleted, piecesRegistered, workersRemaining,
                     workersStandby, unusedHosts, memoryReleased, returned, released,
                     failed, available, uploadComplete, repairing, freed, stage,
                     queued, terminated, uploading>>
  BY DEF ProcessDrops, chunkVars, memoryVars, endVars, workerVars
<1>2. t \in Threads
  BY ThreadNames
<1>3. PICK cs : GoOn(t, cs) /\ cs \in {<<DropCall>>, <<DropCall, DropQueuedCall(w)>>}
  BY DEF ProcessDrops
<1>4. Weighs(cs, 1, 0, 0) /\ Idle(cs) /\ cs \in Seq(PlainCalls) /\ cs \in Seq(CallSet)
  BY <1>3, LoadsDrop, LoadsDropBoth DEF Weighs
<1> HIDE DEF t
<1>5. stage = "distributed"
  BY <1>1, <1>2, EarlyCalls DEF IndInv
<1>6. /\ Pending(RespWt, todo') = Pending(RespWt, todo) + 1 - 1
      /\ Pending(RespWt, todo) \in Nat
  BY <1>1, <1>2, <1>3, <1>4, GoOnCounts DEF IndInv
<1>7. workersRemaining' \in Nat /\ workersRemaining' <= workersRemaining
  BY <1>1, CountTypes DEF IndInv
<1>8. /\ Stacks' /\ Control' /\ Surplus' /\ MemoryCounted' /\ Closing'
      /\ UploadsDistinct' /\ AvailableIsRecoverable'
  BY <1>1, <1>2, <1>3, <1>4, <1>7, QuietStep
<1>9. Types'
  BY <1>1 DEF IndInv, Types
<1>10. Responsible'
  BY <1>1, <1>6 DEF IndInv, Responsible
<1>11. OwnedOnce'
  BY <1>1, <1>2, <1>3, <1>4, GoOnOwned DEF IndInv
<1>12. Before'
  BY <1>1, <1>5 DEF Before
<1> QED BY <1>8, <1>9, <1>10, <1>11, <1>12 DEF IndInv

LEMMA StandsByStep ==
    ASSUME IndInv, NEW w \in Workers, ProcessStandsBy(w)
    PROVE  IndInv'
<1> DEFINE name == "managedProcessUploadChunk"
           t == Job(w)
           cs == <<CleanUpCall>>
<1>1. /\ At(t, name) /\ GoOn(t, cs)
      /\ workersStandby' = Append(workersStandby, w)
      /\ UNCHANGED <<pieceUsage, piecesCompleted, piecesRegistered, workersRemaining,
                     unusedHosts, memoryReleased, returned, released,
                     failed, available, uploadComplete, repairing, freed, stage,
                     queued, terminated, uploading>>
  BY DEF ProcessStandsBy, memoryVars, endVars, workerVars
<1>2. t \in Threads /\ Arg(t) = w
  BY <1>1, ProcessAlone DEF IndInv
<1>3. Weighs(cs, 0, 0, 0) /\ Idle(cs) /\ cs \in Seq(PlainCalls) /\ cs \in Seq(CallSet)
  BY LoadsCleanUp DEF Weighs
<1> HIDE DEF t, cs
<1>4. stage = "distributed"
  BY <1>1, <1>2, EarlyCalls DEF IndInv
<1>5. /\ Pending(RespWt, todo') = Pending(RespWt, todo) + 0 - 1
      /\ Pending(RespWt, todo) \in Nat
  BY <1>1, <1>2, <1>3, GoOnCounts DEF IndInv
<1>6. /\ workersRemaining' \in Nat /\ workersRemaining' <= workersRemaining
      /\ Total(queued) \in Nat /\ Len(workersStandby) \in Nat
  BY <1>1, CountTypes DEF IndInv
<1>7. /\ Stacks' /\ Control' /\ Surplus' /\ MemoryCounted' /\ Closing'
      /\ UploadsDistinct' /\ AvailableIsRecoverable'
  BY <1>1, <1>2, <1>3, <1>6, QuietStep
<1>8. /\ workersStandby \in Seq(Workers) /\ workersStandby' \in Seq(Workers)
      /\ Len(workersStandby') = Len(workersStandby) + 1
      /\ workersStandby' = workersStandby \o <<w>>
  BY <1>1, AppendProperties, AppendIsConcat DEF IndInv, Types
<1>9. Types'
  BY <1>1, <1>8 DEF IndInv, Types
<1>10. Responsible'
  BY <1>1, <1>5, <1>6, <1>8 DEF IndInv, Responsible
<1>11. OwnedOnce'
  <2>1. SUFFICES ASSUME NEW v \in Workers
        PROVE  queued'[v] + Load(SelfWt(v), workersStandby') + Pending(OwnWt(v), todo') <= 1
    BY DEF OwnedOnce
  <2>2. /\ Pending(OwnWt(v), todo') = Pending(OwnWt(v), todo) + 0 - SelfWt(v)[w]
        /\ Pending(OwnWt(v), todo) \in Nat
    BY <1>1, <1>2, <1>3, GoOnOwn DEF IndInv, Idle
  <2>3. SelfWt(v) \in [Workers -> Nat] /\ SelfWt(v)[w] \in Nat /\ <<w>> \in Seq(Workers)
    BY WeightTypes
  <2>4. Load(SelfWt(v), workersStandby') = Load(SelfWt(v), workersStandby) + SelfWt(v)[w]
    <3>1. Load(SelfWt(v), workersStandby \o <<w>>) =
            Load(SelfWt(v), workersStandby) + Load(SelfWt(v), <<w>>)
      BY <1>8, <2>3, LoadConcat
    <3>2. Load(SelfWt(v), <<w>>) = SelfWt(v)[w]
      BY <2>3, LoadOne
    <3> QED BY <1>8, <3>1, <3>2
  <2>5. Load(SelfWt(v), workersStandby) \in Nat /\ queued[v] \in Nat /\ queued'[v] = queued[v]
    BY <1>1, <1>8, <2>3, LoadType DEF IndInv, Types
  <2>6. queued[v] + Load(SelfWt(v), workersStandby) + Pending(OwnWt(v), todo) <= 1
    BY DEF IndInv, OwnedOnce
  <2> QED BY <2>2, <2>3, <2>4, <2>5, <2>6
<1>12. Before'
  BY <1>1, <1>4 DEF Before
<1> QED BY <1>7, <1>9, <1>10, <1>11, <1>12 DEF IndInv

LEMMA CloseStep ==
    ASSUME IndInv, NEW t \in Threads, Close(t)
    PROVE  IndInv'
<1> DEFINE name == "Close"
           cs == <<>>
<1>1. /\ At(t, name) /\ GoOn(t, cs)
      /\ repairing' = FALSE /\ freed' = TRUE
      /\ UNCHANGED <<pieceUsage, piecesCompleted, piecesRegistered, workersRemaining,
                     workersStandby, unusedHosts, memoryReleased, returned, released,
                     failed, available, uploadComplete, stage, queued, terminated, uploading>>
  BY DEF Close, chunkVars, memoryVars, workerVars
<1>2. Weighs(cs, 0, 0, 0) /\ Idle(cs) /\ cs \in Seq(PlainCalls) /\ cs \in Seq(CallSet)
  BY LoadsNone DEF Weighs
<1> HIDE DEF cs
<1>3. stage = "distributed"
  BY <1>1, EarlyCalls DEF IndInv
<1>4. todo[t] # <<>>
  BY <1>1 DEF At
<1>5. Stacks' /\ Control'
  BY <1>1, <1>2, <1>4, GoOnStacks, GoOnControl DEF IndInv
<1>6. /\ Pending(RespWt, todo') = Pending(RespWt, todo) + 0 - 0
      /\ Pending(CloseWt, todo') = Pending(CloseWt, todo) + 0 - 1
      /\ Pending(MemWt, todo') = Pending(MemWt, todo) + 0 - 0
      /\ Pending(RespWt, todo) \in Nat /\ Pending(CloseWt, todo) \in Nat
      /\ Pending(MemWt, todo) \in Nat /\ Pending(CloseWt, todo) >= 1
  BY <1>1, <1>2, GoOnCounts DEF IndInv
<1>7. Pending(CloseWt, todo) + (IF repairing THEN 0 ELSE 1) = (IF released THEN 1 ELSE 0)
  BY DEF IndInv, Closing
<1>8. released /\ Pending(CloseWt, todo') = 0
  BY <1>6, <1>7
<1>9. Types'
  BY <1>1 DEF IndInv, Types
<1>10. Before'
  BY <1>1, <1>3 DEF Before
<1>11. Responsible'
  BY <1>1, <1>6 DEF IndInv, Responsible
<1>12. OwnedOnce'
  BY <1>1, <1>2, GoOnOwned DEF IndInv
<1>13. Surplus' /\ UploadsDistinct' /\ AvailableIsRecoverable'
  BY <1>1 DEF IndInv, Surplus, Freed, UploadsDistinct, AvailableIsRecoverable
<1>14. MemoryCounted'
  BY <1>1, <1>6 DEF IndInv, MemoryCounted
<1>15. Closing'
  BY <1>1, <1>8 DEF IndInv, Closing
<1> QED BY <1>5, <1>9, <1>10, <1>11, <1>12, <1>13, <1>14, <1>15 DEF IndInv

LEMMA ReturnStep ==
    ASSUME IndInv, NEW t \in Threads, Return(t)
    PROVE  IndInv'
<1> DEFINE name == "Return"
           cs == <<>>
<1>1. /\ At(t, name) /\ GoOn(t, cs)
      /\ returned' = returned + Arg(t)
      /\ UNCHANGED <<pieceUsage, piecesCompleted, piecesRegistered, workersRemaining,
                     workersStandby, unusedHosts, memoryReleased, released,
                     failed, available, uploadComplete, repairing, freed, stage,
                     queued, terminated, uploading>>
  BY DEF Return, chunkVars, endVars, workerVars
<1>2. Weighs(cs, 0, 0, 0) /\ Idle(cs) /\ cs \in Seq(PlainCalls) /\ cs \in Seq(CallSet)
  BY LoadsNone DEF Weighs
<1> HIDE DEF cs
<1>3. stage = "distributed"
  BY <1>1, EarlyCalls DEF IndInv
<1>4. todo[t] # <<>>
  BY <1>1 DEF At
<1>5. Stacks' /\ Control'
  BY <1>1, <1>2, <1>4, GoOnStacks, GoOnControl DEF IndInv
<1>6. /\ Pending(RespWt, todo') = Pending(RespWt, todo) + 0 - 0
      /\ Pending(CloseWt, todo') = Pending(CloseWt, todo) + 0 - 0
      /\ Pending(MemWt, todo') = Pending(MemWt, todo) + 0 - Arg(t)
      /\ Pending(RespWt, todo) \in Nat /\ Pending(CloseWt, todo) \in Nat
      /\ Pending(MemWt, todo) \in Nat /\ Arg(t) \in Nat
  <2>1. Stacks
    BY DEF IndInv
  <2>2. PICK nm : nm = name
    OBVIOUS
  <2> HIDE DEF name
  <2>3. /\ Pending(RespWt, todo') = Pending(RespWt, todo) + 0 -
             (IF nm \in {"callQueueUploadChunk", "managedDropChunk",
                         "managedProcessUploadChunk"} THEN 1 ELSE 0)
        /\ Pending(CloseWt, todo') = Pending(CloseWt, todo) + 0 -
             (IF nm = "Close" THEN 1 ELSE 0)
        /\ Pending(MemWt, todo') = Pending(MemWt, todo) + 0 -
             (IF nm = "Return" THEN Arg(t) ELSE 0)
        /\ Pending(RespWt, todo) \in Nat /\ Pending(CloseWt, todo) \in Nat
        /\ Pending(MemWt, todo) \in Nat
        /\ nm = "Return" => Arg(t) \in Nat
    BY <1>1, <1>2, <2>1, <2>2, GoOnCounts
  <2> QED BY <2>2, <2>3 DEF name
<1>7. returned \in Nat
  BY DEF IndInv, Types
<1>8. Types'
  <2>1. returned' \in Nat
    BY <1>1, <1>6, <1>7
  <2> QED BY <1>1, <2>1 DEF IndInv, Types
<1>9. Before'
  BY <1>1, <1>3 DEF Before
<1>10. Responsible'
  BY <1>1, <1>6 DEF IndInv, Responsible
<1>11. OwnedOnce'
  BY <1>1, <1>2, GoOnOwned DEF IndInv
<1>12. Surplus' /\ UploadsDistinct' /\ AvailableIsRecoverable'
  BY <1>1 DEF IndInv, Surplus, Freed, UploadsDistinct, AvailableIsRecoverable
<1>13. MemoryCounted'
  BY <1>1, <1>6, <1>7 DEF IndInv, MemoryCounted
<1>14. Closing'
  BY <1>1, <1>6 DEF IndInv, Closing
<1> QED BY <1>5, <1>8, <1>9, <1>10, <1>11, <1>12, <1>13, <1>14 DEF IndInv

LEMMA KillStep ==
    ASSUME IndInv, NEW w \in Workers, managedKillUploading(w)
    PROVE  IndInv'
<1> DEFINE t == Loop(w)
           cs == <<DropQueuedCall(w)>>
<1>1. /\ ~terminated[w] /\ Begin(t, cs)
      /\ terminated' = [terminated EXCEPT ![w] = TRUE]
      /\ UNCHANGED <<pieceUsage, piecesCompleted, piecesRegistered, workersRemaining,
                     workersStandby, unusedHosts, memoryReleased, returned, released,
                     failed, available, uploadComplete, repairing, freed, stage,
                     queued, uploading>>
  BY DEF managedKillUploading, chunkVars, memoryVars, endVars
<1>2. t \in Threads /\ todo[t] = <<>> /\ t # Distributor /\ \A v \in Workers : t # Job(v)
  BY <1>1, ThreadNames DEF IndInv, Control
<1>3. \A v \in Workers : v # w => Loop(v) # t
  BY ThreadNames
<1>4. Weighs(cs, 0, 0, 0) /\ Idle(cs) /\ cs \in Seq(PlainCalls) /\ cs \in Seq(CallSet)
  BY LoadsDropQueued DEF Weighs
<1>5. cs \in Seq({DropQueuedCall(v) : v \in Workers})
  <2>1. DropQueuedCall(w) \in {DropQueuedCall(v) : v \in Workers}
    OBVIOUS
  <2> QED BY <2>1
<1> HIDE DEF t, cs
<1>6. /\ Stacks' /\ todo'[t] = cs
      /\ \A u \in Threads : u # t => todo'[u] = todo[u]
  BY <1>1, <1>2, <1>4, BeginStacks DEF IndInv
<1>7. /\ Pending(RespWt, todo') = Pending(RespWt, todo) + 0
      /\ Pending(CloseWt, todo') = Pending(CloseWt, todo) + 0
      /\ Pending(MemWt, todo') = Pending(MemWt, todo) + 0
      /\ Pending(RespWt, todo) \in Nat /\ Pending(CloseWt, todo) \in Nat
      /\ Pending(MemWt, todo) \in Nat
      /\ \A v \in Workers :
           /\ Pending(OwnWt(v), todo') = Pending(OwnWt(v), todo) + Load(OwnWt(v), cs)
           /\ Pending(OwnWt(v), todo) \in Nat
  BY <1>1, <1>2, <1>4, BeginCounts DEF IndInv
<1>8. Types'
  BY <1>1 DEF IndInv, Types
<1>9. Control'
  <2>1. SUFFICES ASSUME NEW v \in Workers
        PROVE  /\ uploading'[v] # 0 => todo'[Job(v)] = <<>>
               /\ ~terminated'[v] => todo'[Loop(v)] = <<>>
    BY DEF Control
  <2>2. terminated \in [Workers -> BOOLEAN]
    BY DEF IndInv, Types
  <2>3. ~terminated'[v] => v # w /\ ~terminated[v]
    BY <1>1, <2>2
  <2>4. /\ uploading[v] # 0 => todo[Job(v)] = <<>>
        /\ ~terminated[v] => todo[Loop(v)] = <<>>
        /\ Job(v) \in Threads /\ Loop(v) \in Threads
    BY ThreadNames DEF IndInv, Control
  <2>5. uploading'[v] # 0 => todo'[Job(v)] = <<>>
    BY <1>1, <1>2, <1>6, <2>4
  <2>6. ~terminated'[v] => todo'[Loop(v)] = <<>>
    BY <1>3, <1>6, <2>3, <2>4
  <2> QED BY <2>5, <2>6
<1>10. Before'
  <2> SUFFICES ASSUME stage # "distributed" PROVE Before'
    BY <1>1 DEF Before
  <2>1. \A u \in Threads : todo'[u] \in Seq({DropQueuedCall(v) : v \in Workers})
    BY <1>5, <1>6 DEF IndInv, Before
  <2>2. todo'[Distributor] = <<>>
    BY <1>2, <1>6, ThreadNames DEF IndInv, Before
  <2> QED BY <1>1, <2>1, <2>2 DEF IndInv, Before
<1>11. Responsible'
  BY <1>1, <1>7 DEF IndInv, Responsible
<1>12. OwnedOnce'
  BY <1>1, <1>4, <1>7 DEF IndInv, OwnedOnce, Idle
<1>13. Surplus' /\ UploadsDistinct' /\ AvailableIsRecoverable'
  BY <1>1 DEF IndInv, Surplus, Freed, UploadsDistinct, AvailableIsRecoverable
<1>14. MemoryCounted' /\ Closing'
  BY <1>1, <1>7 DEF IndInv, MemoryCounted, Closing
<1> QED BY <1>6, <1>8, <1>9, <1>10, <1>11, <1>12, <1>13, <1>14 DEF IndInv

LEMMA PerformStep ==
    ASSUME IndInv, NEW w \in Workers, managedPerformUploadChunkJob(w)
    PROVE  IndInv'
<1> DEFINE t == Job(w)
           cs == <<ProcessCall(w)>>
<1>1. /\ todo[t] = <<>> /\ uploading[w] = 0 /\ queued[w] > 0
      /\ Begin(t, cs)
      /\ queued' = [queued EXCEPT ![w] = @ - 1]
      /\ UNCHANGED <<pieceUsage, piecesCompleted, piecesRegistered, workersRemaining,
                     workersStandby, unusedHosts, memoryReleased, returned, released,
                     failed, available, uploadComplete, repairing, freed, stage,
                     terminated, uploading>>
  BY DEF managedPerformUploadChunkJob, chunkVars, memoryVars, endVars
<1>2. t \in Threads /\ \A v \in Workers : v # w => Job(v) # t
  BY ThreadNames
<1>3. \A v \in Workers : Loop(v) # t
  BY ThreadNames
<1>4. queued \in [Workers -> Nat] /\ queued[w] \in Nat /\ queued[w] - 1 \in Nat
  BY <1>1 DEF IndInv, Types
<1>5. stage = "distributed"
  BY <1>1, <1>4 DEF IndInv, Before
<1>6. /\ Weighs(cs, 1, 0, 0) /\ cs \in Seq(CallSet)
      /\ \A v \in Workers : Load(OwnWt(v), cs) = SelfWt(v)[w]
      /\ \E v \in Workers : t = Job(v) /\ cs = <<ProcessCall(v)>>
  BY LoadsProcess DEF Weighs
<1> HIDE DEF t, cs
<1>7. /\ Stacks' /\ todo'[t] = cs
      /\ \A u \in Threads : u # t => todo'[u] = todo[u]
  BY <1>1, <1>2, <1>6, BeginStacks DEF IndInv
<1>8. /\ Pending(RespWt, todo') = Pending(RespWt, todo) + 1
      /\ Pending(CloseWt, todo') = Pending(CloseWt, todo) + 0
      /\ Pending(MemWt, todo') = Pending(MemWt, todo) + 0
      /\ Pending(RespWt, todo) \in Nat /\ Pending(CloseWt, todo) \in Nat
      /\ Pending(MemWt, todo) \in Nat
      /\ \A v \in Workers :
           /\ Pending(OwnWt(v), todo') = Pending(OwnWt(v), todo) + Load(OwnWt(v), cs)
           /\ Pending(OwnWt(v), todo) \in Nat
  BY <1>1, <1>2, <1>6, BeginCounts DEF IndInv
<1>9. Types'
  BY <1>1, <1>4 DEF IndInv, Types
<1>10. Control'
  <2>1. SUFFICES ASSUME NEW v \in Workers
        PROVE  /\ uploading'[v] # 0 => todo'[Job(v)] = <<>>
               /\ ~terminated'[v] => todo'[Loop(v)] = <<>>
    BY DEF Control
  <2>2. /\ uploading[v] # 0 => todo[Job(v)] = <<>>
        /\ ~terminated[v] => todo[Loop(v)] = <<>>
        /\ Job(v) \in Threads /\ Loop(v) \in Threads
    BY ThreadNames DEF IndInv, Control
  <2>3. uploading'[v] # 0 => v # w
    BY <1>1
  <2> QED BY <1>1, <1>2, <1>3, <1>7, <2>2, <2>3
<1>11. Before'
  BY <1>1, <1>5 DEF Before
<1>12. Total(queued') = Total(queued) - 1 /\ Total(queued) \in Nat /\ Len(workersStandby) \in Nat
  <2>1. PICK z \in Nat : z = queued[w] - 1
    BY <1>4
  <2>2. Total([queued EXCEPT ![w] = z]) = Total(queued) - queued[w] + z
    BY <1>4, WorkersAssumption, TotalExcept
  <2>3. Total(queued) \in Nat /\ Len(workersStandby) \in Nat
    BY CountTypes DEF IndInv
  <2> QED BY <1>1, <1>4, <2>1, <2>2, <2>3
<1>13. Responsible'
  BY <1>1, <1>8, <1>12 DEF IndInv, Responsible
<1>14. OwnedOnce'
  <2>1. SUFFICES ASSUME NEW v \in Workers
        PROVE  queued'[v] + Load(SelfWt(v), workersStandby') + Pending(OwnWt(v), todo') <= 1
    BY DEF OwnedOnce
  <2>2. /\ Pending(OwnWt(v), todo') = Pending(OwnWt(v), todo) + SelfWt(v)[w]
        /\ Pending(OwnWt(v), todo) \in Nat
    BY <1>6, <1>8
  <2>3. queued'[v] = queued[v] - SelfWt(v)[w] /\ SelfWt(v)[w] \in Nat
    BY <1>1, <1>4 DEF SelfWt
  <2>4. Load(SelfWt(v), workersStandby) \in Nat /\ queued[v] \in Nat
    BY <1>4, WeightTypes, LoadType DEF IndInv, Types
  <2>5. queued[v] + Load(SelfWt(v), workersStandby) + Pending(OwnWt(v), todo) <= 1
    BY DEF IndInv, OwnedOnce
  <2>6. workersStandby' = workersStandby
    BY <1>1
  <2> QED BY <2>2, <2>3, <2>4, <2>5, <2>6
<1>15. Surplus' /\ UploadsDistinct' /\ AvailableIsRecoverable'
  BY <1>1 DEF IndInv, Surplus, Freed, UploadsDistinct, AvailableIsRecoverable
<1>16. MemoryCounted' /\ Closing'
  BY <1>1, <1>8 DEF IndInv, MemoryCounted, Closing
<1> QED BY <1>7, <1>9, <1>10, <1>11, <1>13, <1>14, <1>15, <1>16 DEF IndInv

LEMMA DistinctImage ==
    ASSUME NEW A, IsFiniteSet(A), NEW f
    PROVE  Cardinality({f[w] : w \in A}) = Cardinality(A)
             <=> \A v, w \in A : f[v] = f[w] => v = w
<1> DEFINE T == {f[w] : w \in A}
           g == [w \in A |-> f[w]]
<1>1. g \in Surjection(A, T)
  BY DEF Surjection
<1>2. g \in Injection(A, T) <=> \A v, w \in A : f[v] = f[w] => v = w
  BY DEF Injection, IsInjective
<1>3. Cardinality(T) = Cardinality(A) <=> g \in Injection(A, T)
  <2> HIDE DEF T, g
  <2> QED BY <1>1, FS_Surjection
<1> QED BY <1>2, <1>3

\* UploadsDistinct, worker by worker.
Active == {w \in Workers : uploading[w] # 0}
UploadsApart ==
    /\ piecesRegistered = Cardinality(Active)
    /\ \A v, w \in Workers : uploading[v] # 0 /\ uploading[v] = uploading[w] => v = w
    /\ \A w \in Workers : uploading[w] # 0 => pieceUsage[uploading[w]]

LEMMA UploadsPointwise == IsFiniteSet(Active) /\ (UploadsDistinct <=> UploadsApart)
<1> DEFINE active == {w \in Workers : uploading[w] # 0}
<1>1. IsFiniteSet(active)
  <2>1. active \in SUBSET Workers
    OBVIOUS
  <2> HIDE DEF active
  <2> QED BY <2>1, WorkersAssumption, FS_Subset
<1>2. Cardinality({uploading[w] : w \in active}) = Cardinality(active)
        <=> \A v, w \in active : uploading[v] = uploading[w] => v = w
  <2> HIDE DEF active
  <2> QED BY <1>1, DistinctImage
<1>3. (\A v, w \in active : uploading[v] = uploading[w] => v = w)
        <=> \A v, w \in Workers : uploading[v] # 0 /\ uploading[v] = uploading[w] => v = w
  OBVIOUS
<1>4. (\A w \in active : pieceUsage[uploading[w]])
        <=> \A w \in Workers : uploading[w] # 0 => pieceUsage[uploading[w]]
  OBVIOUS
<1>5. UploadsDistinct <=>
        /\ piecesRegistered = Cardinality(active)
        /\ Cardinality({uploading[w] : w \in active}) = Cardinality(active)
        /\ \A w \in active : pieceUsage[uploading[w]]
  BY DEF UploadsDistinct
<1> QED
  <2>1. UploadsDistinct <=>
         /\ piecesRegistered = Cardinality(active)
         /\ \A v, w \in Workers : uploading[v] # 0 /\ uploading[v] = uploading[w] => v = w
         /\ \A w \in Workers : uploading[w] # 0 => pieceUsage[uploading[w]]
    <3> HIDE DEF active
    <3> QED BY <1>2, <1>3, <1>4, <1>5
  <2> QED BY <1>1, <2>1 DEF UploadsApart, Active

\* The same of the next state.
LEMMA UploadsPointwiseNext == UploadsDistinct' <=> UploadsApart'
BY UploadsPointwise, PTL

LEMMA FetchOkStep ==
    ASSUME IndInv, FetchOk
    PROVE  IndInv'
<1>1. /\ stage = "fetching" /\ stage' = "fetched"
      /\ memoryReleased' = memoryReleased + FetchMemory
      /\ returned' = returned + FetchMemory
      /\ UNCHANGED <<pieceUsage, piecesCompleted, piecesRegistered, workersRemaining,
                     workersStandby, unusedHosts, released, failed, available,
                     uploadComplete, repairing, freed, queued, terminated, uploading, todo>>
  BY DEF FetchOk, chunkVars, endVars, workerVars
<1>2. /\ FetchMemory = MinPieces + (NumPieces - Cardinality(Unused(pieceUsage)))
      /\ Cardinality(Unused(pieceUsage)) \in 0 .. NumPieces
  BY UnusedFacts DEF FetchMemory, IndInv, Types
<1>3. NumPieces \in Nat /\ MinPieces \in Nat /\ FetchMemory \in Nat
  BY <1>2, PiecesAssumption
<1>4. piecesRegistered = 0 /\ memoryReleased = 0 /\ returned \in Nat
  BY <1>1 DEF IndInv, Before, MemoryCounted, Types
<1>5. Pending(MemWt, todo) \in Nat /\ returned + Pending(MemWt, todo) = memoryReleased
  BY WeightTypes, PendingType DEF IndInv, Stacks, MemoryCounted
<1>6. Types'
  BY <1>1, <1>3, <1>4 DEF IndInv, Types
<1>7. Stacks' /\ Control' /\ Before' /\ Responsible' /\ OwnedOnce'
  BY <1>1 DEF IndInv, Stacks, Control, Before, Responsible, OwnedOnce
<1>8. Surplus'
  BY <1>1 DEF IndInv, Surplus, Freed
<1>9. MemoryCounted'
  <2>1. /\ memoryReleased' = MemoryNeeded - Cardinality(Unused(pieceUsage)) - 0
        /\ returned' + Pending(MemWt, todo) = memoryReleased'
    <3>1. PICK u \in Nat : u = Cardinality(Unused(pieceUsage))
      BY <1>2
    <3>2. PICK f \in Nat : f = FetchMemory
      BY <1>3
    <3>3. f = MinPieces + (NumPieces - u)
      BY <1>2, <3>1, <3>2
    <3>4. f = MemoryNeeded - u - 0
      BY <1>3, <3>3 DEF MemoryNeeded
    <3>5. memoryReleased' = f /\ returned' = returned + f
      BY <1>1, <1>4, <3>2
    <3> QED BY <1>4, <1>5, <3>1, <3>4, <3>5
  <2> QED BY <1>1, <1>4, <2>1 DEF MemoryCounted
<1>10. Closing' /\ UploadsDistinct' /\ AvailableIsRecoverable'
  BY <1>1 DEF IndInv, Closing, UploadsDistinct, AvailableIsRecoverable
<1> QED BY <1>6, <1>7, <1>8, <1>9, <1>10 DEF IndInv

LEMMA FetchFailsStep ==
    ASSUME IndInv, FetchFails
    PROVE  IndInv'
<1> DEFINE cs == <<CleanUpCall>>
<1>1. /\ stage = "fetching" /\ stage' = "distributed"
      /\ memoryReleased' = memoryReleased + FetchMemory
      /\ returned' = returned + FetchMemory
      /\ workersRemaining' = 0 /\ failed' = TRUE
      /\ Begin(Distributor, cs)
      /\ UNCHANGED <<pieceUsage, piecesCompleted, piecesRegistered,
                     workersStandby, unusedHosts, released, available,
                     uploadComplete, repairing, freed, queued, terminated, uploading>>
  BY DEF FetchFails, workerVars
<1>2. /\ FetchMemory = MinPieces + (NumPieces - Cardinality(Unused(pieceUsage)))
      /\ Cardinality(Unused(pieceUsage)) \in 0 .. NumPieces
  BY UnusedFacts DEF FetchMemory, IndInv, Types
<1>3. NumPieces \in Nat /\ MinPieces \in Nat /\ FetchMemory \in Nat
  BY <1>2, PiecesAssumption
<1>4. /\ piecesRegistered = 0 /\ memoryReleased = 0 /\ returned \in Nat
      /\ workersRemaining = 0 /\ todo[Distributor] = <<>> /\ Freed = 0 /\ ~released
  BY <1>1 DEF IndInv, Before, MemoryCounted, Types, Surplus
<1>5. Distributor \in Threads
  BY ThreadNames
<1>6. Weighs(cs, 0, 0, 0) /\ Idle(cs) /\ cs \in Seq(PlainCalls) /\ cs \in Seq(CallSet)
  BY LoadsCleanUp DEF Weighs
<1> HIDE DEF cs
<1>7. /\ Stacks' /\ \A u \in Threads : u # Distributor => todo'[u] = todo[u]
  BY <1>1, <1>5, <1>6, BeginStacks DEF IndInv
<1>8. /\ Pending(RespWt, todo') = Pending(RespWt, todo) + 0
      /\ Pending(CloseWt, todo') = Pending(CloseWt, todo) + 0
      /\ Pending(MemWt, todo') = Pending(MemWt, todo) + 0
      /\ Pending(RespWt, todo) \in Nat /\ Pending(CloseWt, todo) \in Nat
      /\ Pending(MemWt, todo) \in Nat
      /\ \A v \in Workers :
           /\ Pending(OwnWt(v), todo') = Pending(OwnWt(v), todo) + Load(OwnWt(v), cs)
           /\ Pending(OwnWt(v), todo) \in Nat
  BY <1>1, <1>4, <1>5, <1>6, BeginCounts DEF IndInv
<1>9. Types'
  <2>1. 0 \in 0 .. Cardinality(Workers)
    BY WorkersAssumption, FS_CardinalityType
  <2> QED BY <1>1, <1>3, <1>4, <2>1 DEF IndInv, Types
<1>10. Control'
  BY <1>1, <1>7, ThreadNames DEF IndInv, Control
<1>11. Before'
  BY <1>1 DEF Before
<1>12. Responsible'
  BY <1>1, <1>4, <1>8 DEF IndInv, Responsible
<1>13. OwnedOnce'
  BY <1>1, <1>6, <1>8 DEF IndInv, OwnedOnce, Idle
<1>14. Surplus'
  <2>1. Freed' = Freed
    BY <1>1 DEF Freed
  <2> QED BY <1>1, <1>4, <2>1 DEF Surplus
<1>15. MemoryCounted'
  <2>1. returned + Pending(MemWt, todo) = memoryReleased
    BY DEF IndInv, MemoryCounted
  <2>2. /\ memoryReleased' = MemoryNeeded - Cardinality(Unused(pieceUsage)) - 0
        /\ returned' + Pending(MemWt, todo') = memoryReleased'
    <3>1. PICK u \in Nat : u = Cardinality(Unused(pieceUsage))
      BY <1>2
    <3>2. PICK f \in Nat : f = FetchMemory
      BY <1>3
    <3>3. f = MinPieces + (NumPieces - u)
      BY <1>2, <3>1, <3>2
    <3>4. f = MemoryNeeded - u - 0
      BY <1>3, <3>3 DEF MemoryNeeded
    <3>5. memoryReleased' = f /\ returned' = returned + f
      BY <1>1, <1>4, <3>2
    <3>6. Pending(MemWt, todo') = Pending(MemWt, todo) /\ Pending(MemWt, todo) \in Nat
      BY <1>8
    <3> QED BY <1>4, <2>1, <3>1, <3>4, <3>5, <3>6
  <2> QED BY <1>1, <1>4, <2>2 DEF MemoryCounted
<1>16. Closing'
  BY <1>1, <1>4, <1>8 DEF IndInv, Closing
<1>17. UploadsDistinct' /\ AvailableIsRecoverable'
  BY <1>1 DEF IndInv, UploadsDistinct, AvailableIsRecoverable
<1> QED BY <1>7, <1>9, <1>10, <1>11, <1>12, <1>13, <1>14, <1>15, <1>16, <1>17 DEF IndInv

\* The workers that the queue selects are different ones.
LEMMA Selected ==
    ASSUME NEW ws \in SetToAllKPermutations(Workers)
    PROVE  /\ ws \in Seq(Workers)
           /\ \A i, j \in 1 .. Len(ws) : ws[i] = ws[j] => i = j
           /\ Len(ws) \in Nat /\ Len(ws) <= Cardinality(Workers)
<1>1. PICK S \in SUBSET Workers : ws \in SetToSeqs(S)
  BY DEF SetToAllKPermutations
<1>2. IsFiniteSet(S) /\ Cardinality(S) \in Nat /\ Cardinality(S) <= Cardinality(Workers)
  BY WorkersAssumption, FS_Subset, FS_CardinalityType
<1>3. /\ ws \in [1 .. Cardinality(S) -> S]
      /\ \A i, j \in 1 .. Cardinality(S) : i # j => ws[i] # ws[j]
  BY <1>1 DEF SetToSeqs
<1>4. ws \in Seq(S) /\ Len(ws) = Cardinality(S)
  BY <1>2, <1>3
<1>5. ws \in Seq(Workers)
  BY <1>4, SeqMonotonic
<1> QED BY <1>2, <1>3, <1>4, <1>5

\* Different workers: each is on the list at most once.
LEMMA SelectedOnce ==
    ASSUME NEW ws \in Seq(Workers), NEW v \in Workers,
           \A i, j \in 1 .. Len(ws) : ws[i] = ws[j] => i = j
    PROVE  Load(SelfWt(v), ws) <= 1 /\ Load(SelfWt(v), ws) \in Nat
<1> DEFINE at == {i \in 1 .. Len(ws) : SelfWt(v)[ws[i]] = 1}
<1>1. SelfWt(v) \in [Workers -> Nat]
  BY WeightTypes
<1>2. \A i \in 1 .. Len(ws) : ws[i] \in Workers
  BY ElementOfSeq
<1>3. \A i \in 1 .. Len(ws) : /\ SelfWt(v)[ws[i]] \in {0, 1}
                              /\ SelfWt(v)[ws[i]] = 1 => ws[i] = v
  BY <1>2 DEF SelfWt
<1>4. Load(SelfWt(v), ws) = Cardinality(at)
  BY <1>1, <1>3, LoadCounts
<1>5. Load(SelfWt(v), ws) \in Nat
  BY <1>1, LoadType
<1>6. \A i, j \in at : i = j
  BY <1>3
<1>7. CASE at = {}
  <2>1. Cardinality(at) = 0
    <3> HIDE DEF at
    <3> QED BY <1>7, FS_EmptySet
  <2> QED BY <1>4, <1>5, <2>1
<1>8. CASE at # {}
  <2>1. PICK i \in at : at = {i}
    <3> HIDE DEF at
    <3> QED BY <1>6, <1>8
  <2>2. Cardinality(at) = 1
    <3> HIDE DEF at
    <3> QED BY <2>1, FS_Singleton
  <2> QED BY <1>4, <1>5, <2>2
<1> QED BY <1>7, <1>8

LEMMA DistributeStep ==
    ASSUME IndInv, managedDistributeChunkToWorkers
    PROVE  IndInv'
<1>1. /\ stage = "fetched" /\ stage' = "distributed"
      /\ UNCHANGED <<pieceUsage, piecesCompleted, piecesRegistered, workersStandby,
                     unusedHosts, memoryReleased, returned, released, failed,
                     available, uploadComplete, repairing, freed, queued,
                     terminated, uploading>>
  BY DEF managedDistributeChunkToWorkers, memoryVars, endVars, workerVars
<1>2. PICK ws \in SetToAllKPermutations(Workers) :
        /\ workersRemaining' = workersRemaining + Len(ws)
        /\ Begin(Distributor, [i \in 1 .. Len(ws) |-> QueueCall(ws[i])] \o <<CleanUpCall>>)
  BY DEF managedDistributeChunkToWorkers
<1> DEFINE qs == [i \in 1 .. Len(ws) |-> QueueCall(ws[i])]
           cs == qs \o <<CleanUpCall>>
<1>3. /\ ws \in Seq(Workers)
      /\ \A i, j \in 1 .. Len(ws) : ws[i] = ws[j] => i = j
      /\ Len(ws) \in Nat /\ Len(ws) <= Cardinality(Workers)
  BY Selected
<1>4. /\ piecesRegistered = 0 /\ workersRemaining = 0 /\ workersStandby = <<>>
      /\ todo[Distributor] = <<>> /\ Freed = 0 /\ ~released
      /\ \A v \in Workers : queued[v] = 0
  BY <1>1 DEF IndInv, Before, Surplus
<1>5. Distributor \in Threads
  BY ThreadNames
<1>6. /\ Weighs(qs, Len(ws), 0, 0) /\ qs \in Seq(PlainCalls)
      /\ \A v \in Workers : Load(OwnWt(v), qs) = Load(SelfWt(v), ws)
  BY <1>3, LoadsQueue
<1> HIDE DEF qs
<1>7. /\ Weighs(cs, Len(ws) + 0, 0 + 0, 0 + 0)
      /\ \A v \in Workers :
           Load(OwnWt(v), cs) = Load(OwnWt(v), qs) + Load(OwnWt(v), <<CleanUpCall>>)
  BY <1>6, LoadsCleanUp, ConcatLoads
<1>8. /\ Weighs(cs, Len(ws), 0, 0) /\ cs \in Seq(CallSet)
      /\ \A v \in Workers : Load(OwnWt(v), cs) = Load(SelfWt(v), ws) + 0
  BY <1>3, <1>6, <1>7, LoadsCleanUp DEF Idle, Weighs
<1>9. cs \in Seq(PlainCalls)
  BY <1>6, LoadsCleanUp, ConcatProperties
<1>10. Begin(Distributor, cs)
  BY <1>2 DEF qs
<1> HIDE DEF cs
<1>11. /\ Stacks' /\ \A u \in Threads : u # Distributor => todo'[u] = todo[u]
  BY <1>5, <1>8, <1>9, <1>10, BeginStacks DEF IndInv
<1>12. /\ Pending(RespWt, todo') = Pending(RespWt, todo) + Len(ws)
       /\ Pending(CloseWt, todo') = Pending(CloseWt, todo) + 0
       /\ Pending(MemWt, todo') = Pending(MemWt, todo) + 0
       /\ Pending(RespWt, todo) \in Nat /\ Pending(CloseWt, todo) \in Nat
       /\ Pending(MemWt, todo) \in Nat
  BY <1>4, <1>5, <1>8, <1>10, BeginCounts DEF IndInv
<1>13. Types'
  <2>1. workersRemaining' \in 0 .. Cardinality(Workers)
    BY <1>2, <1>3, <1>4, WorkersAssumption, FS_CardinalityType
  <2> QED BY <1>1, <2>1 DEF IndInv, Types
<1>14. Control'
  BY <1>1, <1>11, ThreadNames DEF IndInv, Control
<1>15. Before'
  BY <1>1 DEF Before
<1>16. Responsible'
  <2>1. /\ workersRemaining = Total(queued) + Len(workersStandby) + Pending(RespWt, todo)
        /\ Total(queued) \in Nat /\ Len(workersStandby) \in Nat
    BY CountTypes DEF IndInv, Responsible
  <2>2. workersRemaining' = Total(queued) + Len(workersStandby) + Pending(RespWt, todo')
    <3>1. Len(ws) \in Nat /\ workersRemaining = 0 /\ workersRemaining' = workersRemaining + Len(ws)
      BY <1>2, <1>3, <1>4
    <3>2. /\ Pending(RespWt, todo') = Pending(RespWt, todo) + Len(ws)
          /\ Pending(RespWt, todo) \in Nat
      BY <1>12
    <3>3. PICK n \in Nat : n = Len(ws)
      BY <3>1
    <3> QED BY <2>1, <3>1, <3>2, <3>3
  <2> QED BY <1>1, <2>2 DEF Responsible
<1>17. OwnedOnce'
  <2>1. SUFFICES ASSUME NEW v \in Workers
        PROVE  queued'[v] + Load(SelfWt(v), workersStandby') + Pending(OwnWt(v), todo') <= 1
    BY DEF OwnedOnce
  <2>2. OwnWt(v) \in [CallSet -> Nat] /\ SelfWt(v) \in [Workers -> Nat]
    BY WeightTypes
  <2>3. Load(SelfWt(v), workersStandby') = 0 /\ queued'[v] = 0
    BY <1>1, <1>4, <2>2, LoadEmpty
  <2>4. Pending(OwnWt(v), todo) = 0
    <3> DEFINE f == [u \in Threads |-> Load(OwnWt(v), todo[u])]
               D == {DropQueuedCall(x) : x \in Workers}
    <3>1. f \in [Threads -> Nat]
      BY <2>2, PendingType DEF IndInv, Stacks
    <3>2. ASSUME NEW u \in Threads PROVE Load(OwnWt(v), todo[u]) = 0
      <4>1. todo[u] \in Seq(D) /\ todo[u] \in Seq(CallSet)
        BY <1>1 DEF IndInv, Before, Stacks
      <4>2. \A i \in 1 .. Len(todo[u]) : todo[u][i] \in D
        BY <4>1, ElementOfSeq
      <4>3. \A i \in 1 .. Len(todo[u]) : OwnWt(v)[todo[u][i]] = 0
        BY <4>2, OwnWeights
      <4> QED BY <2>2, <4>1, <4>3, LoadZero
    <3>3. \A u \in Threads : f[u] = 0
      BY <3>2
    <3>4. Total(f) = 0
      <4> HIDE DEF f
      <4> QED BY <3>1, <3>3, ThreadsFinite, TotalZero
    <3> QED BY <3>4 DEF Pending
  <2>5. Pending(OwnWt(v), todo') = Pending(OwnWt(v), todo) + Load(OwnWt(v), cs)
    BY <1>4, <1>5, <1>8, <1>10, BeginCounts DEF IndInv
  <2>6. Load(SelfWt(v), ws) <= 1 /\ Load(SelfWt(v), ws) \in Nat
    BY <1>3, SelectedOnce
  <2> QED BY <1>8, <2>3, <2>4, <2>5, <2>6
<1>18. Surplus'
  <2>1. Freed' = Freed
    BY <1>1 DEF Freed
  <2> QED BY <1>1, <1>4, <2>1 DEF Surplus
<1>19. MemoryCounted' /\ Closing'
  BY <1>1, <1>4, <1>12 DEF IndInv, MemoryCounted, Closing
<1>20. UploadsDistinct' /\ AvailableIsRecoverable'
  BY <1>1 DEF IndInv, UploadsDistinct, AvailableIsRecoverable
<1> QED BY <1>11, <1>13, <1>14, <1>15, <1>16, <1>17, <1>18, <1>19, <1>20 DEF IndInv

LEMMA RegisterStep ==
    ASSUME IndInv, NEW w \in Workers, ProcessRegisters(w)
    PROVE  IndInv'
<1> DEFINE name == "managedProcessUploadChunk"
           t == Job(w)
           cs == <<>>
<1>1. /\ At(t, name) /\ GoOn(t, cs)
      /\ unusedHosts' = unusedHosts \ {w}
      /\ piecesRegistered' = piecesRegistered + 1
      /\ workersRemaining' = workersRemaining - 1
      /\ UNCHANGED <<piecesCompleted, workersStandby, memoryReleased, returned, released,
                     failed, available, uploadComplete, repairing, freed, stage,
                     queued, terminated>>
  BY DEF ProcessRegisters, memoryVars, endVars
<1>2. PICK i \in Unused(pieceUsage) :
        /\ pieceUsage' = [pieceUsage EXCEPT ![i] = TRUE]
        /\ uploading' = [uploading EXCEPT ![w] = i]
  BY DEF ProcessRegisters
<1>3. /\ t \in Threads /\ Arg(t) = w /\ todo[t] # <<>> /\ Tail(todo[t]) = <<>>
      /\ Pending(RespWt, todo) \in Nat /\ Pending(RespWt, todo) >= 1
  BY <1>1, ProcessAlone DEF IndInv
<1>4. /\ \A v \in Workers : v # w => Job(v) # t
      /\ \A v \in Workers : Loop(v) # t /\ Job(v) \in Threads /\ Loop(v) \in Threads
  BY ThreadNames
<1>5. Weighs(cs, 0, 0, 0) /\ Idle(cs) /\ cs \in Seq(PlainCalls) /\ cs \in Seq(CallSet)
  BY LoadsNone DEF Weighs
<1>6. cs \o <<>> = <<>>
  BY ConcatEmptySeq, EmptySeq
<1>7. uploading[w] = 0
  BY <1>3 DEF IndInv, Control
<1> HIDE DEF t, cs
<1>8. stage = "distributed"
  BY <1>1, <1>3, EarlyCalls DEF IndInv
<1>9. /\ Stacks' /\ todo'[t] = <<>>
      /\ \A u \in Threads : u # t => todo'[u] = todo[u]
  BY <1>1, <1>3, <1>5, <1>6, GoOnStacks DEF IndInv
<1>10. /\ Pending(RespWt, todo') = Pending(RespWt, todo) + 0 - 1
       /\ Pending(CloseWt, todo') = Pending(CloseWt, todo) + 0 - 0
       /\ Pending(MemWt, todo') = Pending(MemWt, todo) + 0 - 0
       /\ Pending(CloseWt, todo) \in Nat /\ Pending(MemWt, todo) \in Nat
  <2>1. Stacks /\ t \in Threads /\ At(t, name) /\ Weighs(cs, 0, 0, 0) /\ GoOn(t, cs)
    BY <1>1, <1>3, <1>5 DEF IndInv
  <2>2. PICK nm : nm = name
    OBVIOUS
  <2> HIDE DEF name
  <2>3. /\ Pending(RespWt, todo') = Pending(RespWt, todo) + 0 -
             (IF nm \in {"callQueueUploadChunk", "managedDropChunk",
                         "managedProcessUploadChunk"} THEN 1 ELSE 0)
        /\ Pending(CloseWt, todo') = Pending(CloseWt, todo) + 0 -
             (IF nm = "Close" THEN 1 ELSE 0)
        /\ Pending(MemWt, todo') = Pending(MemWt, todo) + 0 -
             (IF nm = "Return" THEN Arg(t) ELSE 0)
        /\ Pending(CloseWt, todo) \in Nat /\ Pending(MemWt, todo) \in Nat
    BY <2>1, <2>2, GoOnCounts
  <2> QED BY <2>2, <2>3 DEF name
<1>11. /\ workersRemaining = Total(queued) + Len(workersStandby) + Pending(RespWt, todo)
       /\ Total(queued) \in Nat /\ Len(workersStandby) \in Nat
       /\ workersRemaining \in Nat /\ workersRemaining <= Cardinality(Workers)
       /\ Cardinality(Workers) \in Nat
       /\ piecesCompleted \in Nat /\ piecesRegistered \in Nat
       /\ Cardinality(Unused(pieceUsage)) \in Nat
       /\ NumPieces \in Nat /\ MinPieces \in Nat
  BY CountTypes DEF IndInv, Responsible
<1>28. /\ workersRemaining' = workersRemaining - 1
       /\ Total(queued') = Total(queued) /\ Len(workersStandby') = Len(workersStandby)
  BY <1>1
<1>12. workersRemaining' \in 0 .. Cardinality(Workers)
  BY <1>3, <1>11, <1>28
<1>13. /\ pieceUsage \in [Pieces -> BOOLEAN] /\ uploading \in [Workers -> 0 .. NumPieces]
       /\ unusedHosts \subseteq Workers
  BY DEF IndInv, Types
<1>14. /\ pieceUsage' \in [Pieces -> BOOLEAN]
       /\ Unused(pieceUsage') = Unused(pieceUsage) \ {i}
       /\ Cardinality(Unused(pieceUsage')) = Cardinality(Unused(pieceUsage)) - 1
  BY <1>2, <1>13, TakePiece
<1>15. i \in 1 .. NumPieces /\ i \in 0 .. NumPieces /\ i # 0 /\ i \in Pieces /\ ~pieceUsage[i]
  BY <1>11 DEF Unused, Pieces
<1>16. ~released
  BY DEF IndInv, Closing
<1>17. uploading' \in [Workers -> 0 .. NumPieces]
  BY <1>2, <1>13, <1>15
<1>18. Types'
  <2>1. piecesRegistered' \in Nat /\ unusedHosts' \subseteq Workers
    BY <1>1, <1>11, <1>13
  <2>2. Types
    BY DEF IndInv
  <2> QED BY <1>1, <1>12, <1>14, <1>17, <2>1, <2>2 DEF Types
<1>19. Control'
  <2>1. SUFFICES ASSUME NEW v \in Workers
        PROVE  /\ uploading'[v] # 0 => todo'[Job(v)] = <<>>
               /\ ~terminated'[v] => todo'[Loop(v)] = <<>>
    BY DEF Control
  <2>2. /\ uploading[v] # 0 => todo[Job(v)] = <<>>
        /\ ~terminated[v] => todo[Loop(v)] = <<>>
    BY DEF IndInv, Control
  <2>3. v # w => uploading'[v] = uploading[v]
    BY <1>2, <1>13
  <2>4. Job(w) = t
    BY DEF t
  <2> QED BY <1>1, <1>4, <1>9, <2>2, <2>3, <2>4
<1>20. Before'
  BY <1>1, <1>8 DEF Before
<1>21. Responsible'
  <2>1. PICK a \in Nat : a = Pending(RespWt, todo)
    BY <1>3
  <2>2. PICK b \in Nat : b = Total(queued) + Len(workersStandby)
    BY <1>11
  <2>3. workersRemaining = b + a
    BY <1>11, <2>1, <2>2
  <2>4. Pending(RespWt, todo') = a - 1
    BY <1>10, <2>1
  <2>5. workersRemaining' = b + (a - 1)
    BY <1>28, <2>3
  <2>6. Total(queued') + Len(workersStandby') = b
    BY <1>28, <2>2
  <2> QED BY <2>4, <2>5, <2>6 DEF Responsible
<1>22. OwnedOnce'
  BY <1>1, <1>3, <1>5, GoOnOwned DEF IndInv
<1>23. Surplus'
  <2>1. Freed' = Freed
    <3>1. PICK u \in Nat : u = Cardinality(Unused(pieceUsage))
      BY <1>11
    <3>2. /\ piecesRegistered' = piecesRegistered + 1 /\ piecesCompleted' = piecesCompleted
          /\ Cardinality(Unused(pieceUsage')) = u - 1
      BY <1>1, <1>14, <3>1
    <3>3. piecesCompleted \in Nat /\ piecesRegistered \in Nat /\ NumPieces \in Nat
      BY <1>11
    <3>4. Freed = NumPieces - u - piecesCompleted - piecesRegistered
      BY <3>1 DEF Freed
    <3>5. Freed' = NumPieces - (u - 1) - piecesCompleted - (piecesRegistered + 1)
      BY <3>2 DEF Freed
    <3> QED BY <3>3, <3>4, <3>5
  <2>2. Freed >= 0 /\ (Freed > 0 => Cardinality(Unused(pieceUsage)) >= workersRemaining)
    BY DEF IndInv, Surplus
  <2>3. Freed' > 0 => Cardinality(Unused(pieceUsage')) >= workersRemaining'
    BY <1>1, <1>11, <1>14, <2>1, <2>2
  <2> QED BY <1>1, <1>8, <2>1, <2>2, <2>3 DEF Surplus
<1>24. MemoryCounted'
  <2>1. /\ memoryReleased = MemoryNeeded - Cardinality(Unused(pieceUsage)) - piecesRegistered
        /\ returned + Pending(MemWt, todo) = memoryReleased
    BY <1>8 DEF IndInv, MemoryCounted
  <2>2. MemoryNeeded \in Nat
    BY <1>11 DEF MemoryNeeded
  <2>3. memoryReleased' = MemoryNeeded - Cardinality(Unused(pieceUsage')) - piecesRegistered'
    <3>1. PICK u \in Nat : u = Cardinality(Unused(pieceUsage))
      BY <1>11
    <3>2. /\ piecesRegistered' = piecesRegistered + 1 /\ memoryReleased' = memoryReleased
          /\ Cardinality(Unused(pieceUsage')) = u - 1
      BY <1>1, <1>14, <3>1
    <3>3. piecesRegistered \in Nat /\ memoryReleased = MemoryNeeded - u - piecesRegistered
      BY <1>11, <2>1, <3>1
    <3> QED BY <2>2, <3>2, <3>3
  <2>4. returned' + Pending(MemWt, todo') = memoryReleased'
    BY <1>1, <1>10, <2>1
  <2> QED BY <1>1, <1>8, <2>3, <2>4 DEF MemoryCounted
<1>25. Closing'
  BY <1>1, <1>10, <1>16 DEF IndInv, Closing
<1>26. UploadsDistinct'
  <2>1. UploadsApart
    BY UploadsPointwise DEF IndInv
  <2>2. uploading'[w] = i /\ \A v \in Workers : v # w => uploading'[v] = uploading[v]
    BY <1>2, <1>13
  <2>3. Active' = Active \cup {w} /\ w \notin Active
    BY <1>7, <1>15, <2>2 DEF Active
  <2>4. Cardinality(Active \cup {w}) = Cardinality(Active) + 1
    BY <2>3, UploadsPointwise, FS_AddElement
  <2>5. piecesRegistered' = Cardinality(Active')
    BY <1>1, <2>1, <2>3, <2>4 DEF UploadsApart
  <2>6. \A v \in Workers : uploading[v] # 0 => /\ uploading[v] \in Pieces
                                             /\ pieceUsage[uploading[v]] /\ uploading[v] # i
    BY <1>11, <1>13, <1>15, <2>1 DEF UploadsApart, Pieces
  <2>7. \A v, x \in Workers : uploading'[v] # 0 /\ uploading'[v] = uploading'[x] => v = x
    BY <1>15, <2>1, <2>2, <2>6 DEF UploadsApart
  <2>8. \A v \in Workers : uploading'[v] # 0 => pieceUsage'[uploading'[v]]
    BY <1>2, <1>13, <1>15, <2>2, <2>6
  <2>9. UploadsApart'
    BY <2>5, <2>7, <2>8 DEF UploadsApart
  <2> QED BY <2>9, UploadsPointwiseNext
<1>27. AvailableIsRecoverable'
  BY <1>1 DEF IndInv, AvailableIsRecoverable
<1> QED BY <1>9, <1>18, <1>19, <1>20, <1>21, <1>22, <1>23, <1>24, <1>25, <1>26, <1>27 DEF IndInv

\* A worker that uploads: the chunk was distributed and is not complete, and
\* the upload holds the worker's job.
LEMMA UploadRuns ==
    ASSUME IndInv, NEW w \in Workers, uploading[w] # 0
    PROVE  /\ stage = "distributed" /\ ~released
           /\ todo[Job(w)] = <<>> /\ Job(w) \in Threads
           /\ piecesRegistered \in Nat /\ piecesRegistered >= 1
           /\ uploading[w] \in Pieces /\ pieceUsage[uploading[w]]
           /\ piecesRegistered - 1 = Cardinality(Active \ {w})
<1>1. stage = "distributed"
  BY DEF IndInv, Before
<1>2. todo[Job(w)] = <<>> /\ Job(w) \in Threads
  BY ThreadNames DEF IndInv, Control
<1>3. UploadsApart /\ IsFiniteSet(Active)
  BY UploadsPointwise DEF IndInv
<1>4. piecesRegistered # 0
  BY NoneRegistered DEF IndInv
<1>5. piecesRegistered \in Nat /\ piecesRegistered >= 1
  BY <1>4 DEF IndInv, Types
<1>6. ~released
  BY <1>4 DEF IndInv, Closing
<1>7. uploading[w] \in Pieces /\ pieceUsage[uploading[w]]
  BY <1>3, PiecesAssumption DEF IndInv, Types, UploadsApart, Pieces
<1>8. w \in Active
  BY DEF Active
<1>9. Cardinality(Active \ {w}) = Cardinality(Active) - 1
  BY <1>3, <1>8, FS_RemoveElement
<1> QED BY <1>1, <1>2, <1>3, <1>5, <1>6, <1>7, <1>9 DEF UploadsApart

\* The job goes on after the upload ended.
LEMMA UploadStops ==
    ASSUME IndInv, NEW w \in Workers, uploading[w] # 0,
           uploading' = [uploading EXCEPT ![w] = 0], terminated' = terminated,
           NEW cs \in Seq(PlainCalls), Begin(Job(w), cs)
    PROVE  /\ Stacks' /\ Control'
           /\ uploading' \in [Workers -> 0 .. NumPieces]
           /\ Active' = Active \ {w}
           /\ uploading'[w] = 0 /\ \A v \in Workers : v # w => uploading'[v] = uploading[v]
<1> DEFINE t == Job(w)
<1>1. t \in Threads
  BY ThreadNames
<1>2. /\ \A v \in Workers : v # w => Job(v) # t
      /\ \A v \in Workers : Loop(v) # t /\ Job(v) \in Threads /\ Loop(v) \in Threads
  BY ThreadNames
<1>3. cs \in Seq(CallSet)
  BY CallNames, SeqMonotonic
<1> HIDE DEF t
<1>4. Stacks' /\ \A u \in Threads : u # t => todo'[u] = todo[u]
  <2>1. Begin(t, cs)
    BY DEF t
  <2> QED BY <1>1, <1>3, <2>1, BeginStacks DEF IndInv
<1>5. uploading \in [Workers -> 0 .. NumPieces] /\ 0 \in 0 .. NumPieces
  BY PiecesAssumption DEF IndInv, Types
<1>6. /\ uploading' \in [Workers -> 0 .. NumPieces]
      /\ uploading'[w] = 0 /\ \A v \in Workers : v # w => uploading'[v] = uploading[v]
  BY <1>5
<1>7. Active' = Active \ {w}
  BY <1>6 DEF Active
<1>8. Control'
  <2>1. SUFFICES ASSUME NEW v \in Workers
        PROVE  /\ uploading'[v] # 0 => todo'[Job(v)] = <<>>
               /\ ~terminated'[v] => todo'[Loop(v)] = <<>>
    BY DEF Control
  <2>2. /\ uploading[v] # 0 => todo[Job(v)] = <<>>
        /\ ~terminated[v] => todo[Loop(v)] = <<>>
    BY DEF IndInv, Control
  <2> QED BY <1>2, <1>4, <1>6, <2>2
<1> QED BY <1>4, <1>6, <1>7, <1>8

LEMMA SucceedsStep ==
    ASSUME IndInv, NEW w \in Workers, UploadSucceeds(w)
    PROVE  IndInv'
<1> DEFINE t == Job(w)
           cs == <<ReturnCall(1), CleanUpCall>>
<1>1. /\ uploading[w] # 0
      /\ piecesRegistered' = piecesRegistered - 1
      /\ piecesCompleted' = piecesCompleted + 1
      /\ memoryReleased' = memoryReleased + 1
      /\ uploading' = [uploading EXCEPT ![w] = 0]
      /\ Begin(t, cs)
      /\ UNCHANGED <<pieceUsage, workersRemaining, workersStandby, unusedHosts, returned,
                     released, failed, available, uploadComplete, repairing, freed, stage,
                     queued, terminated>>
  BY DEF UploadSucceeds, endVars
<1>2. /\ stage = "distributed" /\ ~released
      /\ todo[t] = <<>> /\ t \in Threads
      /\ piecesRegistered \in Nat /\ piecesRegistered >= 1
      /\ piecesRegistered - 1 = Cardinality(Active \ {w})
  BY <1>1, UploadRuns
<1>3. Weighs(cs, 0, 0, 1) /\ Idle(cs) /\ cs \in Seq(PlainCalls)
  BY LoadsSucceeded
<1> HIDE DEF cs
<1>4. /\ Stacks' /\ Control'
      /\ uploading' \in [Workers -> 0 .. NumPieces]
      /\ Active' = Active \ {w}
      /\ uploading'[w] = 0 /\ \A v \in Workers : v # w => uploading'[v] = uploading[v]
  BY <1>1, <1>3, UploadStops
<1> HIDE DEF t
<1>5. /\ Pending(RespWt, todo') = Pending(RespWt, todo) + 0
      /\ Pending(CloseWt, todo') = Pending(CloseWt, todo) + 0
      /\ Pending(MemWt, todo') = Pending(MemWt, todo) + 1
      /\ Pending(RespWt, todo) \in Nat /\ Pending(CloseWt, todo) \in Nat
      /\ Pending(MemWt, todo) \in Nat
      /\ \A v \in Workers :
           /\ Pending(OwnWt(v), todo') = Pending(OwnWt(v), todo) + Load(OwnWt(v), cs)
           /\ Pending(OwnWt(v), todo) \in Nat
  BY <1>1, <1>2, <1>3, BeginCounts DEF IndInv
<1>6. /\ piecesCompleted \in Nat /\ NumPieces \in Nat /\ MinPieces \in Nat
      /\ Cardinality(Unused(pieceUsage)) \in Nat
      /\ memoryReleased \in Nat /\ returned \in Nat
  BY CountTypes DEF IndInv, Types
<1>7. Types'
  BY <1>1, <1>2, <1>4, <1>6 DEF IndInv, Types
<1>8. Before'
  BY <1>1, <1>2 DEF Before
<1>9. Responsible'
  BY <1>1, <1>5 DEF IndInv, Responsible
<1>10. OwnedOnce'
  BY <1>1, <1>3, <1>5 DEF IndInv, OwnedOnce, Idle
<1>11. Surplus'
  <2>1. PICK u \in Nat : u = Cardinality(Unused(pieceUsage))
    BY <1>6
  <2>2. Freed = NumPieces - u - piecesCompleted - piecesRegistered
    BY <2>1 DEF Freed
  <2>3. Freed' = NumPieces - u - (piecesCompleted + 1) - (piecesRegistered - 1)
    BY <1>1, <2>1 DEF Freed
  <2>4. Freed' = Freed
    BY <1>2, <1>6, <2>2, <2>3
  <2> QED BY <1>1, <2>4 DEF IndInv, Surplus
<1>12. MemoryCounted'
  <2>1. PICK u \in Nat : u = Cardinality(Unused(pieceUsage))
    BY <1>6
  <2>2. /\ memoryReleased = MemoryNeeded - u - piecesRegistered
        /\ returned + Pending(MemWt, todo) = memoryReleased
    BY <1>2, <2>1 DEF IndInv, MemoryCounted
  <2>3. MemoryNeeded \in Nat
    BY <1>6 DEF MemoryNeeded
  <2>4. memoryReleased' = MemoryNeeded - u - piecesRegistered'
    BY <1>1, <1>2, <2>2, <2>3
  <2>5. returned' + Pending(MemWt, todo') = memoryReleased'
    BY <1>1, <1>5, <1>6, <2>2
  <2> QED BY <1>1, <1>2, <2>1, <2>4, <2>5 DEF MemoryCounted
<1>13. Closing'
  BY <1>1, <1>2, <1>5 DEF IndInv, Closing
<1>14. UploadsDistinct'
  <2>1. UploadsApart
    BY UploadsPointwise DEF IndInv
  <2>2. piecesRegistered' = Cardinality(Active')
    BY <1>1, <1>2, <1>4
  <2>3. /\ \A v, x \in Workers : uploading'[v] # 0 /\ uploading'[v] = uploading'[x] => v = x
        /\ \A v \in Workers : uploading'[v] # 0 => pieceUsage'[uploading'[v]]
    BY <1>1, <1>4, <2>1 DEF UploadsApart
  <2>4. UploadsApart'
    BY <2>2, <2>3 DEF UploadsApart
  <2> QED BY <2>4, UploadsPointwiseNext
<1>15. AvailableIsRecoverable'
  BY <1>1, <1>6 DEF IndInv, AvailableIsRecoverable
<1> QED BY <1>4, <1>7, <1>8, <1>9, <1>10, <1>11, <1>12, <1>13, <1>14, <1>15 DEF IndInv

LEMMA FailedStep ==
    ASSUME IndInv, NEW w \in Workers, managedUploadFailed(w)
    PROVE  IndInv'
<1> DEFINE t == Job(w)
           cs == <<NotifyCall, CleanUpCall, DropQueuedCall(w)>>
           i == uploading[w]
<1>1. /\ i # 0
      /\ piecesRegistered' = piecesRegistered - 1
      /\ pieceUsage' = [pieceUsage EXCEPT ![i] = FALSE]
      /\ uploading' = [uploading EXCEPT ![w] = 0]
      /\ Begin(t, cs)
      /\ UNCHANGED <<piecesCompleted, workersRemaining, workersStandby, unusedHosts,
                     memoryReleased, returned, released, failed, available,
                     uploadComplete, repairing, freed, stage, queued, terminated>>
  BY DEF managedUploadFailed, memoryVars, endVars
<1>2. /\ stage = "distributed" /\ ~released
      /\ todo[t] = <<>> /\ t \in Threads
      /\ piecesRegistered \in Nat /\ piecesRegistered >= 1
      /\ i \in Pieces /\ pieceUsage[i]
      /\ piecesRegistered - 1 = Cardinality(Active \ {w})
  BY <1>1, UploadRuns
<1>3. Weighs(cs, 0, 0, 0) /\ Idle(cs) /\ cs \in Seq(PlainCalls)
  BY LoadsFailed
<1> HIDE DEF cs
<1>4. /\ Stacks' /\ Control'
      /\ uploading' \in [Workers -> 0 .. NumPieces]
      /\ Active' = Active \ {w}
      /\ uploading'[w] = 0 /\ \A v \in Workers : v # w => uploading'[v] = uploading[v]
  BY <1>1, <1>3, UploadStops
<1> HIDE DEF t
<1>5. /\ Pending(RespWt, todo') = Pending(RespWt, todo) + 0
      /\ Pending(CloseWt, todo') = Pending(CloseWt, todo) + 0
      /\ Pending(MemWt, todo') = Pending(MemWt, todo) + 0
      /\ Pending(RespWt, todo) \in Nat /\ Pending(CloseWt, todo) \in Nat
      /\ Pending(MemWt, todo) \in Nat
      /\ \A v \in Workers :
           /\ Pending(OwnWt(v), todo') = Pending(OwnWt(v), todo) + Load(OwnWt(v), cs)
           /\ Pending(OwnWt(v), todo) \in Nat
  BY <1>1, <1>2, <1>3, BeginCounts DEF IndInv
<1>6. /\ piecesCompleted \in Nat /\ NumPieces \in Nat /\ MinPieces \in Nat
      /\ Cardinality(Unused(pieceUsage)) \in Nat /\ workersRemaining \in Nat
      /\ memoryReleased \in Nat /\ returned \in Nat
      /\ pieceUsage \in [Pieces -> BOOLEAN]
  BY CountTypes DEF IndInv, Types
<1>7. /\ pieceUsage' \in [Pieces -> BOOLEAN]
      /\ Cardinality(Unused(pieceUsage')) = Cardinality(Unused(pieceUsage)) + 1
  BY <1>1, <1>2, <1>6, GivePiece
<1>8. Types'
  BY <1>1, <1>2, <1>4, <1>6, <1>7 DEF IndInv, Types
<1>9. Before'
  BY <1>1, <1>2 DEF Before
<1>10. Responsible'
  BY <1>1, <1>5 DEF IndInv, Responsible
<1>11. OwnedOnce'
  BY <1>1, <1>3, <1>5 DEF IndInv, OwnedOnce, Idle
<1>12. PICK u \in Nat : u = Cardinality(Unused(pieceUsage)) /\ Cardinality(Unused(pieceUsage')) = u + 1
  BY <1>6, <1>7
<1>13. Surplus'
  <2>1. Freed = NumPieces - u - piecesCompleted - piecesRegistered
    BY <1>12 DEF Freed
  <2>2. Freed' = NumPieces - (u + 1) - piecesCompleted - (piecesRegistered - 1)
    BY <1>1, <1>12 DEF Freed
  <2>3. Freed' = Freed
    BY <1>2, <1>6, <2>1, <2>2
  <2>4. Freed >= 0 /\ (Freed > 0 => u >= workersRemaining)
    BY <1>12 DEF IndInv, Surplus
  <2>5. Freed' > 0 => u + 1 >= workersRemaining'
    BY <1>1, <1>6, <2>3, <2>4
  <2> QED BY <1>1, <1>2, <1>12, <2>3, <2>4, <2>5 DEF Surplus
<1>14. MemoryCounted'
  <2>1. /\ memoryReleased = MemoryNeeded - u - piecesRegistered
        /\ returned + Pending(MemWt, todo) = memoryReleased
    BY <1>2, <1>12 DEF IndInv, MemoryCounted
  <2>2. MemoryNeeded \in Nat
    BY <1>6 DEF MemoryNeeded
  <2>3. memoryReleased' = MemoryNeeded - (u + 1) - piecesRegistered'
    BY <1>1, <1>2, <2>1, <2>2
  <2>4. returned' + Pending(MemWt, todo') = memoryReleased'
    BY <1>1, <1>5, <1>6, <2>1
  <2> QED BY <1>1, <1>2, <1>12, <2>3, <2>4 DEF MemoryCounted
<1>15. Closing'
  BY <1>1, <1>2, <1>5 DEF IndInv, Closing
<1>16. UploadsDistinct'
  <2>1. UploadsApart
    BY UploadsPointwise DEF IndInv
  <2>2. piecesRegistered' = Cardinality(Active')
    BY <1>1, <1>2, <1>4
  <2>3. \A v, x \in Workers : uploading'[v] # 0 /\ uploading'[v] = uploading'[x] => v = x
    BY <1>4, <2>1 DEF UploadsApart
  <2>4. ASSUME NEW v \in Workers, uploading'[v] # 0
        PROVE  pieceUsage'[uploading'[v]]
    <3>1. v # w /\ uploading'[v] = uploading[v] /\ uploading[v] # 0
      BY <1>4, <2>4
    <3>2. uploading[v] # i /\ pieceUsage[uploading[v]]
      BY <1>1, <2>1, <3>1 DEF UploadsApart
    <3>3. uploading[v] \in Pieces
      BY <3>1, UploadRuns
    <3> HIDE DEF i
    <3> QED BY <1>1, <1>6, <3>1, <3>2, <3>3
  <2>5. UploadsApart'
    BY <2>2, <2>3, <2>4 DEF UploadsApart
  <2> QED BY <2>5, UploadsPointwiseNext
<1>17. AvailableIsRecoverable'
  BY <1>1 DEF IndInv, AvailableIsRecoverable
<1> QED BY <1>4, <1>8, <1>9, <1>10, <1>11, <1>13, <1>14, <1>15, <1>16, <1>17 DEF IndInv

LEMMA WeighsPlain ==
    ASSUME NEW cs, NEW c \in Nat, NEW m \in Nat, Weighs(cs, 0 + 0, c + 0, 0 + m)
    PROVE  Weighs(cs, 0, c, m)
BY DEF Weighs

\* The calls that a cleanup leads to.
LEMMA LoadsCleanUpCalls ==
    ASSUME NEW keeps \in BOOLEAN, NEW closes \in BOOLEAN, NEW n \in 0 .. NumPieces, NEW cs,
           cs = (IF keeps THEN <<NotifyCall>> ELSE <<>>)
                  \o (IF closes THEN <<CloseCall>> ELSE <<>>)
                  \o (IF n > 0 THEN <<ReturnCall(n)>> ELSE <<>>)
    PROVE  /\ Weighs(cs, 0, IF closes THEN 1 ELSE 0, n)
           /\ Idle(cs) /\ cs \in Seq(PlainCalls)
<1> DEFINE a == IF keeps THEN <<NotifyCall>> ELSE <<>>
           b == IF closes THEN <<CloseCall>> ELSE <<>>
           d == IF n > 0 THEN <<ReturnCall(n)>> ELSE <<>>
           x == IF closes THEN 1 ELSE 0
<1>1. Weighs(a, 0, 0, 0) /\ Idle(a) /\ a \in Seq(PlainCalls)
  BY LoadsNone, LoadsNotify
<1>2. Weighs(b, 0, x, 0) /\ Idle(b) /\ b \in Seq(PlainCalls) /\ x \in Nat
  BY LoadsNone, LoadsClose
<1>3. Weighs(d, 0, 0, n) /\ Idle(d) /\ d \in Seq(PlainCalls) /\ n \in Nat
  <2>1. n \in Nat
    BY PiecesAssumption
  <2>2. CASE n > 0
    BY <2>1, <2>2, LoadsReturn
  <2>3. CASE ~(n > 0)
    <3>1. n = 0
      BY <2>1, <2>3
    <3> QED BY <2>3, <3>1, LoadsNone
  <2> QED BY <2>1, <2>2, <2>3
<1>4. cs = (a \o b) \o d
  OBVIOUS
<1> HIDE DEF a, b, d, x
<1>5. Weighs(a \o b, 0 + 0, 0 + x, 0 + 0) /\ Idle(a \o b) /\ a \o b \in Seq(PlainCalls)
  BY <1>1, <1>2, ConcatLoads, ConcatProperties
<1>6. Weighs(a \o b, 0, x, 0)
  BY <1>2, <1>5
<1>7. /\ Weighs((a \o b) \o d, 0 + 0, x + 0, 0 + n) /\ Idle((a \o b) \o d)
      /\ (a \o b) \o d \in Seq(PlainCalls)
  BY <1>3, <1>5, <1>6, ConcatLoads, ConcatProperties
<1>8. Weighs(cs, 0, x, n) /\ Idle(cs) /\ cs \in Seq(PlainCalls)
  <2>1. Weighs(cs, 0 + 0, x + 0, 0 + n) /\ Idle(cs) /\ cs \in Seq(PlainCalls)
    BY <1>4, <1>7
  <2>2. Weighs(cs, 0, x, n)
    BY <1>2, <1>3, <2>1, WeighsPlain
  <2> QED BY <2>1, <2>2
<1> QED BY <1>8 DEF x

\* A complete chunk has no piece left that a cleanup would keep.
LEMMA CompleteKeepsNone ==
    ASSUME IndInv, chunkComplete
    PROVE  Kept = {}
<1>1. /\ Kept \subseteq Unused(pieceUsage)
      /\ workersRemaining = 0 => Kept = {}
  BY KeptFacts DEF IndInv
<1>2. ASSUME piecesCompleted = NumPieces PROVE Unused(pieceUsage) = {}
  <2>1. PICK u \in Nat : u = Cardinality(Unused(pieceUsage))
    BY CountTypes DEF IndInv
  <2>2. NumPieces \in Nat /\ NumPieces - u - NumPieces - 0 >= 0
    BY <1>2, <2>1, PiecesFinite DEF IndInv, Surplus, Freed, chunkComplete
  <2>3. u = 0
    BY <2>2
  <2> QED BY <2>1, <2>3, UnusedFacts DEF IndInv, Types
<1> QED BY <1>1, <1>2 DEF chunkComplete

LEMMA CleanUpStep ==
    ASSUME IndInv, NEW t \in Threads, managedCleanUpUploadChunk(t)
    PROVE  IndInv'
<1> DEFINE name == "managedCleanUpUploadChunk"
           surplus == Unused(pieceUsage) \ Kept
           size == Cardinality(surplus)
           keeps == Kept # {}
           cs == (IF keeps THEN <<NotifyCall>> ELSE <<>>)
                   \o (IF Releases THEN <<CloseCall>> ELSE <<>>)
                   \o (IF size > 0 THEN <<ReturnCall(size)>> ELSE <<>>)
<1>1. /\ At(t, name) /\ GoOn(t, cs)
      /\ memoryReleased' = memoryReleased + size
      /\ UNCHANGED <<piecesCompleted, piecesRegistered, workersRemaining,
                     workersStandby, unusedHosts, returned, repairing, freed,
                     stage, queued, terminated, uploading>>
  BY DEF managedCleanUpUploadChunk, workerVars
<1>2. /\ available' = (available \/ Reached \/ Releases)
      /\ failed' = (failed \/ (Releases /\ ~available /\ ~Reached))
      /\ uploadComplete' = (uploadComplete \/ chunkComplete)
      /\ released' = (released \/ chunkComplete)
  BY DEF managedCleanUpUploadChunk
<1>3. pieceUsage' = [i \in Pieces |-> pieceUsage[i] \/ i \in surplus]
  BY DEF managedCleanUpUploadChunk
<1>4. /\ Kept \subseteq Unused(pieceUsage)
      /\ Cardinality(Kept) \in Nat
      /\ surplus # {} => Cardinality(Kept) >= workersRemaining
      /\ size = Cardinality(Unused(pieceUsage)) - Cardinality(Kept)
      /\ size \in 0 .. NumPieces
      /\ IsFiniteSet(surplus)
  <2>1. /\ Kept \subseteq Unused(pieceUsage)
        /\ Cardinality(Kept) \in Nat
        /\ surplus # {} => Cardinality(Kept) >= workersRemaining
        /\ size = Cardinality(Unused(pieceUsage)) - Cardinality(Kept)
        /\ size \in 0 .. NumPieces
    BY KeptFacts DEF IndInv
  <2>2. IsFiniteSet(Unused(pieceUsage))
    BY UnusedFacts DEF IndInv, Types
  <2>3. IsFiniteSet(surplus)
    BY <2>2, FS_Difference
  <2> QED BY <2>1, <2>3
<1>5. size = 0 => surplus = {}
  <2> HIDE DEF surplus
  <2> QED BY <1>4, FS_EmptySet
<1>6. /\ released \in BOOLEAN /\ available \in BOOLEAN /\ failed \in BOOLEAN
      /\ uploadComplete \in BOOLEAN /\ pieceUsage \in [Pieces -> BOOLEAN]
      /\ memoryReleased \in Nat /\ returned \in Nat
  BY DEF IndInv, Types
<1>7. /\ pieceUsage' \in [Pieces -> BOOLEAN] /\ Unused(pieceUsage') = Kept
      /\ \A i \in Pieces : pieceUsage[i] => pieceUsage'[i]
  <2>1. /\ pieceUsage' \in [Pieces -> BOOLEAN]
        /\ \A i \in Pieces : pieceUsage'[i] <=> (pieceUsage[i] \/ i \in surplus)
    BY <1>3, <1>6
  <2>2. \A i : i \in Unused(pieceUsage') <=> i \in Kept
    BY <1>4, <2>1 DEF Unused
  <2> QED BY <2>1, <2>2
<1>8. stage = "distributed"
  BY <1>1, EarlyCalls DEF IndInv
<1>9. Releases \in BOOLEAN /\ keeps \in BOOLEAN
  BY DEF Releases, chunkComplete
<1>10. /\ Weighs(cs, 0, IF Releases THEN 1 ELSE 0, size)
       /\ Idle(cs) /\ cs \in Seq(PlainCalls) /\ cs \in Seq(CallSet)
  <2>1. /\ Weighs(cs, 0, IF Releases THEN 1 ELSE 0, size)
        /\ Idle(cs) /\ cs \in Seq(PlainCalls)
    <3> HIDE DEF size, keeps
    <3> QED BY <1>4, <1>9, LoadsCleanUpCalls
  <2> HIDE DEF cs
  <2> QED BY <2>1 DEF Weighs
<1> HIDE DEF cs, size, surplus, keeps
<1>11. todo[t] # <<>>
  BY <1>1 DEF At
<1>12. Stacks' /\ Control'
  BY <1>1, <1>10, <1>11, GoOnStacks, GoOnControl DEF IndInv
<1>13. PICK x \in {0, 1} :
         /\ x = IF Releases THEN 1 ELSE 0
         /\ Pending(RespWt, todo') = Pending(RespWt, todo) + 0 - 0
         /\ Pending(CloseWt, todo') = Pending(CloseWt, todo) + x - 0
         /\ Pending(MemWt, todo') = Pending(MemWt, todo) + size - 0
         /\ Pending(RespWt, todo) \in Nat /\ Pending(CloseWt, todo) \in Nat
         /\ Pending(MemWt, todo) \in Nat
  <2>1. PICK x \in {0, 1} : x = IF Releases THEN 1 ELSE 0
    OBVIOUS
  <2>2. Weighs(cs, 0, x, size)
    BY <1>10, <2>1
  <2>3. /\ Pending(RespWt, todo') = Pending(RespWt, todo) + 0 - 0
        /\ Pending(CloseWt, todo') = Pending(CloseWt, todo) + x - 0
        /\ Pending(MemWt, todo') = Pending(MemWt, todo) + size - 0
        /\ Pending(RespWt, todo) \in Nat /\ Pending(CloseWt, todo) \in Nat
        /\ Pending(MemWt, todo) \in Nat
    BY <1>1, <2>2, GoOnCounts DEF IndInv
  <2> QED BY <2>1, <2>3
<1>14. /\ piecesCompleted \in Nat /\ piecesRegistered \in Nat /\ workersRemaining \in Nat
       /\ NumPieces \in Nat /\ MinPieces \in Nat
       /\ Cardinality(Unused(pieceUsage)) \in Nat
  BY CountTypes DEF IndInv
<1>15. size \in Nat
  BY <1>4, <1>14
<1>16. Types'
  <2>1. /\ available' \in BOOLEAN /\ failed' \in BOOLEAN
        /\ uploadComplete' \in BOOLEAN /\ released' \in BOOLEAN
    BY <1>2
  <2>2. memoryReleased' \in Nat
    BY <1>1, <1>6, <1>15
  <2> QED BY <1>1, <1>7, <2>1, <2>2 DEF IndInv, Types
<1>17. Before'
  BY <1>1, <1>8 DEF Before
<1>18. Responsible'
  BY <1>1, <1>13 DEF IndInv, Responsible
<1>19. OwnedOnce'
  BY <1>1, <1>10, GoOnOwned DEF IndInv
<1>20. PICK u \in Nat : u = Cardinality(Unused(pieceUsage))
  BY <1>14
<1>21. PICK k \in Nat : k = Cardinality(Kept)
  BY <1>4
<1>22. size = u - k /\ Cardinality(Unused(pieceUsage')) = k
  BY <1>4, <1>7, <1>20, <1>21
<1>23. Surplus'
  <2>1. Freed = NumPieces - u - piecesCompleted - piecesRegistered
    BY <1>20 DEF Freed
  <2>2. Freed' = NumPieces - k - piecesCompleted - piecesRegistered
    BY <1>1, <1>22 DEF Freed
  <2>3. Freed' = Freed + size /\ Freed \in Int
    BY <1>14, <1>22, <2>1, <2>2
  <2>4. Freed >= 0 /\ (Freed > 0 => u >= workersRemaining)
    BY <1>20 DEF IndInv, Surplus
  <2>5. ASSUME Freed' > 0 PROVE k >= workersRemaining
    <3>1. CASE size = 0
      BY <1>22, <2>3, <2>4, <2>5, <3>1
    <3>2. CASE size # 0
      <4>1. surplus # {}
        BY <3>2, FS_EmptySet DEF size
      <4> QED BY <1>4, <1>21, <4>1
    <3> QED BY <3>1, <3>2
  <2>6. Freed' >= 0
    BY <1>15, <2>3, <2>4
  <2> QED BY <1>1, <1>8, <1>22, <2>5, <2>6 DEF Surplus
<1>24. MemoryCounted'
  <2>1. /\ memoryReleased = MemoryNeeded - u - piecesRegistered
        /\ returned + Pending(MemWt, todo) = memoryReleased
    BY <1>8, <1>20 DEF IndInv, MemoryCounted
  <2>2. MemoryNeeded \in Nat
    BY <1>14 DEF MemoryNeeded
  <2>3. memoryReleased' = MemoryNeeded - k - piecesRegistered'
    BY <1>1, <1>14, <1>22, <2>1, <2>2
  <2>4. returned' + Pending(MemWt, todo') = memoryReleased'
    BY <1>1, <1>6, <1>13, <1>15, <2>1
  <2> QED BY <1>1, <1>8, <1>22, <2>3, <2>4 DEF MemoryCounted
<1>25. Closing'
  <2>1. /\ Pending(CloseWt, todo) + (IF repairing THEN 0 ELSE 1) = (IF released THEN 1 ELSE 0)
        /\ freed => released
        /\ released => /\ piecesRegistered = 0
                       /\ Unused(pieceUsage) = {}
                       /\ piecesCompleted = NumPieces \/ workersRemaining = 0
    BY DEF IndInv, Closing
  <2>2. Releases <=> chunkComplete /\ ~released
    BY DEF Releases
  <2>3. Pending(CloseWt, todo') + (IF repairing THEN 0 ELSE 1) = (IF released' THEN 1 ELSE 0)
    <3>1. PICK p \in Nat : p = Pending(CloseWt, todo) /\ Pending(CloseWt, todo') = p + x
      BY <1>13
    <3>2. PICK q \in Nat : q = IF repairing THEN 0 ELSE 1
      OBVIOUS
    <3>3. p + q = IF released THEN 1 ELSE 0
      BY <2>1, <3>1, <3>2
    <3>4. x = IF chunkComplete /\ ~released THEN 1 ELSE 0
      BY <1>13, <2>2
    <3>5. p + x + q = IF released \/ chunkComplete THEN 1 ELSE 0
      <4>1. CASE released
        BY <3>3, <3>4, <4>1
      <4>2. CASE ~released /\ chunkComplete
        BY <3>3, <3>4, <4>2
      <4>3. CASE ~released /\ ~chunkComplete
        BY <3>3, <3>4, <4>3
      <4> QED BY <4>1, <4>2, <4>3
    <3> QED BY <1>2, <3>1, <3>2, <3>5
  <2>4. chunkComplete => /\ piecesRegistered = 0
                         /\ piecesCompleted = NumPieces \/ workersRemaining = 0
                         /\ Kept = {}
    BY CompleteKeepsNone DEF chunkComplete
  <2>5. released' => /\ piecesRegistered = 0
                     /\ piecesCompleted = NumPieces \/ workersRemaining = 0
                     /\ Unused(pieceUsage') = {}
    BY <1>2, <1>4, <1>7, <2>1, <2>4
  <2>6. freed' => released'
    BY <1>1, <1>2, <2>1
  <2> QED BY <1>1, <2>3, <2>5, <2>6 DEF Closing
<1>26. UploadsDistinct'
  <2>1. UploadsApart
    BY UploadsPointwise DEF IndInv
  <2>2. Active' = Active
    BY <1>1 DEF Active
  <2>3. ASSUME NEW v \in Workers, uploading[v] # 0
        PROVE  pieceUsage'[uploading[v]]
    BY <1>7, <2>3, UploadRuns
  <2>4. UploadsApart'
    BY <1>1, <2>1, <2>2, <2>3 DEF UploadsApart
  <2> QED BY <2>4, UploadsPointwiseNext
<1>27. AvailableIsRecoverable'
  <2>1. available /\ ~failed => piecesCompleted >= MinPieces
    BY DEF IndInv, AvailableIsRecoverable
  <2>2. Reached => piecesCompleted >= MinPieces
    BY DEF Reached
  <2>3. available' /\ ~failed' => piecesCompleted >= MinPieces
    BY <1>2, <2>1, <2>2
  <2> QED BY <1>1, <2>3 DEF AvailableIsRecoverable
<1> QED BY <1>12, <1>16, <1>17, <1>18, <1>19, <1>23, <1>24, <1>25, <1>26, <1>27 DEF IndInv

LEMMA NextInv == IndInv /\ [Next]_vars => IndInv'
<1> SUFFICES ASSUME IndInv, [Next]_vars PROVE IndInv'
  OBVIOUS
<1>1. CASE ChunkStep
  BY <1>1, FetchOkStep, FetchFailsStep, DistributeStep DEF ChunkStep
<1>2. ASSUME NEW t \in Threads, ThreadStep(t) PROVE IndInv'
  BY <1>2, QueueUploadStep, DropChunkStep, DropUploadChunksStep, NotifyStep,
     CleanUpStep, CloseStep, ReturnStep DEF ThreadStep
<1>3. ASSUME NEW w \in Workers, JobStep(w) PROVE IndInv'
  BY <1>3, PerformStep, ProcessDropsStep, StandsByStep, RegisterStep,
     SucceedsStep, FailedStep DEF JobStep
<1>4. ASSUME NEW w \in Workers, managedKillUploading(w) PROVE IndInv'
  BY <1>4, KillStep
<1>5. CASE UNCHANGED vars
  <2>1. UNCHANGED <<pieceUsage, piecesCompleted, piecesRegistered, workersRemaining,
                    workersStandby, unusedHosts, memoryReleased, returned, released,
                    failed, available, uploadComplete, repairing, freed, stage,
                    queued, terminated, uploading, todo>>
    BY <1>5 DEF vars, chunkVars, memoryVars, endVars, workerVars
  <2>2. Types' /\ Stacks' /\ Control' /\ Before'
    BY <2>1 DEF IndInv, Types, Stacks, Control, Before
  <2>3. Responsible' /\ OwnedOnce' /\ Surplus' /\ MemoryCounted' /\ Closing'
    BY <2>1 DEF IndInv, Responsible, OwnedOnce, Surplus, Freed, MemoryCounted, Closing
  <2>4. UploadsDistinct' /\ AvailableIsRecoverable'
    BY <2>1 DEF IndInv, UploadsDistinct, AvailableIsRecoverable
  <2> QED BY <2>2, <2>3, <2>4 DEF IndInv
<1> QED BY <1>1, <1>2, <1>3, <1>4, <1>5 DEF Next

\* The inductive invariant holds in every state that the chunk can reach.
THEOREM Inductive == Spec => []IndInv
<1>1. Init => IndInv
  BY InitInv
<1>2. IndInv /\ [Next]_vars => IndInv'
  BY NextInv
<1> QED BY <1>1, <1>2, PTL DEF Spec

-----------------------------------------------------------------------------
(* What follows from it. *)

\* The calls that Calls counts are the ones that weigh.
LEMMA CallsWeigh ==
    ASSUME Stacks
    PROVE  /\ Calls({"callQueueUploadChunk", "managedDropChunk",
                     "managedProcessUploadChunk"}) = Pending(RespWt, todo)
           /\ Calls({"Close"}) = Pending(CloseWt, todo)
<1>1. ASSUME NEW names, NEW wt \in [CallSet -> Nat],
             \A c \in CallSet : wt[c] = IF c[1] \in names THEN 1 ELSE 0
      PROVE  Calls(names) = Pending(wt, todo)
  <2>1. ASSUME NEW t \in Threads
        PROVE  Cardinality({i \in DOMAIN todo[t] : todo[t][i][1] \in names}) = Load(wt, todo[t])
    <3>1. todo[t] \in Seq(CallSet)
      BY DEF Stacks
    <3>2. DOMAIN todo[t] = 1 .. Len(todo[t]) /\ \A i \in 1 .. Len(todo[t]) : todo[t][i] \in CallSet
      BY <3>1, LenProperties, ElementOfSeq
    <3>3. \A i \in 1 .. Len(todo[t]) :
            /\ wt[todo[t][i]] \in {0, 1}
            /\ wt[todo[t][i]] = 1 <=> todo[t][i][1] \in names
      BY <1>1, <3>2
    <3>4. Load(wt, todo[t]) = Cardinality({i \in 1 .. Len(todo[t]) : wt[todo[t][i]] = 1})
      BY <3>1, <3>3, LoadCounts
    <3>5. {i \in 1 .. Len(todo[t]) : wt[todo[t][i]] = 1}
            = {i \in DOMAIN todo[t] : todo[t][i][1] \in names}
      BY <3>2, <3>3
    <3> QED BY <3>4, <3>5
  <2>2. [t \in Threads |-> Cardinality({i \in DOMAIN todo[t] : todo[t][i][1] \in names})]
          = [t \in Threads |-> Load(wt, todo[t])]
    BY <2>1
  <2> QED BY <2>2 DEF Calls, Pending
<1>2. RespWt \in [CallSet -> Nat] /\ CloseWt \in [CallSet -> Nat]
  BY WeightTypes
<1>3. \A c \in CallSet :
        RespWt[c] = IF c[1] \in {"callQueueUploadChunk", "managedDropChunk",
                                 "managedProcessUploadChunk"} THEN 1 ELSE 0
  BY DEF RespWt
<1>4. \A c \in CallSet : CloseWt[c] = IF c[1] \in {"Close"} THEN 1 ELSE 0
  BY DEF CloseWt
<1>5. Calls({"callQueueUploadChunk", "managedDropChunk",
             "managedProcessUploadChunk"}) = Pending(RespWt, todo)
  BY <1>1, <1>2, <1>3
<1>6. Calls({"Close"}) = Pending(CloseWt, todo)
  BY <1>1, <1>2, <1>4
<1> QED BY <1>5, <1>6

LEMMA TypesFollow == IndInv => TypeOK
<1> SUFFICES ASSUME IndInv PROVE TypeOK
  OBVIOUS
<1>1. PICK u \in Nat : u = Cardinality(Unused(pieceUsage)) /\ u <= NumPieces
  BY CountTypes DEF IndInv
<1>2. /\ piecesCompleted \in Nat /\ piecesRegistered \in Nat
      /\ NumPieces \in Nat /\ MinPieces \in Nat
      /\ memoryReleased \in Nat /\ returned \in Nat
  BY CountTypes DEF IndInv, Types
<1>3. NumPieces - u - piecesCompleted - piecesRegistered >= 0
  BY <1>1 DEF IndInv, Surplus, Freed
<1>4. piecesCompleted \in 0 .. NumPieces /\ piecesRegistered \in 0 .. NumPieces
  BY <1>2, <1>3
<1>5. /\ memoryReleased = (IF stage = "fetching" THEN 0 ELSE MemoryNeeded - u - piecesRegistered)
      /\ returned + Pending(MemWt, todo) = memoryReleased
  BY <1>1 DEF IndInv, MemoryCounted
<1>6. Pending(MemWt, todo) \in Nat
  BY WeightTypes, PendingType DEF IndInv, Stacks
<1>7. MemoryNeeded \in Nat
  BY <1>2 DEF MemoryNeeded
<1>8. memoryReleased \in 0 .. MemoryNeeded /\ returned \in 0 .. MemoryNeeded
  <2>1. memoryReleased <= MemoryNeeded
    BY <1>2, <1>5, <1>7
  <2>2. returned <= memoryReleased
    BY <1>2, <1>5, <1>6
  <2> QED BY <1>2, <1>7, <2>1, <2>2
<1>9. queued \in [Workers -> 0 .. 1]
  <2>1. queued \in [Workers -> Nat]
    BY DEF IndInv, Types
  <2>2. ASSUME NEW w \in Workers PROVE queued[w] \in 0 .. 1
    <3>1. /\ Load(SelfWt(w), workersStandby) \in Nat
          /\ Pending(OwnWt(w), todo) \in Nat
      BY WeightTypes, LoadType, PendingType DEF IndInv, Types, Stacks
    <3>2. queued[w] + Load(SelfWt(w), workersStandby) + Pending(OwnWt(w), todo) <= 1
      BY DEF IndInv, OwnedOnce
    <3> QED BY <2>1, <3>1, <3>2
  <2> QED BY <2>1, <2>2
<1>10. DOMAIN todo = Threads
  BY DEF IndInv, Stacks
<1>11. {released, failed, available, uploadComplete, repairing, freed} \subseteq BOOLEAN
  BY DEF IndInv, Types
<1> QED BY <1>4, <1>8, <1>9, <1>10, <1>11 DEF IndInv, Types, TypeOK

LEMMA ResponsibilityFollows == IndInv => ResponsibilityCounted
BY CallsWeigh DEF IndInv, Responsible, ResponsibilityCounted

LEMMA HelperFollows == IndInv => HelperFindsPiece
<1> SUFFICES ASSUME IndInv, NEW w \in Workers, At(Job(w), "managedProcessUploadChunk"), NeedsHelp
             PROVE  Unused(pieceUsage) # {}
  BY DEF HelperFindsPiece
<1>1. Pending(RespWt, todo) \in Nat /\ Pending(RespWt, todo) >= 1
  BY ProcessAlone DEF IndInv
<1>2. /\ workersRemaining = Total(queued) + Len(workersStandby) + Pending(RespWt, todo)
      /\ Total(queued) \in Nat /\ Len(workersStandby) \in Nat /\ workersRemaining \in Nat
  BY CountTypes DEF IndInv, Responsible
<1>3. workersRemaining >= 1
  BY <1>1, <1>2
<1>4. PICK u \in Nat : u = Cardinality(Unused(pieceUsage))
  BY CountTypes DEF IndInv
<1>5. piecesCompleted \in Nat /\ piecesRegistered \in Nat /\ NumPieces \in Nat
  BY CountTypes DEF IndInv
<1>6. Freed = NumPieces - u - piecesCompleted - piecesRegistered
  BY <1>4 DEF Freed
<1>7. Freed >= 0 /\ (Freed > 0 => u >= workersRemaining)
  BY <1>4 DEF IndInv, Surplus
<1>8. NumPieces > piecesCompleted + piecesRegistered
  BY DEF NeedsHelp
<1>9. u # 0
  BY <1>2, <1>3, <1>5, <1>6, <1>7, <1>8
<1> QED BY <1>4, <1>9, FS_EmptySet

LEMMA MemoryFollows == IndInv => AllMemoryReleased
<1> SUFFICES ASSUME IndInv, released PROVE memoryReleased = MemoryNeeded
  BY DEF AllMemoryReleased
<1>1. stage = "distributed" /\ piecesRegistered = 0 /\ Unused(pieceUsage) = {}
  BY DEF IndInv, Before, Closing
<1>2. Cardinality(Unused(pieceUsage)) = 0
  BY <1>1, FS_EmptySet
<1>3. memoryReleased = MemoryNeeded - 0 - 0
  BY <1>1, <1>2 DEF IndInv, MemoryCounted
<1>4. MemoryNeeded \in Nat
  BY PiecesAssumption DEF MemoryNeeded
<1> QED BY <1>3, <1>4

LEMMA ClosedFollows == IndInv => ClosedOnce
BY CallsWeigh DEF IndInv, Closing, ClosedOnce

LEMMA FreedFollows == IndInv => FreedUntouched
BY NoneRegistered DEF IndInv, Closing, FreedUntouched

\* Every variable keeps the type of the field it models.  In particular no
\* counter of unfinishedUploadChunk goes below zero or above what it counts,
\* no more memory is given back than was asked for, and no worker has the
\* chunk in its queue twice, whatever drops, wakes, kills and cleanups do.
THEOREM TypeCorrect == Spec => []TypeOK
BY Inductive, TypesFollow, PTL

\* workersRemaining counts exactly the workers that are still responsible for
\* the chunk: callQueueUploadChunk, managedDropChunk, the standby list and
\* managedProcessUploadChunk hand the responsibility on without losing or
\* doubling it.
THEOREM ResponsibilityIsCounted == Spec => []ResponsibilityCounted
BY Inductive, ResponsibilityFollows, PTL

\* A worker that managedProcessUploadChunk finds needed always finds an unused
\* piece: the Critical of that function is never reached.
THEOREM HelperAlwaysFindsPiece == Spec => []HelperFindsPiece
BY Inductive, HelperFollows, PTL

\* No two workers upload the same piece, and piecesRegistered counts the
\* uploads that run, although managedUploadFailed gives pieces back and
\* managedCleanUpUploadChunk takes pieces out of use.
THEOREM UploadsAreDistinct == Spec => []UploadsDistinct
<1>1. IndInv => UploadsDistinct
  BY DEF IndInv
<1> QED BY Inductive, <1>1, PTL

\* A chunk that managedCleanUpUploadChunk calls complete has released exactly
\* the memory it asked for: the Critical about unreleased memory is never
\* reached.
THEOREM MemoryIsReleased == Spec => []AllMemoryReleased
BY Inductive, MemoryFollows, PTL

\* Exactly one cleanup closes a completed chunk: the file entry is closed and
\* the chunk leaves repairingChunks once.
THEOREM ChunkClosedOnce == Spec => []ClosedOnce
BY Inductive, ClosedFollows, PTL

\* Once physicalChunkData was set to nil no upload reads it and no cleanup
\* has a piece to free in it.
THEOREM FreedIsUntouched == Spec => []FreedUntouched
BY Inductive, FreedFollows, PTL

\* Whoever waits for staticAvailableChan and sees no error has a recoverable
\* chunk: the channel closes without an error only with enough pieces uploaded.
THEOREM AvailableMeansRecoverable == Spec => []AvailableIsRecoverable
<1>1. IndInv => AvailableIsRecoverable
  BY DEF IndInv
<1> QED BY Inductive, <1>1, PTL

=============================================================================
