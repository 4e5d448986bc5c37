------------------------- MODULE MemoryManagerProofs -------------------------
(***************************************************************************)
(* TLAPS proofs about MemoryManager, for every set of requests, base,      *)
(* reserve and set of amounts.                                             *)
(***************************************************************************)
EXTENDS MemoryManager, TotalsProofs, SequenceTheorems

\* A queued request has not been served and its caller was not told so.
QueuedWaits ==
    \A p \in Priorities : \A i \in 1..Len(queue[p]) :
        pc[queue[p][i]] \in {"blocked", "canceling", "failed"}

\* Memory is taken only for a request that was made.
HoldersCalled == \A r \in Requests : held[r] > 0 => pc[r] # "idle"

\* Return works on the low priority queue once the other one is empty.
HighDrainedFirst == mu = "low" => queue["high"] = <<>>

\* Nothing is queued while all memory is available, except during Return.
QueueBlocks ==
    mu = "free" /\ (\E p \in Priorities : queue[p] # <<>>) => available < Base

\* The inductive invariant.
IndInv == /\ TypeOK
          /\ Conservation
          /\ QueuedOnce
          /\ QueuedWaits
          /\ HoldersCalled
          /\ HighDrainedFirst
          /\ QueueBlocks

-----------------------------------------------------------------------------
(* The operations on the queues, position by position. *)

LEMMA BumpedPositions ==
    ASSUME queue \in [Priorities -> Seq(Requests)],
           NEW n \in 0..Len(queue["low"])
    PROVE  /\ Bumped(n) \in [Priorities -> Seq(Requests)]
           /\ Len(Bumped(n)["low"]) = Len(queue["low"]) - n
           /\ Len(Bumped(n)["high"]) = Len(queue["high"]) + n
           /\ \A i \in 1..Len(Bumped(n)["low"]) :
                Bumped(n)["low"][i] = queue["low"][i + n]
           /\ \A i \in 1..Len(Bumped(n)["high"]) :
                Bumped(n)["high"][i] = IF i <= Len(queue["high"])
                                       THEN queue["high"][i]
                                       ELSE queue["low"][i - Len(queue["high"])]
<1> DEFINE low == queue["low"]
           high == queue["high"]
           back == SubSeq(low, n + 1, Len(low))
           front == SubSeq(low, 1, n)
<1>1. low \in Seq(Requests) /\ high \in Seq(Requests)
  BY DEF Priorities
<1>2. Len(low) \in Nat /\ Len(high) \in Nat /\ n \in Nat /\ n <= Len(low)
  BY <1>1
<1>3. \A i \in 1..Len(low) : low[i] \in Requests
  BY <1>1
<1> HIDE DEF low, high
<1>4. /\ back \in Seq(Requests)
      /\ Len(back) = Len(low) - n
      /\ \A i \in 1..(Len(low) - n) : back[i] = low[i + n]
  <2>1. \A i \in (n+1)..Len(low) : low[i] \in Requests
    BY <1>2, <1>3
  <2> QED BY <1>2, <2>1, SubSeqProperties
<1>5. /\ front \in Seq(Requests)
      /\ Len(front) = n
      /\ \A i \in 1..n : front[i] = low[i]
  <2>1. \A i \in 1..n : low[i] \in Requests
    BY <1>2, <1>3
  <2> QED BY <1>2, <2>1, SubSeqProperties
<1> HIDE DEF back, front
<1>6. /\ high \o front \in Seq(Requests)
      /\ Len(high \o front) = Len(high) + n
      /\ \A i \in 1..(Len(high) + n) : (high \o front)[i] =
            IF i <= Len(high) THEN high[i] ELSE front[i - Len(high)]
  BY <1>1, <1>5, ConcatProperties
<1>7. Bumped(n)["low"] = back /\ Bumped(n)["high"] = high \o front
  BY DEF Bumped, Priorities, back, front, low, high
<1>8. Bumped(n) \in [Priorities -> Seq(Requests)]
  BY <1>4, <1>6 DEF Bumped, Priorities, back, front, low, high
<1>9. \A i \in 1..(Len(high) + n) : ~(i <= Len(high)) => i - Len(high) \in 1..n
  BY <1>2
<1> QED
  BY <1>2, <1>4, <1>5, <1>6, <1>7, <1>8, <1>9 DEF low, high

LEMMA RemoveAtPositions ==
    ASSUME NEW s \in Seq(Requests), NEW k \in 1..Len(s)
    PROVE  /\ RemoveAt(s, k) \in Seq(Requests)
           /\ Len(RemoveAt(s, k)) = Len(s) - 1
           /\ \A i \in 1..(Len(s) - 1) :
                RemoveAt(s, k)[i] = IF i < k THEN s[i] ELSE s[i + 1]
<1> DEFINE a == SubSeq(s, 1, k - 1)
           b == SubSeq(s, k + 1, Len(s))
<1>1. Len(s) \in Nat /\ k \in Nat /\ 1 <= k /\ k <= Len(s)
  OBVIOUS
<1>2. \A i \in 1..Len(s) : s[i] \in Requests
  OBVIOUS
<1>3. /\ a \in Seq(Requests)
      /\ Len(a) = k - 1
      /\ \A i \in 1..(k-1) : a[i] = s[i]
  <2>1. \A i \in 1..(k-1) : s[i] \in Requests
    BY <1>1, <1>2
  <2> QED BY <1>1, <2>1, SubSeqProperties
<1>4. /\ b \in Seq(Requests)
      /\ Len(b) = Len(s) - k
      /\ \A i \in 1..(Len(s) - k) : b[i] = s[k + i]
  <2>1. \A i \in (k+1)..Len(s) : s[i] \in Requests
    BY <1>1, <1>2
  <2> QED BY <1>1, <2>1, SubSeqProperties
<1> HIDE DEF a, b
<1>5. /\ a \o b \in Seq(Requests)
      /\ Len(a \o b) = Len(s) - 1
      /\ \A i \in 1..(Len(s) - 1) :
            (a \o b)[i] = IF i <= k - 1 THEN a[i] ELSE b[i - (k - 1)]
  <2>1. Len(a) + Len(b) = Len(s) - 1
    BY <1>1, <1>3, <1>4
  <2>2. /\ a \o b \in Seq(Requests)
        /\ Len(a \o b) = Len(a) + Len(b)
        /\ \A i \in 1..(Len(a) + Len(b)) :
              (a \o b)[i] = IF i <= Len(a) THEN a[i] ELSE b[i - Len(a)]
    BY <1>3, <1>4, ConcatProperties
  <2>3. \A i \in 1..(Len(s) - 1) :
            (a \o b)[i] = IF i <= Len(a) THEN a[i] ELSE b[i - Len(a)]
    BY <2>1, <2>2
  <2> QED BY <1>3, <2>1, <2>2, <2>3
<1>6. RemoveAt(s, k) = a \o b
  BY DEF RemoveAt, a, b
<1>7. ASSUME NEW i \in 1..(Len(s) - 1)
      PROVE  RemoveAt(s, k)[i] = IF i < k THEN s[i] ELSE s[i + 1]
  <2>1. CASE i < k
    <3>1. i \in 1..(k-1) /\ i <= k - 1
      BY <1>1, <2>1
    <3> QED BY <1>3, <1>5, <1>6, <2>1, <3>1
  <2>2. CASE ~(i < k)
    <3>1. i - (k - 1) \in 1..(Len(s) - k) /\ k + (i - (k - 1)) = i + 1 /\ ~(i <= k - 1)
      BY <1>1, <2>2
    <3> QED BY <1>4, <1>5, <1>6, <2>2, <3>1
  <2> QED BY <2>1, <2>2
<1> QED
  BY <1>5, <1>6, <1>7

LEMMA TailPositions ==
    ASSUME NEW s \in Seq(Requests), s # <<>>
    PROVE  /\ Tail(s) \in Seq(Requests)
           /\ Len(s) \in Nat /\ Len(s) > 0
           /\ Len(Tail(s)) = Len(s) - 1
           /\ \A i \in 1..Len(Tail(s)) : Tail(s)[i] = s[i + 1]
           /\ Head(s) = s[1] /\ Head(s) \in Requests
BY HeadTailProperties, EmptySeq, LenProperties

-----------------------------------------------------------------------------
(* The pool. *)

\* A successful try keeps the books: this is where the underflow matters.
LEMMA TakeConserves ==
    ASSUME TypeOK, Conservation, NEW r \in Requests, NEW amount \in Nat,
           NEW p \in Priorities, Grantable(amount, p), Take(r, amount)
    PROVE  /\ available' \in 0..Base
           /\ underflow' \in Nat
           /\ held' \in [Requests -> Nat]
           /\ Conservation'
<1>1. /\ available \in 0..Base /\ underflow \in Nat
      /\ held \in [Requests -> Nat] /\ held[r] + amount \in Nat
      /\ Base \in Nat /\ Reserve \in Nat /\ held[r] \in Nat
  BY BaseAssumption, ReserveAssumption DEF TypeOK
<1>2. held' = [held EXCEPT ![r] = held[r] + amount]
  BY DEF Take
<1>3. Total(held) \in Nat
  BY <1>1, RequestsAssumption, TotalType
<1>4. Total(held') = Total(held) - held[r] + (held[r] + amount)
  BY <1>1, <1>2, RequestsAssumption, TotalExcept
<1>5. available + Total(held) = Base + underflow /\ (underflow > 0 => available = 0)
  BY DEF Conservation
<1>6. CASE amount <= available
  <2>1. available' = available - amount /\ underflow' = underflow
    BY <1>6 DEF Take
  <2>2. underflow' > 0 => available' = 0
    BY <1>1, <1>5, <1>6, <2>1
  <2> QED
    BY <1>1, <1>2, <1>3, <1>4, <1>5, <1>6, <2>1, <2>2 DEF Conservation
<1>7. CASE ~(amount <= available)
  <2>1. available = Base
    BY <1>1, <1>7 DEF Grantable
  <2>2. available' = 0 /\ underflow' = amount - Base
    BY <1>7 DEF Take
  <2>3. underflow = 0
    BY <1>1, <1>5, <2>1, BaseAssumption
  <2> QED
    BY <1>1, <1>2, <1>3, <1>4, <1>5, <1>7, <2>1, <2>2, <2>3 DEF Conservation
<1> QED
  BY <1>6, <1>7

\* A Return keeps the books, and gives back no more than was out.
LEMMA ReturnConserves ==
    ASSUME TypeOK, Conservation, NEW r \in Requests, NEW n \in 1..held[r],
           Return(r, n)
    PROVE  /\ available' \in 0..Base
           /\ underflow' \in Nat
           /\ held' \in [Requests -> Nat]
           /\ Conservation'
<1>1. /\ available \in 0..Base /\ underflow \in Nat
      /\ held \in [Requests -> Nat] /\ held[r] \in Nat
      /\ Base \in Nat /\ n \in Nat /\ n <= held[r] /\ held[r] - n \in Nat
  BY BaseAssumption DEF TypeOK
<1>2. held' = [held EXCEPT ![r] = held[r] - n]
  BY DEF Return
<1>3. Total(held) \in Nat /\ held[r] <= Total(held)
  BY <1>1, RequestsAssumption, TotalType
<1>4. Total(held') = Total(held) - held[r] + (held[r] - n)
  BY <1>1, <1>2, RequestsAssumption, TotalExcept
<1>5. available + Total(held) = Base + underflow /\ (underflow > 0 => available = 0)
  BY DEF Conservation
<1>6. CASE underflow > 0 /\ n <= underflow
  <2>1. available' = available /\ underflow' = underflow - n
    BY <1>6 DEF Return
  <2> QED
    BY <1>1, <1>2, <1>3, <1>4, <1>5, <1>6, <2>1 DEF Conservation
<1>7. CASE ~(underflow > 0 /\ n <= underflow)
  <2>1. AvailableAfter(n) \in 0..Base
    BY <1>1, <1>3, <1>5, <1>7 DEF AvailableAfter
  <2>2. available' = AvailableAfter(n) /\ underflow' = 0
    BY <1>1, <1>7, <2>1 DEF Return
  <2> QED
    BY <1>1, <1>2, <1>3, <1>4, <1>5, <1>7, <2>1, <2>2
    DEF Conservation, AvailableAfter
<1> QED
  BY <1>6, <1>7

-----------------------------------------------------------------------------
(* The inductive invariant. *)

LEMMA InitIndInv == Init => IndInv
<1> SUFFICES ASSUME Init PROVE IndInv
  OBVIOUS
<1>1. TypeOK
  <2>1. queue \in [Priorities -> Seq(Requests)]
    BY EmptySeq DEF Init
  <2>2. req \in [Requests -> MemoryRequest]
    BY DEF Init, MemoryRequest, NoRequest, NewRequest, Priorities
  <2>3. available \in 0..Base /\ underflow \in Nat /\ memSinceLowPriority \in Nat
    BY BaseAssumption DEF Init
  <2> QED
    BY <2>1, <2>2, <2>3 DEF Init, TypeOK, Priorities
<1>2. Total(held) = 0
  <2>1. held \in [Requests -> Nat] /\ \A r \in Requests : held[r] = 0
    BY DEF Init
  <2> QED BY <2>1, RequestsAssumption, TotalZero
<1>3. Conservation
  BY <1>2, BaseAssumption DEF Init, Conservation
<1>4. \A p \in Priorities : queue[p] = <<>> /\ Len(queue[p]) = 0
  BY EmptySeq DEF Init
<1>5. QueuedOnce /\ QueuedWaits /\ QueueBlocks
  BY <1>4 DEF QueuedOnce, QueuedWaits, QueueBlocks
<1>6. HoldersCalled /\ HighDrainedFirst
  BY DEF Init, HoldersCalled, HighDrainedFirst
<1> QED
  BY <1>1, <1>3, <1>5, <1>6 DEF IndInv

LEMMA RequestIndInv ==
    ASSUME IndInv, NEW r \in Requests, NEW amount \in Amounts,
           NEW p \in Priorities, Request(r, amount, p)
    PROVE  IndInv'
<1>1. PICK n \in 0..Len(queue["low"]) :
        ServeNow(r, amount, p, n) \/ Enqueue(r, amount, p, n)
  BY DEF Request
<1>2. /\ mu = "free" /\ mu' = mu /\ stopped' = stopped
      /\ pc[r] \in {"idle", "failed"} /\ held[r] = 0
      /\ req' = [req EXCEPT ![r] = NewRequest(amount, p)]
  BY DEF Request
<1>3. TypeOK /\ Conservation /\ QueuedOnce /\ QueuedWaits /\ HoldersCalled
      /\ HighDrainedFirst /\ QueueBlocks
  BY DEF IndInv
<1>4. queue \in [Priorities -> Seq(Requests)] /\ amount \in Nat
  BY <1>3, AmountsAssumption DEF TypeOK
<1>5. \A q \in Priorities : \A i \in 1..Len(queue[q]) :
         queue[q][i] \in Requests /\ queue[q][i] # r
  BY <1>4, LenProperties DEF Request, Queued, ToSet
<1> DEFINE Q == Bumped(n)
<1>6. /\ Q \in [Priorities -> Seq(Requests)]
      /\ Len(Q["low"]) = Len(queue["low"]) - n
      /\ Len(Q["high"]) = Len(queue["high"]) + n
      /\ \A i \in 1..Len(Q["low"]) : Q["low"][i] = queue["low"][i + n]
      /\ \A i \in 1..Len(Q["high"]) :
           Q["high"][i] = IF i <= Len(queue["high"]) THEN queue["high"][i]
                          ELSE queue["low"][i - Len(queue["high"])]
  BY <1>4, BumpedPositions
<1>7. /\ Len(queue["low"]) \in Nat /\ Len(queue["high"]) \in Nat
      /\ n \in Nat /\ n <= Len(queue["low"])
  BY <1>4 DEF Priorities
<1> HIDE DEF Q
\* Every position of Q stands for one of the old queues.
<1> DEFINE Src(q, i) == IF q = "low" THEN <<"low", i + n>>
                        ELSE IF i <= Len(queue["high"]) THEN <<"high", i>>
                        ELSE <<"low", i - Len(queue["high"])>>
<1> HIDE DEF Src
<1>8. \A q \in Priorities : \A i \in 1..Len(Q[q]) :
        /\ Src(q, i)[1] \in Priorities
        /\ Src(q, i)[2] \in 1..Len(queue[Src(q, i)[1]])
        /\ Q[q][i] = queue[Src(q, i)[1]][Src(q, i)[2]]
  <2> TAKE q \in Priorities
  <2> TAKE i \in 1..Len(Q[q])
  <2>1. CASE q = "low"
    <3>1. i + n \in 1..Len(queue["low"]) /\ Q["low"][i] = queue["low"][i + n]
      BY <1>6, <1>7, <2>1
    <3>2. Src(q, i)[1] = "low" /\ Src(q, i)[2] = i + n
      BY <2>1 DEF Src
    <3> QED BY <2>1, <3>1, <3>2 DEF Priorities
  <2>2. CASE q = "high" /\ i <= Len(queue["high"])
    <3>1. i \in 1..Len(queue["high"]) /\ Q["high"][i] = queue["high"][i]
      BY <1>6, <1>7, <2>2
    <3>2. Src(q, i)[1] = "high" /\ Src(q, i)[2] = i
      BY <2>2 DEF Src
    <3> QED BY <2>2, <3>1, <3>2 DEF Priorities
  <2>3. CASE q = "high" /\ ~(i <= Len(queue["high"]))
    <3> DEFINE k == i - Len(queue["high"])
    <3>0. i \in 1..Len(Q["high"]) /\ Len(Q["high"]) = Len(queue["high"]) + n
      BY <1>6, <2>3
    <3>1. k \in 1..Len(queue["low"]) /\ Q["high"][i] = queue["low"][k]
      <4>1. k \in 1..Len(queue["low"])
        BY <1>7, <2>3, <3>0
      <4>2. Q["high"][i] = IF i <= Len(queue["high"]) THEN queue["high"][i]
                           ELSE queue["low"][k]
        BY <1>6, <3>0
      <4> QED BY <2>3, <4>1, <4>2
    <3>2. Src(q, i)[1] = "low" /\ Src(q, i)[2] = k
      BY <2>3 DEF Src
    <3> HIDE DEF k
    <3> QED BY <2>3, <3>1, <3>2 DEF Priorities
  <2> QED BY <2>1, <2>2, <2>3 DEF Priorities
<1>9. \A q, s \in Priorities : \A i \in 1..Len(Q[q]), j \in 1..Len(Q[s]) :
        Src(q, i) = Src(s, j) => q = s /\ i = j
  <2> SUFFICES ASSUME NEW q \in Priorities, NEW s \in Priorities,
                      NEW i \in 1..Len(Q[q]), NEW j \in 1..Len(Q[s]),
                      Src(q, i) = Src(s, j)
               PROVE  q = s /\ i = j
    OBVIOUS
  <2> DEFINE h == Len(queue["high"])
  <2>1. ASSUME NEW x \in Priorities, NEW y \in 1..Len(Q[x])
        PROVE  /\ y \in Nat
               /\ \/ x = "low" /\ Src(x, y) = <<"low", y + n>> /\ y + n > n
                  \/ x = "high" /\ Src(x, y) = <<"high", y>>
                  \/ x = "high" /\ Src(x, y) = <<"low", y - h>> /\ ~(y - h > n)
    <3>1. CASE x = "low"
      <4>1. y \in Int /\ y >= 1
        OBVIOUS
      <4>2. y \in Nat /\ y + n > n
        BY <1>7, <4>1
      <4> QED BY <3>1, <4>2 DEF Src
    <3>2. CASE x = "high"
      <4>0. Len(Q["high"]) = h + n /\ h \in Nat
        BY <1>6, <1>7
      <4> HIDE DEF h
      <4>2. y \in 1..(h + n)
        BY <3>2, <4>0
      <4>1. y \in Nat /\ ~(y - h > n)
        BY <1>7, <4>0, <4>2
      <4> USE DEF h
      <4> QED BY <3>2, <4>1 DEF Src
    <3> QED BY <3>1, <3>2 DEF Priorities
  <2>2. i \in Nat /\ j \in Nat /\ h \in Nat /\ n \in Nat
    BY <1>7, <2>1
  <2>3. q = s
    <3>1. \/ q = "low" /\ Src(q, i)[1] = "low" /\ Src(q, i)[2] > n
          \/ q = "high" /\ Src(q, i)[1] = "high"
          \/ q = "high" /\ Src(q, i)[1] = "low" /\ ~(Src(q, i)[2] > n)
      BY <2>1
    <3>2. \/ s = "low" /\ Src(s, j)[1] = "low" /\ Src(s, j)[2] > n
          \/ s = "high" /\ Src(s, j)[1] = "high"
          \/ s = "high" /\ Src(s, j)[1] = "low" /\ ~(Src(s, j)[2] > n)
      BY <2>1
    <3> QED BY <3>1, <3>2
  <2>4. i = j
    <3>1. \/ q = "low" /\ Src(q, i)[1] = "low" /\ Src(q, i)[2] = i + n
          \/ q = "high" /\ Src(q, i)[1] = "high" /\ Src(q, i)[2] = i
          \/ q = "high" /\ Src(q, i)[1] = "low" /\ Src(q, i)[2] = i - h
      BY <2>1
    <3>2. \/ s = "low" /\ Src(s, j)[1] = "low" /\ Src(s, j)[2] = j + n
          \/ s = "high" /\ Src(s, j)[1] = "high" /\ Src(s, j)[2] = j
          \/ s = "high" /\ Src(s, j)[1] = "low" /\ Src(s, j)[2] = j - h
      BY <2>1
    <3> HIDE DEF h
    <3> QED BY <2>2, <2>3, <3>1, <3>2
  <2> QED BY <2>3, <2>4
<1>10. \A q \in Priorities : \A i \in 1..Len(Q[q]) :
         /\ Q[q][i] \in Requests /\ Q[q][i] # r
         /\ ~req[Q[q][i]].done
         /\ pc[Q[q][i]] \in {"blocked", "canceling", "failed"}
  <2> TAKE q \in Priorities
  <2> TAKE i \in 1..Len(Q[q])
  <2>1. PICK a \in Priorities : \E k \in 1..Len(queue[a]) :
          Q[q][i] = queue[a][k]
    BY <1>8
  <2>2. PICK k \in 1..Len(queue[a]) : Q[q][i] = queue[a][k]
    BY <2>1
  <2>3. ~req[queue[a][k]].done
    BY <1>3 DEF QueuedOnce
  <2>4. pc[queue[a][k]] \in {"blocked", "canceling", "failed"}
    BY <1>3 DEF QueuedWaits
  <2> QED BY <1>5, <2>2, <2>3, <2>4
<1>11. \A q, s \in Priorities : \A i \in 1..Len(Q[q]), j \in 1..Len(Q[s]) :
         Q[q][i] = Q[s][j] => q = s /\ i = j
  <2> SUFFICES ASSUME NEW q \in Priorities, NEW s \in Priorities,
                      NEW i \in 1..Len(Q[q]), NEW j \in 1..Len(Q[s]),
                      Q[q][i] = Q[s][j]
               PROVE  q = s /\ i = j
    OBVIOUS
  <2> DEFINE a == Src(q, i)[1]
             k == Src(q, i)[2]
             b == Src(s, j)[1]
             m == Src(s, j)[2]
  <2>0. /\ a \in Priorities /\ k \in 1..Len(queue[a]) /\ Q[q][i] = queue[a][k]
        /\ b \in Priorities /\ m \in 1..Len(queue[b]) /\ Q[s][j] = queue[b][m]
    BY <1>8
  <2> HIDE DEF a, b, k, m
  <2>9. queue[a][k] = queue[b][m]
    BY <2>0
  <2>1. a = b /\ k = m
    BY <1>3, <2>0, <2>9 DEF QueuedOnce
  <2>2. Src(q, i) = Src(s, j)
    BY <2>1 DEF Src, a, b, k, m
  <2> QED BY <1>9, <2>2
<1>12. /\ req' \in [Requests -> MemoryRequest]
       /\ req'[r] = NewRequest(amount, p) /\ ~req'[r].done
       /\ \A x \in Requests : x # r => req'[x] = req[x]
  <2>1. NewRequest(amount, p) \in MemoryRequest
    BY DEF NewRequest, MemoryRequest
  <2> QED BY <1>2, <1>3, <2>1 DEF TypeOK, NewRequest
<1>13. Counter(amount, p) \in Nat
  BY <1>3, <1>4 DEF Counter, TypeOK
<1>14. tracked \ ToSet(SubSeq(queue["low"], 1, n)) \subseteq Requests
  BY <1>3 DEF TypeOK
<1>15. Len(Q["low"]) \in Nat /\ Len(Q["high"]) \in Nat
  BY <1>6, <1>7
<1>16. (Q["low"] # <<>> \/ Q["high"] # <<>>) => available < Base
  <2>1. \A s \in Seq(Requests) : s # <<>> <=> Len(s) > 0
    BY EmptySeq
  <2>2. Q["low"] \in Seq(Requests) /\ Q["high"] \in Seq(Requests)
        /\ queue["low"] \in Seq(Requests) /\ queue["high"] \in Seq(Requests)
    BY <1>4, <1>6 DEF Priorities
  <2>3. (Q["low"] # <<>> \/ Q["high"] # <<>>) =>
          (queue["low"] # <<>> \/ queue["high"] # <<>>)
    BY <1>6, <1>7, <2>1, <2>2
  <2> QED BY <1>2, <1>3, <2>3 DEF QueueBlocks, Priorities
<1>17. CASE ServeNow(r, amount, p, n)
  <2>1. /\ queue' = Q /\ pc' = [pc EXCEPT ![r] = "using"]
        /\ tracked' = tracked \ ToSet(SubSeq(queue["low"], 1, n))
        /\ memSinceLowPriority' \in Nat
        /\ Grantable(amount, p) /\ Take(r, amount)
        /\ ShouldTry(Q, p)
    BY <1>13, <1>17 DEF ServeNow, Q
  <2>2. /\ available' \in 0..Base /\ underflow' \in Nat
        /\ held' \in [Requests -> Nat] /\ Conservation'
    BY <1>3, <1>4, <2>1, TakeConserves
  <2>3. TypeOK'
    BY <1>2, <1>3, <1>6, <1>12, <1>14, <2>1, <2>2 DEF TypeOK
  <2>4. QueuedOnce' /\ QueuedWaits'
    <3>1. \A q \in Priorities : \A i \in 1..Len(Q[q]) :
            /\ ~req'[Q[q][i]].done
            /\ pc'[Q[q][i]] \in {"blocked", "canceling", "failed"}
      <4> TAKE q \in Priorities
      <4> TAKE i \in 1..Len(Q[q])
      <4>1. /\ Q[q][i] \in Requests /\ Q[q][i] # r /\ ~req[Q[q][i]].done
            /\ pc[Q[q][i]] \in {"blocked", "canceling", "failed"}
        BY <1>10
      <4>2. req'[Q[q][i]] = req[Q[q][i]]
        BY <1>12, <4>1
      <4>3. pc'[Q[q][i]] = pc[Q[q][i]]
        BY <1>3, <2>1, <4>1 DEF TypeOK
      <4> QED BY <4>1, <4>2, <4>3
    <3>2. queue' = Q
      BY <2>1
    <3>3. QueuedOnce'
      BY <1>11, <3>1, <3>2 DEF QueuedOnce
    <3>4. QueuedWaits'
      BY <3>1, <3>2 DEF QueuedWaits
    <3> QED BY <3>3, <3>4
  <2>5. HoldersCalled'
    <3>1. \A x \in Requests : x # r => held'[x] = held[x] /\ pc'[x] = pc[x]
      BY <1>3, <2>1 DEF Take, TypeOK
    <3>2. pc'[r] = "using"
      BY <1>3, <2>1 DEF TypeOK
    <3> QED BY <1>3, <3>1, <3>2 DEF HoldersCalled
  <2>6. HighDrainedFirst'
    BY <1>2 DEF HighDrainedFirst
  <2>7. QueueBlocks'
    <3>1. available' < Base \/ (available' = Base /\ available = Base)
      BY <1>3, <1>4, <2>1, <2>2, BaseAssumption, AmountsAssumption DEF Take, TypeOK
    <3>2. available' = Base => amount = 0
      BY <1>3, <1>4, <2>1, <2>2, BaseAssumption DEF Take, TypeOK
    <3>3. amount # 0
      BY AmountsAssumption
    <3> QED BY <2>2, <3>1, <3>2, <3>3 DEF QueueBlocks
  <2> QED BY <2>2, <2>3, <2>4, <2>5, <2>6, <2>7 DEF IndInv
<1>18. CASE Enqueue(r, amount, p, n)
  <2>1. /\ queue' = [Q EXCEPT ![p] = Append(Q[p], r)]
        /\ pc' = [pc EXCEPT ![r] = "blocked"]
        /\ tracked' = (tracked \ ToSet(SubSeq(queue["low"], 1, n))) \cup {r}
        /\ memSinceLowPriority' \in Nat
        /\ available' = available /\ underflow' = underflow /\ held' = held
        /\ ~(ShouldTry(Q, p) /\ Grantable(amount, p))
    BY <1>13, <1>18 DEF Enqueue, Q
  <2>2. /\ queue' \in [Priorities -> Seq(Requests)]
        /\ \A q \in Priorities : q # p => queue'[q] = Q[q]
        /\ Len(queue'[p]) = Len(Q[p]) + 1
        /\ \A i \in 1..Len(Q[p]) : queue'[p][i] = Q[p][i]
        /\ queue'[p][Len(Q[p]) + 1] = r
    <3>1. Q[p] \in Seq(Requests)
      BY <1>6
    <3>2. /\ Append(Q[p], r) \in Seq(Requests)
          /\ Len(Append(Q[p], r)) = Len(Q[p]) + 1
          /\ \A i \in 1..Len(Q[p]) : Append(Q[p], r)[i] = Q[p][i]
          /\ Append(Q[p], r)[Len(Q[p]) + 1] = r
      BY <3>1, AppendProperties
    <3> QED BY <1>6, <2>1, <3>2
  <2>3. TypeOK'
    BY <1>2, <1>3, <1>12, <1>14, <2>1, <2>2 DEF TypeOK
  <2>4. Conservation' /\ HoldersCalled' /\ HighDrainedFirst'
    BY <1>2, <1>3, <2>1 DEF Conservation, HoldersCalled, HighDrainedFirst, TypeOK
  \* Every position of the new queues is one of Q or holds r.
  <2>5. \A q \in Priorities : \A i \in 1..Len(queue'[q]) :
          \/ i \in 1..Len(Q[q]) /\ queue'[q][i] = Q[q][i]
          \/ q = p /\ i = Len(Q[p]) + 1 /\ queue'[q][i] = r
    <3>1. Len(Q[p]) \in Nat
      BY <1>15 DEF Priorities
    <3> QED BY <2>2, <3>1
  <2>6. QueuedWaits'
    <3>1. \A x \in Requests : pc'[x] = IF x = r THEN "blocked" ELSE pc[x]
      BY <1>3, <2>1 DEF TypeOK
    <3> QED BY <1>10, <2>5, <3>1 DEF QueuedWaits
  <2>7. QueuedOnce'
    <3> SUFFICES ASSUME NEW q \in Priorities, NEW s \in Priorities,
                        NEW i \in 1..Len(queue'[q]), NEW j \in 1..Len(queue'[s])
                 PROVE  /\ ~req'[queue'[q][i]].done
                        /\ queue'[q][i] = queue'[s][j] => q = s /\ i = j
      BY Zenon DEF QueuedOnce
    <3>1. ~req'[queue'[q][i]].done
      BY <1>10, <1>12, <2>5
    <3>2. queue'[q][i] = queue'[s][j] => q = s /\ i = j
      <4> SUFFICES ASSUME queue'[q][i] = queue'[s][j] PROVE q = s /\ i = j
        OBVIOUS
      <4>1. CASE i \in 1..Len(Q[q]) /\ queue'[q][i] = Q[q][i]
        <5>1. queue'[q][i] # r
          BY <1>10, <4>1
        <5>2. j \in 1..Len(Q[s]) /\ queue'[s][j] = Q[s][j]
          BY <2>5, <5>1
        <5>3. Q[q][i] = Q[s][j]
          BY <4>1, <5>2
        <5> QED BY <1>11, <4>1, <5>2, <5>3
      <4>2. CASE q = p /\ i = Len(Q[p]) + 1 /\ queue'[q][i] = r
        <5>1. s = p /\ j = Len(Q[p]) + 1
          BY <1>10, <2>5, <4>2
        <5> QED BY <4>2, <5>1
      <4> QED BY <2>5, <4>1, <4>2
    <3> QED BY <3>1, <3>2
  <2>8. QueueBlocks'
    <3>1. CASE ShouldTry(Q, p)
      BY <1>3, <2>1, <3>1, BaseAssumption DEF Grantable, QueueBlocks, TypeOK
    <3>2. CASE ~ShouldTry(Q, p)
      BY <1>16, <2>1, <3>2 DEF ShouldTry, QueueBlocks
    <3> QED BY <3>1, <3>2
  <2> QED BY <2>3, <2>4, <2>6, <2>7, <2>8 DEF IndInv
<1> QED
  BY <1>1, <1>17, <1>18

\* The queues Q hold waiting requests other than x, each of them once.
Without(Q, x) ==
    /\ \A q \in Priorities : \A i \in 1..Len(Q[q]) :
         /\ Q[q][i] \in Requests /\ Q[q][i] # x
         /\ ~req[Q[q][i]].done
         /\ pc[Q[q][i]] \in {"blocked", "canceling", "failed"}
    /\ \A q, t \in Priorities : \A i \in 1..Len(Q[q]), j \in 1..Len(Q[t]) :
         Q[q][i] = Q[t][j] => q = t /\ i = j

\* s is t without its k-th element.
IsWithout(s, t, k) ==
    /\ Len(s) = Len(t) - 1
    /\ \A i \in 1..Len(s) : s[i] = IF i < k THEN t[i] ELSE t[i + 1]

\* Taking one element out of a queue (Pop takes the first, RemoveElement any)
\* leaves positions that stand for distinct positions of the old queues.
LEMMA ShrinkQueue ==
    ASSUME IndInv, NEW p \in Priorities, NEW k \in 1..Len(queue[p]),
           NEW s \in Seq(Requests), IsWithout(s, queue[p], k)
    PROVE  /\ [queue EXCEPT ![p] = s] \in [Priorities -> Seq(Requests)]
           /\ Without([queue EXCEPT ![p] = s], queue[p][k])
<1> DEFINE Q == [queue EXCEPT ![p] = s]
<1>0. /\ Len(s) = Len(queue[p]) - 1
      /\ \A i \in 1..Len(s) :
           s[i] = IF i < k THEN queue[p][i] ELSE queue[p][i + 1]
  BY DEF IsWithout
<1>1. TypeOK /\ QueuedOnce /\ QueuedWaits
  BY DEF IndInv
<1>2. queue \in [Priorities -> Seq(Requests)]
  BY <1>1 DEF TypeOK
<1>3. /\ Q \in [Priorities -> Seq(Requests)]
      /\ \A q \in Priorities : q # p => Q[q] = queue[q]
      /\ Q[p] = s
  BY <1>2
<1> HIDE DEF Q
<1> DEFINE Src(q, i) == IF q = p /\ ~(i < k) THEN i + 1 ELSE i
<1>4. \A q \in Priorities : Len(queue[q]) \in Nat /\ Len(Q[q]) \in Nat
  BY <1>2, <1>3, LenProperties
<1>5. ASSUME NEW q \in Priorities, NEW i \in 1..Len(Q[q])
      PROVE  /\ Src(q, i) \in 1..Len(queue[q])
             /\ Q[q][i] = queue[q][Src(q, i)]
             /\ q = p => Src(q, i) # k
  <2>1. CASE q = p
    <3>1. Len(Q[q]) = Len(queue[q]) - 1 /\ i \in 1..Len(s)
      BY <1>0, <1>3, <2>1
    <3>2. s[i] = IF i < k THEN queue[p][i] ELSE queue[p][i + 1]
      BY <1>0, <3>1
    <3> QED BY <1>3, <1>4, <2>1, <3>1, <3>2
  <2>2. CASE q # p
    BY <1>3, <2>2
  <2> QED BY <2>1, <2>2
<1>6. ASSUME NEW q \in Priorities, NEW i \in 1..Len(Q[q]), NEW j \in 1..Len(Q[q]),
             Src(q, i) = Src(q, j)
      PROVE  i = j
  BY <1>4, <1>6
<1> HIDE DEF Src
<1>7. ASSUME NEW q \in Priorities, NEW i \in 1..Len(Q[q])
      PROVE  /\ Q[q][i] \in Requests /\ Q[q][i] # queue[p][k]
             /\ ~req[Q[q][i]].done
             /\ pc[Q[q][i]] \in {"blocked", "canceling", "failed"}
  <2>1. PICK m \in 1..Len(queue[q]) :
          Q[q][i] = queue[q][m] /\ (q = p => m # k)
    BY <1>5
  <2>2. ~req[queue[q][m]].done
    BY <1>1 DEF QueuedOnce
  <2>3. pc[queue[q][m]] \in {"blocked", "canceling", "failed"}
    BY <1>1 DEF QueuedWaits
  <2>4. queue[q][m] # queue[p][k]
    BY <1>1, <2>1 DEF QueuedOnce
  <2>5. queue[q][m] \in Requests
    BY <1>2, ElementOfSeq
  <2> QED BY <2>1, <2>2, <2>3, <2>4, <2>5
<1>8. ASSUME NEW q \in Priorities, NEW t \in Priorities,
             NEW i \in 1..Len(Q[q]), NEW j \in 1..Len(Q[t]), Q[q][i] = Q[t][j]
      PROVE  q = t /\ i = j
  <2>1. PICK m \in 1..Len(queue[q]) : m = Src(q, i) /\ Q[q][i] = queue[q][m]
    BY <1>5
  <2>2. PICK l \in 1..Len(queue[t]) : l = Src(t, j) /\ Q[t][j] = queue[t][l]
    BY <1>5
  <2>3. queue[q][m] = queue[t][l]
    BY <1>8, <2>1, <2>2
  <2>4. q = t /\ m = l
    <3>1. \A x, y \in Priorities :
            \A a \in 1..Len(queue[x]), b \in 1..Len(queue[y]) :
              queue[x][a] = queue[y][b] => x = y /\ a = b
      BY <1>1 DEF QueuedOnce
    <3> QED BY <2>3, <3>1
  <2>5. Src(q, i) = Src(q, j) /\ j \in 1..Len(Q[q])
    BY <2>1, <2>2, <2>4
  <2> QED BY <1>6, <2>4, <2>5
<1> QED
  <2>1. Without(Q, queue[p][k])
    BY <1>7, <1>8 DEF Without
  <2> QED BY <1>3, <2>1 DEF Q

\* What the iterations of the loop in Return that pop the head have in common.
LEMMA PopHead ==
    ASSUME IndInv, mu # "free", queue[mu] # <<>>, Pop
    PROVE  /\ mu \in Priorities
           /\ Head(queue[mu]) \in Requests
           /\ pc[Head(queue[mu])] \in {"blocked", "canceling", "failed"}
           /\ queue' \in [Priorities -> Seq(Requests)]
           /\ \A q \in Priorities : q # mu => queue'[q] = queue[q]
           /\ Without(queue', Head(queue[mu]))
<1>1. /\ mu \in Priorities /\ queue[mu] \in Seq(Requests)
      /\ queue' = [queue EXCEPT ![mu] = Tail(queue[mu])]
      /\ QueuedWaits
  BY DEF IndInv, TypeOK, Pop
<1>2. /\ Tail(queue[mu]) \in Seq(Requests)
      /\ Len(queue[mu]) \in Nat /\ Len(queue[mu]) > 0
      /\ Len(Tail(queue[mu])) = Len(queue[mu]) - 1
      /\ \A i \in 1..Len(Tail(queue[mu])) : Tail(queue[mu])[i] = queue[mu][i + 1]
      /\ Head(queue[mu]) = queue[mu][1] /\ Head(queue[mu]) \in Requests
  BY <1>1, TailPositions
<1>3. 1 \in 1..Len(queue[mu])
  BY <1>2
<1>4. \A i \in 1..Len(Tail(queue[mu])) :
        Tail(queue[mu])[i] = IF i < 1 THEN queue[mu][i] ELSE queue[mu][i + 1]
  BY <1>2
<1>5. pc[Head(queue[mu])] \in {"blocked", "canceling", "failed"}
  BY <1>1, <1>2, <1>3 DEF QueuedWaits
<1>6. IsWithout(Tail(queue[mu]), queue[mu], 1)
  BY <1>2, <1>4 DEF IsWithout
<1>7. /\ queue' \in [Priorities -> Seq(Requests)]
      /\ Without(queue', queue[mu][1])
  BY <1>1, <1>2, <1>3, <1>6, ShrinkQueue
<1>8. \A q \in Priorities : q # mu => queue'[q] = queue[q]
  BY <1>1
<1> QED
  BY <1>1, <1>2, <1>5, <1>7, <1>8

LEMMA WakeIndInv ==
    ASSUME IndInv, NEW r \in Requests, Wake(r)
    PROVE  IndInv'
<1> USE DEF IndInv, Wake
<1>1. TypeOK'
  BY DEF TypeOK
<1>2. Conservation' /\ QueuedOnce' /\ HighDrainedFirst' /\ QueueBlocks'
  BY DEF Conservation, QueuedOnce, HighDrainedFirst, QueueBlocks
<1>3. HoldersCalled'
  BY DEF HoldersCalled, TypeOK
<1>4. QueuedWaits'
  <2>1. \A x \in Requests : x # r => pc'[x] = pc[x]
    BY DEF TypeOK
  <2>2. \A p \in Priorities : \A i \in 1..Len(queue[p]) :
          queue[p][i] \in Requests /\ queue[p][i] # r
    BY ElementOfSeq DEF TypeOK, QueuedOnce
  <2> QED BY <2>1, <2>2 DEF QueuedWaits
<1> QED
  BY <1>1, <1>2, <1>3, <1>4

LEMMA CancelIndInv ==
    ASSUME IndInv, NEW r \in Requests, Cancel(r)
    PROVE  IndInv'
<1> USE DEF IndInv, Cancel
<1>1. /\ req' \in [Requests -> MemoryRequest]
      /\ \A x \in Requests : req'[x].done = req[x].done
  BY DEF TypeOK, MemoryRequest
<1>2. pc' = [pc EXCEPT ![r] = "canceling"]
      /\ \A x \in Requests : pc'[x] = IF x = r THEN "canceling" ELSE pc[x]
  BY DEF TypeOK
<1>3. TypeOK'
  BY <1>1, <1>2 DEF TypeOK
<1>4. Conservation' /\ HighDrainedFirst' /\ QueueBlocks'
  BY DEF Conservation, HighDrainedFirst, QueueBlocks
<1>5. HoldersCalled'
  BY <1>2 DEF HoldersCalled, TypeOK
<1>6. \A p \in Priorities : \A i \in 1..Len(queue[p]) : queue[p][i] \in Requests
  BY ElementOfSeq DEF TypeOK
<1>7. QueuedWaits'
  BY <1>2, <1>6 DEF QueuedWaits
<1>8. QueuedOnce'
  BY <1>1, <1>6 DEF QueuedOnce
<1> QED
  BY <1>3, <1>4, <1>5, <1>7, <1>8

LEMMA StopIndInv ==
    ASSUME IndInv, Stop \/ \E r \in Requests : StopWait(r)
    PROVE  IndInv'
<1>1. /\ UNCHANGED <<available, underflow, memSinceLowPriority, queue, mu, req,
                     tracked, held>>
      /\ stopped' \in BOOLEAN
      /\ pc' = pc \/ \E r \in Requests : pc[r] = "blocked"
                                         /\ pc' = [pc EXCEPT ![r] = "failed"]
  BY DEF Stop, StopWait, IndInv, TypeOK
<1>2. \A x \in Requests : pc'[x] = pc[x] \/ pc'[x] = "failed"
  BY <1>1 DEF IndInv, TypeOK
<1>3. pc' \in [Requests -> {"idle", "blocked", "canceling", "using", "failed"}]
  BY <1>1 DEF IndInv, TypeOK
<1>4. TypeOK'
  BY <1>1, <1>3 DEF IndInv, TypeOK
<1>5. Conservation' /\ QueuedOnce' /\ HighDrainedFirst' /\ QueueBlocks'
  BY <1>1 DEF IndInv, Conservation, QueuedOnce, HighDrainedFirst, QueueBlocks
<1>6. HoldersCalled'
  BY <1>1, <1>2 DEF IndInv, HoldersCalled
<1>7. QueuedWaits'
  <2>1. \A p \in Priorities : \A i \in 1..Len(queue[p]) : queue[p][i] \in Requests
    BY ElementOfSeq DEF IndInv, TypeOK
  <2> QED BY <1>1, <1>2, <2>1 DEF IndInv, QueuedWaits
<1> QED
  BY <1>4, <1>5, <1>6, <1>7 DEF IndInv

LEMMA RemoveElementIndInv ==
    ASSUME IndInv, NEW r \in Requests, RemoveElement(r)
    PROVE  IndInv'
<1>1. TypeOK /\ Conservation /\ QueuedOnce /\ QueuedWaits /\ HoldersCalled
      /\ HighDrainedFirst /\ QueueBlocks
  BY DEF IndInv
<1>2. /\ mu = "free" /\ mu' = mu /\ pc' = [pc EXCEPT ![r] = "failed"]
      /\ UNCHANGED <<available, underflow, memSinceLowPriority, req, held,
                     stopped>>
      /\ tracked' = tracked \ {r}
  BY DEF RemoveElement
<1>3. \A x \in Requests : pc'[x] = IF x = r THEN "failed" ELSE pc[x]
  BY <1>1, <1>2 DEF TypeOK
<1>4. /\ queue' \in [Priorities -> Seq(Requests)]
      /\ \A q \in Priorities : \A i \in 1..Len(queue'[q]) :
           /\ queue'[q][i] \in Requests /\ ~req[queue'[q][i]].done
           /\ pc[queue'[q][i]] \in {"blocked", "canceling", "failed"}
      /\ \A q, t \in Priorities :
           \A i \in 1..Len(queue'[q]), j \in 1..Len(queue'[t]) :
             queue'[q][i] = queue'[t][j] => q = t /\ i = j
      /\ (\E q \in Priorities : queue'[q] # <<>>) =>
            \E q \in Priorities : queue[q] # <<>>
  <2>1. CASE queue' = queue
    <3>1. \A p \in Priorities : \A i \in 1..Len(queue[p]) : queue[p][i] \in Requests
      BY <1>1, ElementOfSeq DEF TypeOK
    <3> QED BY <1>1, <2>1, <3>1 DEF TypeOK, QueuedOnce, QueuedWaits
  <2>2. CASE queue' # queue
    <3> DEFINE p == req[r].priority
    <3>1. PICK k \in 1..Len(queue[p]) :
            queue' = [queue EXCEPT ![p] = RemoveAt(queue[p], k)]
      BY <2>2 DEF RemoveElement
    <3>2. p \in Priorities /\ queue[p] \in Seq(Requests)
      BY <1>1 DEF TypeOK, MemoryRequest
    <3> HIDE DEF p
    <3>3. /\ RemoveAt(queue[p], k) \in Seq(Requests)
          /\ IsWithout(RemoveAt(queue[p], k), queue[p], k)
      BY <3>2, RemoveAtPositions DEF IsWithout
    <3>4. /\ queue' \in [Priorities -> Seq(Requests)]
          /\ Without(queue', queue[p][k])
      BY <3>1, <3>2, <3>3, ShrinkQueue
    <3>5. queue[p] # <<>>
      BY <3>2, EmptySeq
    <3> QED BY <3>2, <3>4, <3>5 DEF Without
  <2> QED BY <2>1, <2>2
<1>5. TypeOK'
  BY <1>1, <1>2, <1>4 DEF TypeOK
<1>6. Conservation' /\ HighDrainedFirst'
  BY <1>1, <1>2 DEF Conservation, HighDrainedFirst
<1>7. QueueBlocks'
  BY <1>1, <1>2, <1>4 DEF QueueBlocks
<1>8. HoldersCalled'
  BY <1>1, <1>2, <1>3 DEF HoldersCalled
<1>9. QueuedOnce'
  BY <1>2, <1>4 DEF QueuedOnce
<1>10. QueuedWaits'
  BY <1>3, <1>4 DEF QueuedWaits
<1> QED
  BY <1>5, <1>6, <1>7, <1>8, <1>9, <1>10 DEF IndInv

LEMMA ReturnIndInv ==
    ASSUME IndInv, NEW r \in Requests, NEW n \in 1..held[r], Return(r, n)
    PROVE  IndInv'
<1>1. TypeOK /\ Conservation /\ QueuedOnce /\ QueuedWaits /\ HoldersCalled
      /\ HighDrainedFirst /\ QueueBlocks
  BY DEF IndInv
<1>2. /\ available' \in 0..Base /\ underflow' \in Nat
      /\ held' \in [Requests -> Nat] /\ Conservation'
  BY <1>1, ReturnConserves
<1>3. /\ mu = "free" /\ pc[r] = "using" /\ queue' = queue
      /\ held' = [held EXCEPT ![r] = held[r] - n]
      /\ mu' \in {"free", "high"} /\ (mu' = "free" => available' = available)
      /\ UNCHANGED <<memSinceLowPriority, tracked, stopped>>
  BY DEF Return
<1>4. /\ pc' \in [Requests -> {"idle", "blocked", "canceling", "using", "failed"}]
      /\ req' \in [Requests -> MemoryRequest]
      /\ \A x \in Requests : x # r => pc'[x] = pc[x] /\ req'[x] = req[x]
      /\ pc'[r] = "idle" => n = held[r]
  <2>1. NoRequest \in MemoryRequest
    BY DEF NoRequest, NewRequest, MemoryRequest, Priorities
  <2>2. CASE n = held[r]
    BY <1>1, <2>1, <2>2 DEF Return, TypeOK
  <2>3. CASE n # held[r]
    BY <1>1, <2>3 DEF Return, TypeOK
  <2> QED BY <2>2, <2>3
<1>5. \A p \in Priorities : \A i \in 1..Len(queue[p]) :
        queue[p][i] \in Requests /\ queue[p][i] # r
  BY <1>1, <1>3, ElementOfSeq DEF TypeOK, QueuedWaits
<1>6. TypeOK'
  BY <1>1, <1>2, <1>3, <1>4 DEF TypeOK, Priorities
<1>7. QueuedOnce' /\ QueuedWaits'
  BY <1>1, <1>3, <1>4, <1>5 DEF QueuedOnce, QueuedWaits
<1>8. HoldersCalled'
  BY <1>1, <1>3, <1>4 DEF HoldersCalled, TypeOK
<1>9. HighDrainedFirst' /\ QueueBlocks'
  BY <1>1, <1>3 DEF HighDrainedFirst, QueueBlocks
<1> QED
  BY <1>2, <1>6, <1>7, <1>8, <1>9 DEF IndInv

LEMMA SkipCanceledIndInv ==
    ASSUME IndInv, SkipCanceled
    PROVE  IndInv'
<1>1. /\ mu # "free" /\ queue[mu] # <<>> /\ Pop /\ mu' = mu
      /\ UNCHANGED <<available, underflow, memSinceLowPriority, req, pc, held,
                     stopped>>
      /\ tracked' = tracked \ {Head(queue[mu])}
  BY DEF SkipCanceled
<1>2. /\ mu \in Priorities
      /\ queue' \in [Priorities -> Seq(Requests)]
      /\ \A q \in Priorities : q # mu => queue'[q] = queue[q]
      /\ Without(queue', Head(queue[mu]))
  BY <1>1, PopHead
<1>3. TypeOK'
  BY <1>1, <1>2 DEF IndInv, TypeOK
<1>4. Conservation' /\ HoldersCalled' /\ QueueBlocks'
  BY <1>1 DEF IndInv, Conservation, HoldersCalled, QueueBlocks
<1>5. QueuedOnce' /\ QueuedWaits'
  BY <1>1, <1>2 DEF Without, QueuedOnce, QueuedWaits
<1>6. HighDrainedFirst'
  BY <1>1, <1>2 DEF IndInv, HighDrainedFirst, Priorities
<1> QED
  BY <1>3, <1>4, <1>5, <1>6 DEF IndInv

LEMMA GrantHeadIndInv ==
    ASSUME IndInv, GrantHead
    PROVE  IndInv'
<1> DEFINE r == Head(queue[mu])
<1>1. /\ mu # "free" /\ queue[mu] # <<>> /\ Pop /\ mu' = mu
      /\ Grantable(req[r].amount, mu)
      /\ Take(r, req[r].amount)
      /\ req' = [req EXCEPT ![r].done = TRUE]
      /\ tracked' = tracked \ {r}
      /\ pc' = pc /\ stopped' = stopped
      /\ memSinceLowPriority' = IF mu = "low" THEN 0 ELSE memSinceLowPriority
  BY DEF GrantHead
<1>2. /\ mu \in Priorities /\ r \in Requests
      /\ pc[r] \in {"blocked", "canceling", "failed"}
      /\ queue' \in [Priorities -> Seq(Requests)]
      /\ \A q \in Priorities : q # mu => queue'[q] = queue[q]
      /\ Without(queue', r)
  BY <1>1, PopHead
<1> HIDE DEF r
<1>3. TypeOK /\ Conservation /\ HoldersCalled /\ HighDrainedFirst
  BY DEF IndInv
<1>4. req[r] \in MemoryRequest /\ req[r].amount \in Nat
  <2>1. req[r] \in MemoryRequest
    BY <1>2, <1>3 DEF TypeOK
  <2>2. req[r].amount \in Amounts \cup {0}
    BY <2>1 DEF MemoryRequest
  <2>3. \A x \in Amounts \cup {0} : x \in Nat
    BY AmountsAssumption
  <2> QED BY <2>1, <2>2, <2>3
<1>5. /\ available' \in 0..Base /\ underflow' \in Nat
      /\ held' \in [Requests -> Nat] /\ Conservation'
  BY <1>1, <1>2, <1>3, <1>4, TakeConserves
<1>6. /\ req' \in [Requests -> MemoryRequest]
      /\ \A x \in Requests : x # r => req'[x] = req[x]
  BY <1>1, <1>2, <1>3 DEF TypeOK, MemoryRequest
<1>7. TypeOK'
  BY <1>1, <1>2, <1>3, <1>5, <1>6 DEF TypeOK
<1>8. HoldersCalled'
  <2>1. \A x \in Requests : x # r => held'[x] = held[x]
    BY <1>1, <1>3 DEF Take, TypeOK
  <2> QED BY <1>1, <1>2, <1>3, <2>1 DEF HoldersCalled
<1>9. QueuedOnce' /\ QueuedWaits'
  BY <1>1, <1>2, <1>6 DEF Without, QueuedOnce, QueuedWaits
<1>10. HighDrainedFirst' /\ QueueBlocks'
  BY <1>1, <1>2, <1>3 DEF HighDrainedFirst, QueueBlocks, Priorities
<1> QED
  BY <1>5, <1>7, <1>8, <1>9, <1>10 DEF IndInv

LEMMA PushFrontIndInv ==
    ASSUME IndInv, PushFront
    PROVE  IndInv'
<1>1. /\ mu' = "free"
      /\ UNCHANGED <<available, underflow, memSinceLowPriority, queue, req, pc,
                     held, stopped>>
      /\ tracked' \subseteq tracked
      /\ available # Base
  BY DEF PushFront, Grantable
<1>2. TypeOK'
  BY <1>1 DEF IndInv, TypeOK
<1>3. Conservation' /\ HoldersCalled' /\ QueuedOnce' /\ QueuedWaits'
  BY <1>1 DEF IndInv, Conservation, HoldersCalled, QueuedOnce, QueuedWaits
<1>4. HighDrainedFirst' /\ QueueBlocks'
  BY <1>1, BaseAssumption DEF IndInv, TypeOK, HighDrainedFirst, QueueBlocks
<1> QED
  BY <1>2, <1>3, <1>4 DEF IndInv

LEMMA DrainedIndInv ==
    ASSUME IndInv, Drained
    PROVE  IndInv'
<1>1. /\ mu # "free" /\ queue[mu] = <<>>
      /\ mu' = IF mu = "high" THEN "low" ELSE "free"
      /\ UNCHANGED <<available, underflow, memSinceLowPriority, queue, req,
                     tracked, pc, held, stopped>>
  BY DEF Drained
<1>2. TypeOK'
  BY <1>1 DEF IndInv, TypeOK, Priorities
<1>3. Conservation' /\ HoldersCalled' /\ QueuedOnce' /\ QueuedWaits'
  BY <1>1 DEF IndInv, Conservation, HoldersCalled, QueuedOnce, QueuedWaits
<1>4. HighDrainedFirst' /\ QueueBlocks'
  BY <1>1 DEF IndInv, TypeOK, HighDrainedFirst, QueueBlocks, Priorities
<1> QED
  BY <1>2, <1>3, <1>4 DEF IndInv

LEMMA NextIndInv == IndInv /\ [Next]_vars => IndInv'
<1> SUFFICES ASSUME IndInv, [Next]_vars PROVE IndInv'
  OBVIOUS
<1>1. ASSUME NEW r \in Requests, NEW amount \in Amounts, NEW p \in Priorities,
             Request(r, amount, p)
      PROVE  IndInv'
  BY <1>1, RequestIndInv
<1>2. ASSUME NEW r \in Requests, Wake(r) PROVE IndInv'
  BY <1>2, WakeIndInv
<1>3. ASSUME NEW r \in Requests, Cancel(r) PROVE IndInv'
  BY <1>3, CancelIndInv
<1>4. ASSUME NEW r \in Requests, RemoveElement(r) PROVE IndInv'
  BY <1>4, RemoveElementIndInv
<1>5. ASSUME NEW r \in Requests, StopWait(r) PROVE IndInv'
  BY <1>5, StopIndInv
<1>6. ASSUME NEW r \in Requests, NEW n \in 1..held[r], Return(r, n) PROVE IndInv'
  BY <1>6, ReturnIndInv
<1>7. CASE Release
  BY <1>7, SkipCanceledIndInv, GrantHeadIndInv, PushFrontIndInv, DrainedIndInv
  DEF Release
<1>8. CASE Stop
  BY <1>8, StopIndInv
<1>9. CASE UNCHANGED vars
  BY <1>9 DEF vars, IndInv, TypeOK, Conservation, QueuedOnce, QueuedWaits,
              HoldersCalled, HighDrainedFirst, QueueBlocks
<1> QED
  BY <1>1, <1>2, <1>3, <1>4, <1>5, <1>6, <1>7, <1>8, <1>9 DEF Next

-----------------------------------------------------------------------------
(* The theorems. *)

LEMMA IndInvAlways == Spec => []IndInv
BY InitIndInv, NextIndInv, PTL DEF Spec

\* The variables of the manager keep their types; in particular the unsigned
\* counters available and underflow never wrap around.
THEOREM TypeCorrect == Spec => []TypeOK
<1>1. IndInv => TypeOK
  BY DEF IndInv
<1> QED
  BY <1>1, IndInvAlways, PTL

\* Whatever is asked for, canceled and returned, memory is conserved, although
\* a request beyond the base overdraws the pool.
THEOREM MemoryConserved == Spec => []Conservation
<1>1. IndInv => Conservation
  BY DEF IndInv
<1> QED
  BY <1>1, IndInvAlways, PTL

\* The sanity check in Return cannot fire while callers return what they hold.
THEOREM NeverTooMuchReturned == Spec => []ReturnWithinBase
<1>1. IndInv => ReturnWithinBase
  <2> SUFFICES ASSUME IndInv, NEW r \in Requests, NEW n \in 1..held[r]
               PROVE  AvailableAfter(n) <= Base
    BY DEF ReturnWithinBase
  <2>1. /\ held \in [Requests -> Nat] /\ available \in Nat /\ underflow \in Nat
        /\ Base \in Nat /\ held[r] \in Nat /\ n \in Nat /\ n <= held[r]
    BY BaseAssumption DEF IndInv, TypeOK
  <2>2. Total(held) \in Nat /\ held[r] <= Total(held)
    BY <2>1, RequestsAssumption, TotalType
  <2> QED
    BY <2>1, <2>2 DEF IndInv, Conservation, AvailableAfter
<1> QED
  BY <1>1, IndInvAlways, PTL

\* No request waits while nobody holds memory: a wake-up is always due.
THEOREM WakeUpDue == Spec => []WaitersHaveWaker
<1>1. IndInv => WaitersHaveWaker
  <2> SUFFICES ASSUME IndInv, mu = "free", \E p \in Priorities : queue[p] # <<>>
               PROVE  /\ available < Base
                      /\ \E r \in Requests : held[r] > 0 /\ pc[r] # "idle"
    BY DEF WaitersHaveWaker
  <2>1. available < Base
    BY DEF IndInv, QueueBlocks
  <2>2. /\ held \in [Requests -> Nat] /\ available \in Nat /\ underflow \in Nat
        /\ Base \in Nat
    BY BaseAssumption DEF IndInv, TypeOK
  <2>3. Total(held) # 0
    <3>1. Total(held) \in Nat
      BY <2>2, RequestsAssumption, TotalType
    <3> QED BY <2>1, <2>2, <3>1 DEF IndInv, Conservation
  <2>4. PICK r \in Requests : held[r] # 0
    BY <2>2, <2>3, RequestsAssumption, TotalZero
  <2>5. held[r] > 0
    BY <2>2, <2>4
  <2> QED BY <2>1, <2>5 DEF IndInv, HoldersCalled
<1> QED
  BY <1>1, IndInvAlways, PTL

\* A request is queued at most once and only until it is served: Return never
\* closes a done channel twice.
THEOREM DoneClosedOnce == Spec => []QueuedOnce
<1>1. IndInv => QueuedOnce
  BY DEF IndInv
<1> QED
  BY <1>1, IndInvAlways, PTL

-----------------------------------------------------------------------------
(* The manager implements MemoryPool.  The refinement only needs to know    *)
(* which requests are in which queue, so the queues become sets here.       *)

LEMMA SetOfSeq ==
    ASSUME NEW s \in Seq(Requests), NEW x
    PROVE  x \in ToSet(s) <=> \E i \in 1..Len(s) : s[i] = x
BY LenProperties DEF ToSet

LEMMA SetOfEmpty ==
    ASSUME NEW s \in Seq(Requests)
    PROVE  s = <<>> <=> ToSet(s) = {}
<1>1. s = <<>> <=> Len(s) = 0
  BY EmptySeq, LenProperties
<1>2. Len(s) \in Nat
  BY LenProperties
<1>3. ASSUME Len(s) # 0 PROVE s[1] \in ToSet(s)
  <2>1. 1 \in 1..Len(s)
    BY <1>2, <1>3
  <2> QED BY <2>1, SetOfSeq
<1>4. ASSUME Len(s) = 0, NEW x \in ToSet(s) PROVE FALSE
  <2>1. PICK i \in 1..Len(s) : s[i] = x
    BY <1>4, SetOfSeq
  <2> QED BY <1>4, <2>1
<1> QED
  BY <1>1, <1>3, <1>4

LEMMA SetOfAppend ==
    ASSUME NEW s \in Seq(Requests), NEW r \in Requests
    PROVE  ToSet(Append(s, r)) = ToSet(s) \cup {r}
<1> DEFINE a == Append(s, r)
           n == Len(s)
<1>1. /\ a \in Seq(Requests) /\ n \in Nat
      /\ Len(a) = n + 1
      /\ \A i \in 1..n : a[i] = s[i]
      /\ a[n + 1] = r
  BY AppendProperties, LenProperties
<1>2. /\ \A x : x \in ToSet(a) <=> \E i \in 1..Len(a) : a[i] = x
      /\ \A x : x \in ToSet(s) <=> \E i \in 1..n : s[i] = x
  BY <1>1, SetOfSeq
<1> HIDE DEF a, n
<1>3. \A i : i \in 1..Len(a) <=> i \in 1..n \/ i = n + 1
  BY <1>1
<1>4. ASSUME NEW x PROVE x \in ToSet(a) <=> x \in ToSet(s) \cup {r}
  BY <1>1, <1>2, <1>3
<1>5. ToSet(a) = ToSet(s) \cup {r}
  BY <1>4
<1> QED
  BY <1>5 DEF a

\* A queue holds nobody twice, so that what leaves it is gone.
LEMMA SetOfWithout ==
    ASSUME NEW t \in Seq(Requests), NEW k \in 1..Len(t), NEW s \in Seq(Requests),
           IsWithout(s, t, k),
           \A i, j \in 1..Len(t) : t[i] = t[j] => i = j
    PROVE  ToSet(s) = ToSet(t) \ {t[k]}
<1>1. /\ Len(t) \in Nat /\ Len(s) \in Nat /\ Len(s) = Len(t) - 1
      /\ \A i \in 1..Len(s) : s[i] = IF i < k THEN t[i] ELSE t[i + 1]
      /\ k \in Nat /\ 1 <= k /\ k <= Len(t)
  <2>1. Len(t) \in Nat /\ Len(s) \in Nat
    BY LenProperties
  <2>2. k \in Nat /\ 1 <= k /\ k <= Len(t)
    BY <2>1
  <2>3. /\ Len(s) = Len(t) - 1
        /\ \A i \in 1..Len(s) : s[i] = IF i < k THEN t[i] ELSE t[i + 1]
    BY Zenon DEF IsWithout
  <2> QED BY <2>1, <2>2, <2>3
<1>2. ASSUME NEW x \in ToSet(s) PROVE x \in ToSet(t) \ {t[k]}
  <2>1. PICK i \in 1..Len(s) : s[i] = x
    BY <1>2, SetOfSeq
  <2>2. PICK m \in 1..Len(t) : m # k /\ x = t[m]
    <3>1. CASE i < k
      <4>1. i \in 1..Len(t) /\ i # k
        BY <1>1, <3>1
      <4> QED BY <1>1, <2>1, <3>1, <4>1
    <3>2. CASE ~(i < k)
      <4>1. i + 1 \in 1..Len(t) /\ i + 1 # k
        BY <1>1, <3>2
      <4> QED BY <1>1, <2>1, <3>2, <4>1
    <3> QED BY <3>1, <3>2
  <2> QED BY <2>2, SetOfSeq
<1>3. ASSUME NEW x \in ToSet(t), x # t[k] PROVE x \in ToSet(s)
  <2>1. PICK m \in 1..Len(t) : t[m] = x
    BY <1>3, SetOfSeq
  <2>2. m # k
    BY <1>3, <2>1
  <2>3. CASE m < k
    <3>1. m \in 1..Len(s)
      BY <1>1, <2>3
    <3>2. s[m] = x
      BY <1>1, <2>1, <2>3, <3>1
    <3> QED BY <3>1, <3>2, SetOfSeq
  <2>4. CASE ~(m < k)
    <3>1. m - 1 \in 1..Len(s) /\ ~(m - 1 < k) /\ (m - 1) + 1 = m
      BY <1>1, <2>2, <2>4
    <3>2. s[m - 1] = x
      BY <1>1, <2>1, <3>1
    <3> QED BY <3>1, <3>2, SetOfSeq
  <2> QED BY <2>3, <2>4
<1> QED
  BY <1>2, <1>3

\* The waiters that a bump of n moves.
Movers(n) == {queue["low"][i] : i \in 1..n}

\* No request is in both queues, or twice in one.
LEMMA QueuesApart ==
    ASSUME IndInv
    PROVE  /\ \A q \in Priorities : queue[q] \in Seq(Requests)
           /\ ToSet(queue["low"]) \cap ToSet(queue["high"]) = {}
           /\ \A q \in Priorities : \A i, j \in 1..Len(queue[q]) :
                queue[q][i] = queue[q][j] => i = j
<1>1. \A q \in Priorities : queue[q] \in Seq(Requests)
  BY DEF IndInv, TypeOK
<1>2. \A q, t \in Priorities : \A i \in 1..Len(queue[q]), j \in 1..Len(queue[t]) :
        queue[q][i] = queue[t][j] => q = t /\ i = j
  BY DEF IndInv, QueuedOnce
<1>3. "low" \in Priorities /\ "high" \in Priorities /\ "low" # "high"
  BY DEF Priorities
<1>4. ASSUME NEW x \in ToSet(queue["low"]), x \in ToSet(queue["high"]) PROVE FALSE
  <2>1. PICK i \in 1..Len(queue["low"]) : queue["low"][i] = x
    BY <1>1, <1>3, <1>4, SetOfSeq
  <2>2. PICK j \in 1..Len(queue["high"]) : queue["high"][j] = x
    BY <1>1, <1>3, <1>4, SetOfSeq
  <2> QED BY <1>2, <1>3, <2>1, <2>2
<1> QED
  BY <1>1, <1>2, <1>4

LEMMA SetOfBumped ==
    ASSUME IndInv, NEW n \in 0..Len(queue["low"])
    PROVE  /\ Bumped(n) \in [Priorities -> Seq(Requests)]
           /\ Movers(n) \subseteq ToSet(queue["low"])
           /\ ToSet(Bumped(n)["high"]) = ToSet(queue["high"]) \cup Movers(n)
           /\ ToSet(Bumped(n)["low"]) = ToSet(queue["low"]) \ Movers(n)
<1> DEFINE low == queue["low"]
           high == queue["high"]
           Q == Bumped(n)
<1>1. low \in Seq(Requests) /\ high \in Seq(Requests)
  BY QueuesApart DEF Priorities
<1>2. /\ Q \in [Priorities -> Seq(Requests)]
      /\ Len(Q["low"]) = Len(low) - n
      /\ Len(Q["high"]) = Len(high) + n
      /\ \A i \in 1..Len(Q["low"]) : Q["low"][i] = low[i + n]
      /\ \A i \in 1..Len(Q["high"]) :
           Q["high"][i] = IF i <= Len(high) THEN high[i] ELSE low[i - Len(high)]
  BY BumpedPositions DEF IndInv, TypeOK
<1>3. /\ Len(low) \in Nat /\ Len(high) \in Nat /\ n \in Nat /\ n <= Len(low)
  BY <1>1
<1>4. \A i, j \in 1..Len(low) : low[i] = low[j] => i = j
  BY QueuesApart DEF Priorities
<1>5. Q["low"] \in Seq(Requests) /\ Q["high"] \in Seq(Requests)
  BY <1>2 DEF Priorities
<1>6. Movers(n) = {low[i] : i \in 1..n}
  BY DEF Movers
<1> HIDE DEF low, high, Q
<1>7. \A i \in 1..n : i \in 1..Len(low)
  BY <1>3
<1>8. Movers(n) \subseteq ToSet(low)
  BY <1>1, <1>6, <1>7, SetOfSeq
<1>9. ASSUME NEW x \in ToSet(Q["high"]) PROVE x \in ToSet(high) \cup Movers(n)
  <2>1. PICK i \in 1..Len(Q["high"]) : Q["high"][i] = x
    BY <1>5, <1>9, SetOfSeq
  <2>2. CASE i <= Len(high)
    <3>1. i \in 1..Len(high)
      BY <1>3, <2>2
    <3> QED BY <1>1, <1>2, <2>1, <2>2, <3>1, SetOfSeq
  <2>3. CASE ~(i <= Len(high))
    <3>1. i - Len(high) \in 1..n
      BY <1>2, <1>3, <2>3
    <3> QED BY <1>2, <1>6, <2>1, <2>3, <3>1
  <2> QED BY <2>2, <2>3
<1>10. ASSUME NEW x \in ToSet(high) PROVE x \in ToSet(Q["high"])
  <2>1. PICK i \in 1..Len(high) : high[i] = x
    BY <1>1, <1>10, SetOfSeq
  <2>2. i \in 1..Len(Q["high"]) /\ i <= Len(high)
    BY <1>2, <1>3
  <2>3. Q["high"][i] = x
    BY <1>2, <2>1, <2>2
  <2> QED BY <1>5, <2>2, <2>3, SetOfSeq
<1>11. ASSUME NEW x \in Movers(n) PROVE x \in ToSet(Q["high"])
  <2>1. PICK i \in 1..n : low[i] = x
    BY <1>6, <1>11
  <2>2. /\ i + Len(high) \in 1..Len(Q["high"]) /\ ~(i + Len(high) <= Len(high))
        /\ (i + Len(high)) - Len(high) = i
    BY <1>2, <1>3
  <2>3. Q["high"][i + Len(high)] = x
    BY <1>2, <2>1, <2>2
  <2> QED BY <1>5, <2>2, <2>3, SetOfSeq
<1>12. ASSUME NEW x \in ToSet(Q["low"]) PROVE x \in ToSet(low) \ Movers(n)
  <2>1. PICK i \in 1..Len(Q["low"]) : Q["low"][i] = x
    BY <1>5, <1>12, SetOfSeq
  <2>2. i + n \in 1..Len(low) /\ \A j \in 1..n : i + n # j
    BY <1>2, <1>3
  <2>3. low[i + n] = x
    BY <1>2, <2>1
  <2> QED BY <1>1, <1>4, <1>6, <1>7, <2>2, <2>3, SetOfSeq
<1>13. ASSUME NEW x \in ToSet(low), x \notin Movers(n) PROVE x \in ToSet(Q["low"])
  <2>1. PICK i \in 1..Len(low) : low[i] = x
    BY <1>1, <1>13, SetOfSeq
  <2>2. i \notin 1..n
    BY <1>6, <1>13, <2>1
  <2>3. i - n \in 1..Len(Q["low"]) /\ (i - n) + n = i
    BY <1>2, <1>3, <2>2
  <2>4. Q["low"][i - n] = x
    BY <1>2, <2>1, <2>3
  <2> QED BY <1>5, <2>3, <2>4, SetOfSeq
<1>14. ToSet(Q["high"]) = ToSet(high) \cup Movers(n)
  BY <1>9, <1>10, <1>11
<1>15. ToSet(Q["low"]) = ToSet(low) \ Movers(n)
  BY <1>12, <1>13
<1> QED
  BY <1>2, <1>8, <1>14, <1>15 DEF low, high, Q

LEMMA LaneIs ==
    ASSUME NEW Q, NEW r, ToSet(Q["low"]) \cap ToSet(Q["high"]) = {}
    PROVE  /\ Lane(Q, r) \in {"low", "high", "none"}
           /\ Lane(Q, r) = "low" <=> r \in ToSet(Q["low"])
           /\ Lane(Q, r) = "high" <=> r \in ToSet(Q["high"])
BY DEF Lane

\* Who joins, and who is bumped.
LEMMA EnqueueLanes ==
    ASSUME IndInv, NEW r \in Requests, NEW p \in Priorities, NEW amount,
           NEW n \in 0..Len(queue["low"]), ~Queued(r), Enqueue(r, amount, p, n)
    PROVE  \A x \in Requests :
             Lane(queue', x) = IF x = r THEN p
                               ELSE IF x \in Movers(n) THEN "high"
                               ELSE Lane(queue, x)
<1>1. /\ Bumped(n) \in [Priorities -> Seq(Requests)]
      /\ Movers(n) \subseteq ToSet(queue["low"])
      /\ ToSet(Bumped(n)["high"]) = ToSet(queue["high"]) \cup Movers(n)
      /\ ToSet(Bumped(n)["low"]) = ToSet(queue["low"]) \ Movers(n)
  BY SetOfBumped
<1>2. queue' = [Bumped(n) EXCEPT ![p] = Append(Bumped(n)[p], r)]
  BY DEF Enqueue
<1>3. r \notin ToSet(queue["low"]) /\ r \notin ToSet(queue["high"])
  BY DEF Queued, Priorities
<1>4. ToSet(queue["low"]) \cap ToSet(queue["high"]) = {}
  BY QueuesApart
<1>5. /\ ToSet(queue'[p]) = ToSet(Bumped(n)[p]) \cup {r}
      /\ \A q \in Priorities : q # p => ToSet(queue'[q]) = ToSet(Bumped(n)[q])
  <2>1. Bumped(n)[p] \in Seq(Requests)
    BY <1>1
  <2>2. queue'[p] = Append(Bumped(n)[p], r)
        /\ \A q \in Priorities : q # p => queue'[q] = Bumped(n)[q]
    BY <1>1, <1>2
  <2> QED BY <2>1, <2>2, SetOfAppend
<1>6. CASE p = "low"
  <2>1. /\ ToSet(queue'["low"]) = (ToSet(queue["low"]) \ Movers(n)) \cup {r}
        /\ ToSet(queue'["high"]) = ToSet(queue["high"]) \cup Movers(n)
    BY <1>1, <1>5, <1>6 DEF Priorities
  <2> QED BY <1>1, <1>3, <1>4, <1>6, <2>1 DEF Lane
<1>7. CASE p = "high"
  <2>1. /\ ToSet(queue'["low"]) = ToSet(queue["low"]) \ Movers(n)
        /\ ToSet(queue'["high"]) = ToSet(queue["high"]) \cup Movers(n) \cup {r}
    BY <1>1, <1>5, <1>7 DEF Priorities
  <2> QED BY <1>1, <1>3, <1>4, <1>7, <2>1 DEF Lane
<1> QED
  BY <1>6, <1>7 DEF Priorities

\* Who leaves.
LEMMA ShrinkLanes ==
    ASSUME IndInv, NEW p \in Priorities, NEW k \in 1..Len(queue[p]),
           NEW s \in Seq(Requests), IsWithout(s, queue[p], k),
           queue' = [queue EXCEPT ![p] = s]
    PROVE  /\ queue[p][k] \in Requests
           /\ Lane(queue, queue[p][k]) = p
           /\ \A x \in Requests :
                Lane(queue', x) = IF x = queue[p][k] THEN "none"
                                  ELSE Lane(queue, x)
<1>1. /\ queue[p] \in Seq(Requests)
      /\ ToSet(queue["low"]) \cap ToSet(queue["high"]) = {}
      /\ \A i, j \in 1..Len(queue[p]) : queue[p][i] = queue[p][j] => i = j
  BY QueuesApart
<1>2. ToSet(s) = ToSet(queue[p]) \ {queue[p][k]}
  BY <1>1, SetOfWithout
<1>3. queue[p][k] \in Requests /\ queue[p][k] \in ToSet(queue[p])
  BY <1>1, ElementOfSeq, SetOfSeq
<1>4. queue'[p] = s /\ \A q \in Priorities : q # p => queue'[q] = queue[q]
  BY DEF IndInv, TypeOK
<1>5. CASE p = "low"
  <2>1. /\ ToSet(queue'["low"]) = ToSet(queue["low"]) \ {queue[p][k]}
        /\ ToSet(queue'["high"]) = ToSet(queue["high"])
    BY <1>2, <1>4, <1>5 DEF Priorities
  <2> QED BY <1>1, <1>3, <1>5, <2>1 DEF Lane
<1>6. CASE p = "high"
  <2>1. /\ ToSet(queue'["high"]) = ToSet(queue["high"]) \ {queue[p][k]}
        /\ ToSet(queue'["low"]) = ToSet(queue["low"])
    BY <1>2, <1>4, <1>6 DEF Priorities
  <2> QED BY <1>1, <1>3, <1>6, <2>1 DEF Lane
<1> QED
  BY <1>5, <1>6 DEF Priorities

LEMMA PopLanes ==
    ASSUME IndInv, mu # "free", queue[mu] # <<>>, Pop
    PROVE  /\ mu \in Priorities
           /\ Head(queue[mu]) \in Requests
           /\ Lane(queue, Head(queue[mu])) = mu
           /\ \A x \in Requests :
                Lane(queue', x) = IF x = Head(queue[mu]) THEN "none"
                                  ELSE Lane(queue, x)
<1>1. /\ mu \in Priorities /\ queue[mu] \in Seq(Requests)
      /\ queue' = [queue EXCEPT ![mu] = Tail(queue[mu])]
  BY DEF IndInv, TypeOK, Pop
<1>2. /\ Tail(queue[mu]) \in Seq(Requests)
      /\ Len(queue[mu]) \in Nat /\ Len(queue[mu]) > 0
      /\ Len(Tail(queue[mu])) = Len(queue[mu]) - 1
      /\ \A i \in 1..Len(Tail(queue[mu])) : Tail(queue[mu])[i] = queue[mu][i + 1]
      /\ Head(queue[mu]) = queue[mu][1]
  BY <1>1, TailPositions
<1>3. 1 \in 1..Len(queue[mu])
  BY <1>2
<1>4. \A i \in 1..Len(Tail(queue[mu])) :
        Tail(queue[mu])[i] = IF i < 1 THEN queue[mu][i] ELSE queue[mu][i + 1]
  BY <1>2
<1>5. IsWithout(Tail(queue[mu]), queue[mu], 1)
  BY <1>2, <1>4 DEF IsWithout
<1>6. /\ queue[mu][1] \in Requests
      /\ Lane(queue, queue[mu][1]) = mu
      /\ \A x \in Requests :
           Lane(queue', x) = IF x = queue[mu][1] THEN "none" ELSE Lane(queue, x)
  <2> DEFINE q == mu
             t == Tail(queue[mu])
  <2>1. /\ q \in Priorities /\ 1 \in 1..Len(queue[q]) /\ t \in Seq(Requests)
        /\ IsWithout(t, queue[q], 1) /\ queue' = [queue EXCEPT ![q] = t]
    BY <1>1, <1>2, <1>3, <1>5
  <2> HIDE DEF q, t
  <2>2. /\ queue[q][1] \in Requests
        /\ Lane(queue, queue[q][1]) = q
        /\ \A x \in Requests :
             Lane(queue', x) = IF x = queue[q][1] THEN "none" ELSE Lane(queue, x)
    BY <2>1, ShrinkLanes
  <2> QED BY <2>2 DEF q
<1> QED
  BY <1>1, <1>2, <1>6

LEMMA RemoveLanes ==
    ASSUME IndInv, NEW r \in Requests, RemoveElement(r)
    PROVE  \/ queue' = queue
           \/ /\ Lane(queue, r) # "none"
              /\ \A x \in Requests :
                   Lane(queue', x) = IF x = r THEN "none" ELSE Lane(queue, x)
<1> DEFINE p == req[r].priority
<1>1. p \in Priorities /\ queue[p] \in Seq(Requests)
  BY DEF IndInv, TypeOK, MemoryRequest
<1>2. ASSUME queue' # queue
      PROVE  \E k \in 1..Len(queue[p]) :
               queue[p][k] = r /\ queue' = [queue EXCEPT ![p] = RemoveAt(queue[p], k)]
  BY <1>2 DEF RemoveElement
<1> HIDE DEF p
<1>3. ASSUME NEW k \in 1..Len(queue[p]), queue[p][k] = r,
             queue' = [queue EXCEPT ![p] = RemoveAt(queue[p], k)]
      PROVE  /\ Lane(queue, r) # "none"
             /\ \A x \in Requests :
                  Lane(queue', x) = IF x = r THEN "none" ELSE Lane(queue, x)
  <2>1. /\ RemoveAt(queue[p], k) \in Seq(Requests)
        /\ IsWithout(RemoveAt(queue[p], k), queue[p], k)
    BY <1>1, RemoveAtPositions DEF IsWithout
  <2>2. /\ Lane(queue, queue[p][k]) = p
        /\ \A x \in Requests :
             Lane(queue', x) = IF x = queue[p][k] THEN "none" ELSE Lane(queue, x)
    BY <1>1, <1>3, <2>1, ShrinkLanes
  <2> QED BY <1>1, <1>3, <2>2 DEF Priorities
<1> QED
  BY <1>2, <1>3

\* A request that is served at once meets nobody it would pass, and bumps
\* nobody.
LEMMA ServeNowLanes ==
    ASSUME IndInv, NEW r \in Requests, NEW p \in Priorities, NEW amount,
           NEW n \in 0..Len(queue["low"]), ServeNow(r, amount, p, n)
    PROVE  /\ \A x \in Requests : Lane(queue', x) = Lane(queue, x)
           /\ \A x \in Requests : Lane(queue, x) # "high"
           /\ p = "high" \/ \A x \in Requests : Lane(queue, x) # "low"
<1>1. /\ Bumped(n) \in [Priorities -> Seq(Requests)]
      /\ Movers(n) \subseteq ToSet(queue["low"])
      /\ ToSet(Bumped(n)["high"]) = ToSet(queue["high"]) \cup Movers(n)
      /\ ToSet(Bumped(n)["low"]) = ToSet(queue["low"]) \ Movers(n)
  BY SetOfBumped
<1>2. /\ queue' = Bumped(n)
      /\ Bumped(n)["high"] = <<>> /\ (p = "high" \/ Bumped(n)["low"] = <<>>)
  BY DEF ServeNow, ShouldTry
<1>3. Bumped(n)["high"] \in Seq(Requests) /\ Bumped(n)["low"] \in Seq(Requests)
  BY <1>1 DEF Priorities
<1>4. /\ ToSet(Bumped(n)["high"]) = {}
      /\ p = "high" \/ ToSet(Bumped(n)["low"]) = {}
  BY <1>2, <1>3, SetOfEmpty
<1>5. Movers(n) = {} /\ ToSet(queue["high"]) = {}
      /\ (p = "high" \/ ToSet(queue["low"]) = {})
  BY <1>1, <1>4
<1>6. /\ ToSet(queue'["high"]) = ToSet(queue["high"])
      /\ ToSet(queue'["low"]) = ToSet(queue["low"])
  BY <1>1, <1>2, <1>5
<1> QED
  BY <1>5, <1>6 DEF Lane

-----------------------------------------------------------------------------

\* Who waits holds nothing and has asked for something.
WaitersAsk ==
    \A r \in Requests :
        Lane(queue, r) # "none" => held[r] = 0 /\ req[r].amount \in Amounts

LEMMA AmountsAreNat == \A a \in Amounts : a \in Nat /\ a > 0
BY AmountsAssumption

\* What try grants is what the pool may grant: this is where an amount beyond
\* the base is seen to be granted only to a caller that is alone.
LEMMA GrantFits ==
    ASSUME TypeOK, Conservation, NEW amount \in Amounts, NEW p \in Priorities,
           Grantable(amount, p)
    PROVE  Pool!Fits(amount, p)
<1>1. /\ available \in Nat /\ available <= Base /\ underflow \in Nat
      /\ Base \in Nat /\ Base > 0 /\ Reserve \in Nat
      /\ amount \in Nat /\ amount > 0
  BY AmountsAreNat, BaseAssumption, ReserveAssumption DEF TypeOK
<1>2. Total(held) \in Nat
  BY RequestsAssumption, TotalType DEF TypeOK
<1>0. Pool!Total(held) = Total(held)
  BY DEF Pool!Total, Pool!Units, Pool!Cardinality, Total, Units, Cardinality
<1>3. available + Total(held) = Base + underflow /\ (underflow > 0 => available = 0)
  BY DEF Conservation
<1>4. ASSUME available > 0 PROVE Total(held) = Base - available
  BY <1>1, <1>2, <1>3, <1>4
<1>5. CASE available >= amount + Reserve
  <2>1. Total(held) + amount + Reserve <= Base /\ Total(held) + amount + 0 <= Base
    BY <1>1, <1>4, <1>5
  <2> QED BY <1>0, <2>1 DEF Pool!Fits
<1>6. CASE p = "high" /\ available >= amount
  <2>1. Total(held) + amount + 0 <= Base
    BY <1>1, <1>4, <1>6
  <2> QED BY <1>0, <1>6, <2>1 DEF Pool!Fits
<1>7. CASE available = Base
  <2>1. Total(held) = 0
    BY <1>1, <1>4, <1>7
  <2> QED BY <1>0, <2>1 DEF Pool!Fits
<1> QED
  BY <1>5, <1>6, <1>7 DEF Grantable

LEMMA TakeHolds ==
    ASSUME TypeOK, NEW r \in Requests, NEW amount \in Amounts, held[r] = 0,
           Take(r, amount)
    PROVE  held' = [held EXCEPT ![r] = amount]
<1>1. held' = [held EXCEPT ![r] = held[r] + amount]
  BY DEF Take
<1>2. amount \in Nat
  BY AmountsAreNat
<1>3. held[r] + amount = amount
  BY <1>2
<1> QED
  BY <1>1, <1>3

LEMMA InitPool == Init => WaitersAsk /\ Pool!Init
<1> SUFFICES ASSUME Init PROVE WaitersAsk /\ Pool!Init
  OBVIOUS
<1>1. queue["low"] = <<>> /\ queue["high"] = <<>>
  BY DEF Init, Priorities
<1>2. ToSet(queue["low"]) = {} /\ ToSet(queue["high"]) = {}
  BY <1>1, SetOfEmpty, EmptySeq
<1>3. \A r \in Requests : Lane(queue, r) = "none"
  BY <1>2 DEF Lane
<1> QED
  BY <1>3 DEF Init, WaitersAsk, Pool!Init

\* A call of Request is granted at once or waits.
LEMMA RequestPool ==
    ASSUME IndInv, WaitersAsk, NEW r \in Requests, NEW amount \in Amounts,
           NEW p \in Priorities, Request(r, amount, p)
    PROVE  WaitersAsk' /\ Pool!Next
<1>1. PICK n \in 0..Len(queue["low"]) :
        /\ handleStarvation(n, amount, p)
        /\ ServeNow(r, amount, p, n) \/ Enqueue(r, amount, p, n)
  BY DEF Request
<1>2. held[r] = 0 /\ ~Queued(r) /\ req' = [req EXCEPT ![r] = NewRequest(amount, p)]
  BY DEF Request
<1>3. TypeOK /\ Conservation /\ p \in {"low", "high"}
  BY DEF IndInv, Priorities
<1>4. Lane(queue, r) = "none"
  BY <1>2 DEF Queued, Priorities, Lane
<1>5. /\ req'[r].amount = amount
      /\ \A x \in Requests : x # r => req'[x] = req[x]
  BY <1>2, <1>3 DEF TypeOK, NewRequest
<1>6. CASE ServeNow(r, amount, p, n)
  <2>1. /\ \A x \in Requests : Lane(queue', x) = Lane(queue, x)
        /\ \A x \in Requests : Lane(queue, x) # "high"
        /\ p = "high" \/ \A x \in Requests : Lane(queue, x) # "low"
    BY <1>6, ServeNowLanes
  <2>2. Grantable(amount, p) /\ Take(r, amount)
    BY <1>6 DEF ServeNow
  <2>3. held' = [held EXCEPT ![r] = amount]
    BY <1>2, <1>3, <2>2, TakeHolds
  <2>4. Pool!Fits(amount, p)
    BY <1>3, <2>2, GrantFits
  <2>5. \A x \in Requests : x # r => held'[x] = held[x]
    BY <2>3
  <2>6. WaitersAsk'
    BY <1>4, <1>5, <2>1, <2>5 DEF WaitersAsk
  <2>7. Pool!GrantAtOnce(r, amount, p)
    BY <1>2, <1>4, <2>1, <2>3, <2>4 DEF Pool!GrantAtOnce, Pool!Waiting
  <2> QED BY <1>3, <2>6, <2>7 DEF Pool!Next
<1>7. CASE Enqueue(r, amount, p, n)
  <2>1. \A x \in Requests :
          Lane(queue', x) = IF x = r THEN p
                            ELSE IF x \in Movers(n) THEN "high"
                            ELSE Lane(queue, x)
    BY <1>2, <1>7, EnqueueLanes
  <2>2. held' = held
    BY <1>7 DEF Enqueue
  <2>3. \A x \in Movers(n) : x \in Requests /\ Lane(queue, x) = "low"
    <3>1. /\ ToSet(queue["low"]) \cap ToSet(queue["high"]) = {}
          /\ queue["low"] \in Seq(Requests)
      BY QueuesApart DEF Priorities
    <3>2. Movers(n) \subseteq ToSet(queue["low"])
      BY SetOfBumped
    <3>3. \A x \in ToSet(queue["low"]) : x \in Requests
      BY <3>1, SetOfSeq, ElementOfSeq
    <3> QED BY <3>1, <3>2, <3>3 DEF Lane
  <2>4. Movers(n) = {} \/ p = "high"
    <3>1. n = 0 \/ p = "high"
      BY <1>1 DEF handleStarvation, Starving, CountsAsStarving
    <3>2. n = 0 => Movers(n) = {}
      BY DEF Movers
    <3> QED BY <3>1, <3>2
  <2>5. WaitersAsk'
    BY <1>2, <1>5, <2>1, <2>2, <2>3 DEF WaitersAsk
  <2>6. Movers(n) \in SUBSET Pool!Waiting("low")
    BY <2>3 DEF Pool!Waiting
  <2>7. Pool!Wait(r, p, Movers(n))
    BY <1>2, <1>4, <2>1, <2>2, <2>4 DEF Pool!Wait
  <2> QED BY <1>3, <2>5, <2>6, <2>7 DEF Pool!Next
<1> QED
  BY <1>1, <1>6, <1>7

\* The loop of Return grants the first waiter of its queue.
LEMMA GrantHeadPool ==
    ASSUME IndInv, WaitersAsk, GrantHead
    PROVE  WaitersAsk' /\ Pool!Next
<1> DEFINE r == Head(queue[mu])
<1>1. /\ mu # "free" /\ queue[mu] # <<>> /\ Pop
      /\ Grantable(req[r].amount, mu) /\ Take(r, req[r].amount)
      /\ req' = [req EXCEPT ![r].done = TRUE]
  BY DEF GrantHead
<1>2. /\ mu \in Priorities /\ r \in Requests /\ Lane(queue, r) = mu
      /\ \A x \in Requests :
           Lane(queue', x) = IF x = r THEN "none" ELSE Lane(queue, x)
  BY <1>1, PopLanes
<1> HIDE DEF r
<1>3. TypeOK /\ Conservation /\ HighDrainedFirst
  BY DEF IndInv
<1>4. Lane(queue, r) # "none"
  BY <1>2 DEF Priorities
<1>5. held[r] = 0 /\ req[r].amount \in Amounts
  BY <1>2, <1>4 DEF WaitersAsk
<1>6. held' = [held EXCEPT ![r] = req[r].amount]
  BY <1>1, <1>2, <1>3, <1>5, TakeHolds
<1>7. Pool!Fits(req[r].amount, mu)
  BY <1>1, <1>2, <1>3, <1>5, GrantFits
<1>8. mu = "low" => \A x \in Requests : Lane(queue, x) # "high"
  <2>1. ToSet(<<>>) = {}
    BY SetOfEmpty, EmptySeq
  <2> QED BY <1>3, <2>1 DEF HighDrainedFirst, Lane
<1>9. \A x \in Requests : x # r => held'[x] = held[x] /\ req'[x] = req[x]
  BY <1>1, <1>6
<1>10. WaitersAsk'
  BY <1>2, <1>9 DEF WaitersAsk
<1>11. Pool!GrantWaiter(r, req[r].amount)
  BY <1>2, <1>4, <1>5, <1>6, <1>7, <1>8 DEF Pool!GrantWaiter, Pool!Waiting
<1> QED
  BY <1>2, <1>5, <1>10, <1>11 DEF Pool!Next

\* A waiter leaves its queue with nothing.
LEMMA GiveUpPool ==
    ASSUME IndInv, WaitersAsk, NEW r \in Requests,
           RemoveElement(r) \/ (SkipCanceled /\ r = Head(queue[mu]))
    PROVE  WaitersAsk' /\ [Pool!Next]_(Pool!vars)
<1>1. held' = held /\ req' = req
  BY DEF RemoveElement, SkipCanceled
<1>2. \/ queue' = queue
      \/ /\ Lane(queue, r) # "none"
         /\ \A x \in Requests :
              Lane(queue', x) = IF x = r THEN "none" ELSE Lane(queue, x)
  <2>1. CASE RemoveElement(r)
    BY <2>1, RemoveLanes
  <2>2. CASE SkipCanceled /\ r = Head(queue[mu])
    BY <2>2, PopLanes DEF SkipCanceled, Priorities
  <2> QED BY <2>1, <2>2
<1>3. CASE queue' = queue
  BY <1>1, <1>3 DEF WaitersAsk, Pool!vars
<1>4. CASE /\ Lane(queue, r) # "none"
           /\ \A x \in Requests :
                Lane(queue', x) = IF x = r THEN "none" ELSE Lane(queue, x)
  <2>1. WaitersAsk'
    BY <1>1, <1>4 DEF WaitersAsk
  <2>2. Pool!GiveUp(r)
    BY <1>1, <1>4 DEF Pool!GiveUp
  <2> QED BY <2>1, <2>2 DEF Pool!Next
<1> QED
  BY <1>2, <1>3, <1>4

LEMMA ReturnPool ==
    ASSUME IndInv, WaitersAsk, NEW r \in Requests, NEW n \in 1..held[r],
           Return(r, n)
    PROVE  WaitersAsk' /\ Pool!Next
<1>1. /\ held' = [held EXCEPT ![r] = held[r] - n] /\ queue' = queue
      /\ pc[r] = "using"
      /\ req' = req \/ req' = [req EXCEPT ![r] = NoRequest]
  BY DEF Return
<1>2. held[r] # 0
  BY DEF IndInv, TypeOK
<1>3. Lane(queue, r) = "none"
  BY <1>2 DEF WaitersAsk
<1>4. \A x \in Requests : x # r => held'[x] = held[x] /\ req'[x] = req[x]
  BY <1>1 DEF IndInv, TypeOK
<1>5. WaitersAsk'
  BY <1>1, <1>3, <1>4 DEF WaitersAsk
<1>6. Pool!Return(r, n)
  BY <1>1 DEF Pool!Return
<1> QED
  BY <1>5, <1>6 DEF Pool!Next

\* The steps that only move a lock, a channel or a goroutine.
LEMMA StutterPool ==
    ASSUME WaitersAsk, IndInv, held' = held, queue' = queue,
           \A r \in Requests : req'[r].amount = req[r].amount
    PROVE  WaitersAsk' /\ UNCHANGED Pool!vars
BY DEF WaitersAsk, Pool!vars

LEMMA NextPool ==
    IndInv /\ WaitersAsk /\ [Next]_vars => WaitersAsk' /\ [Pool!Next]_(Pool!vars)
<1> SUFFICES ASSUME IndInv, WaitersAsk, [Next]_vars
             PROVE  WaitersAsk' /\ [Pool!Next]_(Pool!vars)
  OBVIOUS
<1>1. ASSUME NEW r \in Requests, NEW amount \in Amounts, NEW p \in Priorities,
             Request(r, amount, p)
      PROVE  WaitersAsk' /\ Pool!Next
  BY <1>1, RequestPool
<1>2. ASSUME NEW r \in Requests, Wake(r) \/ StopWait(r)
      PROVE  WaitersAsk' /\ UNCHANGED Pool!vars
  BY <1>2, StutterPool DEF Wake, StopWait
<1>3. ASSUME NEW r \in Requests, Cancel(r)
      PROVE  WaitersAsk' /\ UNCHANGED Pool!vars
  <2>1. \A x \in Requests : req'[x].amount = req[x].amount
    BY <1>3 DEF Cancel, IndInv, TypeOK, MemoryRequest
  <2> QED BY <1>3, <2>1, StutterPool DEF Cancel
<1>4. ASSUME NEW r \in Requests, RemoveElement(r)
      PROVE  WaitersAsk' /\ [Pool!Next]_(Pool!vars)
  BY <1>4, GiveUpPool
<1>5. ASSUME NEW r \in Requests, NEW n \in 1..held[r], Return(r, n)
      PROVE  WaitersAsk' /\ Pool!Next
  BY <1>5, ReturnPool
<1>6. CASE SkipCanceled
  <2>1. Head(queue[mu]) \in Requests
    BY <1>6, PopLanes DEF SkipCanceled
  <2> QED BY <1>6, <2>1, GiveUpPool
<1>7. CASE GrantHead
  BY <1>7, GrantHeadPool
<1>8. CASE PushFront \/ Drained \/ Stop \/ UNCHANGED vars
  BY <1>8, StutterPool DEF PushFront, Drained, Stop, vars
<1> QED
  BY <1>1, <1>2, <1>3, <1>4, <1>5, <1>6, <1>7, <1>8 DEF Next, Release

\* The manager implements the pool: grants fit or are alone, leave the reserve
\* to high priority and pass nobody of higher priority, for every interleaving
\* of calls, cancellations and Returns.
THEOREM ManagerImplementsPool == Spec => ImplementsPool
<1>1. Init => WaitersAsk /\ Pool!Init
  BY InitPool
<1>2. IndInv /\ WaitersAsk /\ [Next]_vars => WaitersAsk' /\ [Pool!Next]_(Pool!vars)
  BY NextPool
<1> QED
  BY <1>1, <1>2, IndInvAlways, PTL DEF Spec, ImplementsPool, Pool!Spec

-----------------------------------------------------------------------------
(* What the pool promises about the base. *)

\* Nobody but r has memory in h.
OnlyHolder(h, r) == \A s \in Requests : s # r => h[s] = 0

\* More than the base is out only with a single caller, who asked for it.
AloneBeyondBase ==
    Total(held) > Base => \E r \in Requests : OnlyHolder(held, r)

LEMMA GrantAlone ==
    ASSUME held \in [Requests -> Nat], NEW r \in Requests, NEW amount \in Amounts,
           NEW p, held[r] = 0, Pool!Fits(amount, p),
           held' = [held EXCEPT ![r] = amount]
    PROVE  AloneBeyondBase'
<1>1. amount \in Nat /\ Base \in Nat /\ Reserve \in Nat
  BY AmountsAreNat, BaseAssumption, ReserveAssumption
<1>2. Pool!Total(held) = Total(held)
  BY DEF Pool!Total, Pool!Units, Pool!Cardinality, Total, Units, Cardinality
<1>3. Total(held) \in Nat
  BY RequestsAssumption, TotalType
<1>4. Total(held') = Total(held) - held[r] + amount
  BY <1>1, RequestsAssumption, TotalExcept
<1>5. CASE Total(held) + amount + (IF p = "low" THEN Reserve ELSE 0) <= Base
  <2>1. Total(held') <= Base
    BY <1>1, <1>3, <1>4, <1>5
  <2>2. ~(Total(held') > Base)
    BY <1>1, <1>3, <1>4, <2>1
  <2> QED BY <2>2 DEF AloneBeyondBase
<1>6. CASE Total(held) = 0
  <2>1. \A s \in Requests : held[s] = 0
    BY <1>6, RequestsAssumption, TotalZero
  <2>2. OnlyHolder(held', r)
    BY <2>1 DEF OnlyHolder
  <2> QED BY <2>2 DEF AloneBeyondBase
<1> QED
  BY <1>2, <1>5, <1>6 DEF Pool!Fits

LEMMA ReturnAlone ==
    ASSUME held \in [Requests -> Nat], AloneBeyondBase, NEW r \in Requests,
           NEW n \in 1..held[r], held' = [held EXCEPT ![r] = held[r] - n]
    PROVE  AloneBeyondBase'
<1>1. held[r] \in Nat /\ n \in Nat /\ held[r] - n \in Nat /\ Base \in Nat
  BY BaseAssumption
<1>2. Total(held) \in Nat
  BY RequestsAssumption, TotalType
<1>3. Total(held') = Total(held) - held[r] + (held[r] - n)
  BY <1>1, RequestsAssumption, TotalExcept
<1>4. ASSUME Total(held') > Base PROVE \E s \in Requests : OnlyHolder(held', s)
  <2>1. Total(held) > Base
    BY <1>1, <1>2, <1>3, <1>4
  <2>2. PICK s \in Requests : OnlyHolder(held, s)
    BY <2>1 DEF AloneBeyondBase
  <2>3. s = r
    BY <1>1, <2>2 DEF OnlyHolder
  <2> QED BY <2>2, <2>3 DEF OnlyHolder
<1> QED
  BY <1>4 DEF AloneBeyondBase

\* try lets a request larger than the base through when nothing is out, and
\* then nobody else gets memory before the pool is within the base again.
THEOREM BeyondBaseAlone == Spec => []AloneBeyondBase
<1>1. Init => AloneBeyondBase
  <2> SUFFICES ASSUME Init PROVE AloneBeyondBase
    OBVIOUS
  <2>1. Total(held) = 0
    BY RequestsAssumption, TotalZero DEF Init
  <2> QED BY <2>1, BaseAssumption DEF AloneBeyondBase
<1>2. TypeOK /\ AloneBeyondBase /\ [Pool!Next]_(Pool!vars) => AloneBeyondBase'
  <2> SUFFICES ASSUME TypeOK, AloneBeyondBase, [Pool!Next]_(Pool!vars)
               PROVE  AloneBeyondBase'
    OBVIOUS
  <2>1. held \in [Requests -> Nat]
    BY DEF TypeOK
  <2>2. ASSUME NEW r \in Requests, NEW amount \in Amounts, NEW p,
               Pool!GrantAtOnce(r, amount, p)
        PROVE  AloneBeyondBase'
    BY <2>1, <2>2, GrantAlone DEF Pool!GrantAtOnce
  <2>3. ASSUME NEW r \in Requests, NEW amount \in Amounts,
               Pool!GrantWaiter(r, amount)
        PROVE  AloneBeyondBase'
    <3>1. PICK p : Pool!Fits(amount, p)
      BY <2>3 DEF Pool!GrantWaiter
    <3> QED BY <2>1, <2>3, <3>1, GrantAlone DEF Pool!GrantWaiter
  <2>4. ASSUME NEW r \in Requests, NEW n \in 1..held[r], Pool!Return(r, n)
        PROVE  AloneBeyondBase'
    BY <2>1, <2>4, ReturnAlone DEF Pool!Return
  <2>5. ASSUME held' = held PROVE AloneBeyondBase'
    BY <2>5 DEF AloneBeyondBase
  <2> QED
    BY <2>2, <2>3, <2>4, <2>5
    DEF Pool!Next, Pool!Wait, Pool!GiveUp, Pool!vars
<1> QED
  BY <1>1, <1>2, TypeCorrect, ManagerImplementsPool, PTL
  DEF Spec, ImplementsPool, Pool!Spec

=============================================================================
