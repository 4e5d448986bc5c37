---------------------------- MODULE MemoryManager ----------------------------
(***************************************************************************)
(* memoryManager of skymodules/renter/memory.go: a pool of Base units of   *)
(* memory that goroutines take from with Request and give back to with     *)
(* Return.  Requests that cannot be served wait in a low or a high         *)
(* priority fifo.  Every step below runs under mm.mu, except Wake, Cancel  *)
(* and StopWait, which are the arms of the select a blocked Request is in. *)
(* The loop of Return that unblocks waiters holds mm.mu for several        *)
(* steps, one per iteration, because contexts are canceled meanwhile.      *)
(***************************************************************************)
EXTENDS Sequences, SequencesExt, Totals

CONSTANTS
    Requests,        \* memoryRequest objects; one is reused once it is garbage
    Cancelable,      \* the requests whose context may get canceled
    Amounts,         \* the amounts of memory that callers ask for
    Base,            \* mm.base
    Reserve          \* mm.priorityReserve

ASSUME RequestsAssumption == IsFiniteSet(Requests)
ASSUME AmountsAssumption  == Amounts \subseteq Nat \ {0}
ASSUME BaseAssumption     == Base \in Nat \ {0}
ASSUME ReserveAssumption  == Reserve \in Nat

VARIABLES
    available,       \* mm.available
    underflow,       \* mm.underflow
    memSinceLowPriority,
    queue,           \* queue.low is mm.fifo, queue.high is mm.priorityFifo
    mu,              \* "free", or the queue that a running Return works on
    req,             \* the memoryRequest of each caller
    tracked,         \* requests that are still in the list element Request made
    pc,              \* where the call of Request is
    held,            \* memory taken for the request and not given back
    stopped          \* staticStop is closed

vars == <<available, underflow, memSinceLowPriority, queue, mu, req, tracked,
          pc, held, stopped>>

Priorities == {"low", "high"}

NewRequest(a, p) == [amount |-> a, priority |-> p, done |-> FALSE,
                     canceled |-> FALSE]

NoRequest == NewRequest(0, "low")

MemoryRequest == [amount : Amounts \cup {0}, priority : Priorities,
                  done : BOOLEAN, canceled : BOOLEAN]

memoryPriorityStarvationMultiple == 4
memoryPriorityStarvationDivisor == 4

\* newMemoryManager.
Init ==
    /\ available = Base
    /\ underflow = 0
    /\ memSinceLowPriority = 0
    /\ queue = [p \in Priorities |-> <<>>]
    /\ mu = "free"
    /\ req = [r \in Requests |-> NoRequest]
    /\ tracked = {}
    /\ pc = [r \in Requests |-> "idle"]
    /\ held = [r \in Requests |-> 0]
    /\ stopped = FALSE

Queued(r) == \E p \in Priorities : r \in ToSet(queue[p])

-----------------------------------------------------------------------------
(* try *)

\* Mutant of Grantable: no request is larger than the base.
GrantableWithinAvailable(amount, p) ==
    \/ available >= amount + Reserve
    \/ p = "high" /\ available >= amount

\* Mutant of Grantable: low priority requests may use the reserve.
GrantableIntoReserve(amount, p) == available >= amount \/ available = Base

\* The condition under which try succeeds: a low priority request leaves the
\* reserve alone, and when all memory is there every request is served.
Grantable(amount, p) ==
    \/ available >= amount + Reserve
    \/ p = "high" /\ available >= amount
    \/ available = Base

\* Mutant of Take: a large request is subtracted like any other.
TakeWithoutClamp(r, amount) ==
    /\ available' = available - amount
    /\ underflow' = underflow
    /\ held' = [held EXCEPT ![r] = @ + amount]

\* Mutant of Take: the pool is emptied and the underflow forgotten.
TakeWithoutUnderflow(r, amount) ==
    /\ available' = IF amount <= available THEN available - amount ELSE 0
    /\ underflow' = underflow
    /\ held' = [held EXCEPT ![r] = @ + amount]

\* What a successful try does to the pool.
Take(r, amount) ==
    /\ available' = IF amount <= available THEN available - amount ELSE 0
    /\ underflow' = IF amount <= available THEN underflow ELSE amount - Base
    /\ held' = [held EXCEPT ![r] = @ + amount]

-----------------------------------------------------------------------------
(* Request *)

\* The starvation tracker counts what is asked at high priority while low
\* priority requests wait.
CountsAsStarving(p) == p = "high" /\ queue["low"] # <<>>

Starving(amount, p) ==
    /\ CountsAsStarving(p)
    /\ memSinceLowPriority + amount >= Base * memoryPriorityStarvationMultiple

\* The memory that the first n low priority waiters ask for.
FrontAmount(n) == Total([i \in 1..n |-> req[queue["low"][i]].amount])

\* n waiters move to the high priority queue: as few as reach a quarter of
\* the base, or all of them.
IsBump(n) ==
    /\ n = Len(queue["low"])
         \/ FrontAmount(n) >= Base \div memoryPriorityStarvationDivisor
    /\ \A m \in 0..(n-1) :
         FrontAmount(m) < Base \div memoryPriorityStarvationDivisor

\* Mutant of handleStarvation: nobody is bumped.
handleStarvationNever(n, amount, p) == n = 0

\* handleStarvation moves n waiters.
handleStarvation(n, amount, p) ==
    IF Starving(amount, p) THEN IsBump(n) ELSE n = 0

\* Mutant of Bumped: the bumped waiters stay in the low priority queue too.
BumpedTwice(n) ==
    [queue EXCEPT !["high"] = @ \o SubSeq(queue["low"], 1, n)]

\* The queues once n waiters were bumped.
Bumped(n) ==
    [p \in Priorities |->
        IF p = "low" THEN SubSeq(queue["low"], n + 1, Len(queue["low"]))
        ELSE queue["high"] \o SubSeq(queue["low"], 1, n)]

\* The waiters of q go first.
ShouldTry(q, p) == q["high"] = <<>> /\ (p = "high" \/ q["low"] = <<>>)

Counter(amount, p) ==
    IF Starving(amount, p) THEN 0
    ELSE IF CountsAsStarving(p) THEN memSinceLowPriority + amount
         ELSE memSinceLowPriority

\* The request is served at once, after n waiters were bumped.
ServeNow(r, amount, p, n) ==
    /\ ShouldTry(Bumped(n), p) /\ Grantable(amount, p)
    /\ Take(r, amount)
    /\ memSinceLowPriority' = IF p = "low" THEN 0 ELSE Counter(amount, p)
    /\ queue' = Bumped(n)
    /\ tracked' = tracked \ ToSet(SubSeq(queue["low"], 1, n))
    /\ pc' = [pc EXCEPT ![r] = "using"]

\* The request joins the end of its queue.
Enqueue(r, amount, p, n) ==
    /\ ~(ShouldTry(Bumped(n), p) /\ Grantable(amount, p))
    /\ memSinceLowPriority' = Counter(amount, p)
    /\ queue' = [Bumped(n) EXCEPT ![p] = Append(@, r)]
    /\ tracked' = (tracked \ ToSet(SubSeq(queue["low"], 1, n))) \cup {r}
    /\ pc' = [pc EXCEPT ![r] = "blocked"]
    /\ UNCHANGED <<available, underflow, held>>

Request(r, amount, p) ==
    /\ mu = "free"
    /\ pc[r] \in {"idle", "failed"} /\ held[r] = 0 /\ ~Queued(r)
    /\ req' = [req EXCEPT ![r] = NewRequest(amount, p)]
    /\ \E n \in 0..Len(queue["low"]) :
         /\ handleStarvation(n, amount, p)
         /\ ServeNow(r, amount, p, n) \/ Enqueue(r, amount, p, n)
    /\ UNCHANGED <<mu, stopped>>

\* The select of Request: done is closed.
Wake(r) ==
    /\ pc[r] = "blocked" /\ req[r].done
    /\ pc' = [pc EXCEPT ![r] = "using"]
    /\ UNCHANGED <<available, underflow, memSinceLowPriority, queue, mu, req,
                   tracked, held, stopped>>

\* The select of Request: the context is done.  When done is closed as well
\* the select may still take this arm.
Cancel(r) ==
    /\ r \in Cancelable
    /\ pc[r] = "blocked"
    /\ req' = [req EXCEPT ![r].canceled = TRUE]
    /\ pc' = [pc EXCEPT ![r] = "canceling"]
    /\ UNCHANGED <<available, underflow, memSinceLowPriority, queue, mu,
                   tracked, held, stopped>>

\* The canceled Request takes the lock, removes its list element if that is
\* still the one in the list, and returns false.
RemoveElement(r) ==
    /\ pc[r] = "canceling" /\ mu = "free"
    /\ \/ \E i \in 1..Len(queue[req[r].priority]) :
            /\ r \in tracked /\ queue[req[r].priority][i] = r
            /\ queue' = [queue EXCEPT ![req[r].priority] = RemoveAt(@, i)]
       \/ r \notin tracked /\ UNCHANGED queue
    /\ tracked' = tracked \ {r}
    /\ pc' = [pc EXCEPT ![r] = "failed"]
    /\ UNCHANGED <<available, underflow, memSinceLowPriority, mu, req, held,
                   stopped>>

\* The select of Request: staticStop is closed.  The request stays queued.
StopWait(r) ==
    /\ pc[r] = "blocked" /\ stopped
    /\ pc' = [pc EXCEPT ![r] = "failed"]
    /\ UNCHANGED <<available, underflow, memSinceLowPriority, queue, mu, req,
                   tracked, held, stopped>>

Stop ==
    /\ ~stopped
    /\ stopped' = TRUE
    /\ UNCHANGED <<available, underflow, memSinceLowPriority, queue, mu, req,
                   tracked, pc, held>>

-----------------------------------------------------------------------------
(* Return *)

\* Mutant of AvailableAfter: the underflow is not paid off.
AvailableAfterAll(n) == available + n

\* What is available once n units came back, before the sanity check.
AvailableAfter(n) == available + n - underflow

\* A caller gives n units of what it holds back.  The lock stays taken for
\* the loops that follow, unless the underflow swallowed everything.
Return(r, n) ==
    /\ mu = "free" /\ pc[r] = "using"
    /\ held' = [held EXCEPT ![r] = @ - n]
    /\ IF underflow > 0 /\ n <= underflow
       THEN /\ underflow' = underflow - n
            /\ UNCHANGED <<available, mu>>
       ELSE /\ underflow' = 0
            /\ available' = IF AvailableAfter(n) > Base THEN Base
                            ELSE AvailableAfter(n)
            /\ mu' = "high"
    /\ IF n = held[r]
       THEN /\ pc' = [pc EXCEPT ![r] = "idle"]
            /\ req' = [req EXCEPT ![r] = NoRequest]
       ELSE UNCHANGED <<pc, req>>
    /\ UNCHANGED <<memSinceLowPriority, queue, tracked, stopped>>

\* Pop of the queue the loop works on.
Pop == queue' = [queue EXCEPT ![mu] = Tail(@)]

\* The loop skips a canceled request.
SkipCanceled ==
    /\ mu # "free" /\ queue[mu] # <<>>
    /\ req[Head(queue[mu])].canceled
    /\ Pop
    /\ tracked' = tracked \ {Head(queue[mu])}
    /\ UNCHANGED <<available, underflow, memSinceLowPriority, mu, req, pc,
                   held, stopped>>

\* The loop serves the first request and closes its done channel.
GrantHead ==
    /\ mu # "free" /\ queue[mu] # <<>>
    /\ LET r == Head(queue[mu]) IN
         /\ ~req[r].canceled
         /\ Grantable(req[r].amount, mu)
         /\ Take(r, req[r].amount)
         /\ req' = [req EXCEPT ![r].done = TRUE]
         /\ tracked' = tracked \ {r}
    /\ Pop
    /\ memSinceLowPriority' = IF mu = "low" THEN 0 ELSE memSinceLowPriority
    /\ UNCHANGED <<mu, pc, stopped>>

\* The loop meets a request it cannot serve: it goes back to the front, in a
\* new list element, and Return returns.
PushFront ==
    /\ mu # "free" /\ queue[mu] # <<>>
    /\ LET r == Head(queue[mu]) IN
         /\ ~req[r].canceled
         /\ ~Grantable(req[r].amount, mu)
         /\ tracked' = tracked \ {r}
    /\ mu' = "free"
    /\ UNCHANGED <<available, underflow, memSinceLowPriority, queue, req, pc,
                   held, stopped>>

\* The loop has emptied its queue.
Drained ==
    /\ mu # "free" /\ queue[mu] = <<>>
    /\ mu' = IF mu = "high" THEN "low" ELSE "free"
    /\ UNCHANGED <<available, underflow, memSinceLowPriority, queue, req,
                   tracked, pc, held, stopped>>

Release == SkipCanceled \/ GrantHead \/ PushFront \/ Drained

-----------------------------------------------------------------------------

Next ==
    \/ \E r \in Requests, amount \in Amounts, p \in Priorities :
         Request(r, amount, p)
    \/ \E r \in Requests :
         \/ Wake(r)
         \/ Cancel(r)
         \/ RemoveElement(r)
         \/ StopWait(r)
         \/ \E n \in 1..held[r] : Return(r, n)
    \/ Release
    \/ Stop

Spec == Init /\ [][Next]_vars

\* A goroutine that can run does; a Go mutex hands itself to a waiter that
\* has starved, so a goroutine that keeps finding it free gets it; and every
\* caller of Request gives its memory back.
Fairness ==
    /\ WF_vars(Release)
    /\ \A r \in Requests :
         /\ WF_vars(Wake(r))
         /\ WF_vars(StopWait(r))
         /\ SF_vars(RemoveElement(r))
         /\ SF_vars(\E n \in 1..held[r] : Return(r, n))

FairSpec == Spec /\ Fairness

-----------------------------------------------------------------------------
(* Properties *)

\* Every variable has its type, and available, an unsigned counter in the
\* code, stays between zero and the base through try and Return.
TypeOK ==
    /\ available \in 0..Base
    /\ underflow \in Nat
    /\ memSinceLowPriority \in Nat
    /\ queue \in [Priorities -> Seq(Requests)]
    /\ mu \in {"free"} \cup Priorities
    /\ req \in [Requests -> MemoryRequest]
    /\ tracked \subseteq Requests
    /\ pc \in [Requests -> {"idle", "blocked", "canceling", "using", "failed"}]
    /\ held \in [Requests -> Nat]
    /\ stopped \in BOOLEAN

\* No unit of memory is made or lost by the manager: what is available and
\* what was granted and not returned is the base plus the underflow, and there
\* is an underflow only when nothing is available (try and Return).
Conservation ==
    /\ available + Total(held) = Base + underflow
    /\ underflow > 0 => available = 0

\* The sanity check of Return ("too much memory returned") fires for no Return
\* that a caller may make.
ReturnWithinBase ==
    \A r \in Requests : \A n \in 1..held[r] : AvailableAfter(n) <= Base

\* Whoever waits has somebody to wake it: while a request is queued and no
\* Return is running, memory is out with a request whose call was made, so a
\* Return is still due (or, after a cancellation, was forgotten).
WaitersHaveWaker ==
    mu = "free" /\ (\E p \in Priorities : queue[p] # <<>>) =>
        available < Base /\ \E r \in Requests : held[r] > 0 /\ pc[r] # "idle"

\* A request is in the queues at most once and its done channel is open, so
\* that Return closes no channel twice.
QueuedOnce ==
    \A p, q \in Priorities :
      \A i \in 1..Len(queue[p]), j \in 1..Len(queue[q]) :
        /\ ~req[queue[p][i]].done
        /\ queue[p][i] = queue[q][j] => p = q /\ i = j

\* The priority that a request in the queues q is served with.
Lane(q, r) == IF r \in ToSet(q["high"]) THEN "high"
              ELSE IF r \in ToSet(q["low"]) THEN "low"
              ELSE "none"

Pool == INSTANCE MemoryPool WITH lane <- [r \in Requests |-> Lane(queue, r)]

\* The manager is the pool that MemoryPool promises, however Request, the
\* loops of Return and the canceled waiters interleave: a grant fits into the
\* base, leaves the reserve to high priority, or goes to a caller that is
\* alone; it passes no waiter of higher priority; and who waits holds nothing.
ImplementsPool == Pool!Spec

\* Starvation protection: a request whose context is not canceled returns,
\* whatever other requests at either priority keep arriving.
EveryRequestReturns ==
    \A r \in Requests \ Cancelable : pc[r] = "blocked" ~> pc[r] # "blocked"

\* The comment of Request: "If 'false' is returned, it means that the function
\* returned before the memory could be allocated."  A request in "canceling"
\* has chosen to return false.
FalseMeansNotAllocated ==
    \A r \in Requests : pc[r] = "canceling" => held[r] = 0

=============================================================================
