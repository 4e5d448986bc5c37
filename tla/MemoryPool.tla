----------------------------- MODULE MemoryPool -----------------------------
(***************************************************************************)
(* What memoryManager promises its callers, without its lock, its lists,   *)
(* its channels and its counters: who holds how much memory, and at which  *)
(* priority the others wait.  Memory is granted to a caller that fits into *)
(* the base, where low priority leaves the reserve alone, or that is       *)
(* alone; and nobody is granted memory past a waiter of higher priority.   *)
(***************************************************************************)
EXTENDS Totals

CONSTANTS Requests, Amounts, Base, Reserve

VARIABLES
    held,            \* the memory of each request
    lane             \* the priority it waits at, or "none"

vars == <<held, lane>>

Waiting(p) == {r \in Requests : lane[r] = p}

Fits(amount, p) ==
    \/ Total(held) + amount + (IF p = "low" THEN Reserve ELSE 0) <= Base
    \/ Total(held) = 0

Init ==
    /\ held = [r \in Requests |-> 0]
    /\ lane = [r \in Requests |-> "none"]

\* A request that finds no waiter it would pass is granted its memory at once.
GrantAtOnce(r, amount, p) ==
    /\ held[r] = 0 /\ lane[r] = "none"
    /\ Waiting("high") = {} /\ (p = "high" \/ Waiting("low") = {})
    /\ Fits(amount, p)
    /\ held' = [held EXCEPT ![r] = amount]
    /\ UNCHANGED lane

\* A request waits.  Low priority waiters that starve move to high priority.
Wait(r, p, bumped) ==
    /\ held[r] = 0 /\ lane[r] = "none"
    /\ bumped = {} \/ p = "high"
    /\ lane' = [s \in Requests |-> IF s = r THEN p
                                   ELSE IF s \in bumped THEN "high"
                                   ELSE lane[s]]
    /\ UNCHANGED held

\* A waiter is granted its memory, a low priority one only when nobody waits
\* at high priority.
GrantWaiter(r, amount) ==
    /\ lane[r] # "none" /\ held[r] = 0
    /\ lane[r] = "low" => Waiting("high") = {}
    /\ Fits(amount, lane[r])
    /\ held' = [held EXCEPT ![r] = amount]
    /\ lane' = [lane EXCEPT ![r] = "none"]

\* A waiter gives up.
GiveUp(r) ==
    /\ lane[r] # "none"
    /\ lane' = [lane EXCEPT ![r] = "none"]
    /\ UNCHANGED held

Return(r, n) ==
    /\ held' = [held EXCEPT ![r] = @ - n]
    /\ UNCHANGED lane

Next ==
    \E r \in Requests :
      \/ \E amount \in Amounts :
           \/ \E p \in {"low", "high"} : GrantAtOnce(r, amount, p)
           \/ GrantWaiter(r, amount)
      \/ \E p \in {"low", "high"}, bumped \in SUBSET Waiting("low") :
           Wait(r, p, bumped)
      \/ GiveUp(r)
      \/ \E n \in 1..held[r] : Return(r, n)

Spec == Init /\ [][Next]_vars

=============================================================================
