------------------------- MODULE WorkerAccountProofs -------------------------
(***************************************************************************)
(* Invariants of WorkerAccount for every set of jobs, all costs, targets   *)
(* and bounds, on hosts with and without subscriptions.  IndInv ties the   *)
(* pending counters to what the threads do; Books adds what the balances   *)
(* need.                                                                   *)
(***************************************************************************)
EXTENDS WorkerAccount, TotalsProofs, TLAPS

\* What ties the positions of the threads to the money they have in motion.
Positions ==
    /\ \A w \in Payers :
         /\ taken[w] <= cost[w]
         /\ wpc[w] \notin {"sent", "answered"} => cost[w] = 0
         /\ wpc[w] = "sent" => taken[w] = 0
         /\ wpc[w] = "answered" => owed[w] <= taken[w]
         /\ wpc[w] \notin {"answered", "refunded"} => owed[w] = 0
         /\ wpc[w] # "depositing" => tracked[w] = 0
    /\ refill \in {"idle", "launched"} => deposit = 0

\* The subscription loop holds the mutex while it pays, and gets nothing back
\* of what fills its budget up.
SubPaying ==
    /\ wpc[Sub] \in {"idle", "sent", "answered"} /\ owed[Sub] = 0
    /\ wpc[Sub] # "idle" <=> subscription \in {"begin", "refill"}
    /\ wpc[Sub] # "idle" => accountSyncMu = "sub"
    /\ wpc[Sub] # "idle" => cost[Sub] = Budget - budget
    /\ wpc[Sub] = "answered" => taken[Sub] = cost[Sub]
    /\ subscription \in {"none", "begin"} => budget = 0

\* No job is launched from the moment the work loop found the worker idle, and
\* the balance request is out while the work loop holds the mutex.
SyncAlone ==
    /\ loop \in {"syncLock", "syncRPC", "syncApply"} => isIdle
    /\ loop \in {"syncRPC", "syncApply"} => accountSyncMu = "sync"

IndInv ==
    /\ TypeOK
    /\ Positions
    /\ SubPaying
    /\ SyncAlone
    /\ PendingMatches

-----------------------------------------------------------------------------
\* The payers are a finite set, so that what they track has a total.
LEMMA PayersFinite == IsFiniteSet(Payers) /\ Sub \in Payers /\ Jobs \subseteq Payers
  BY JobsAssumption, FS_AddElement DEF Payers

\* The total of nothing.
LEMMA NoTotalIsZero == NoTotal \in [Payers -> Nat] /\ Total(NoTotal) = 0
<1>1. NoTotal \in [Payers -> Nat] /\ \A w \in Payers : NoTotal[w] = 0
  BY DEF NoTotal
<1> QED  BY <1>1, TotalZero, PayersFinite

\* What changing one payer does to a total.
LEMMA PayerTotal ==
    ASSUME NEW f \in [Payers -> Nat], NEW w \in Payers, NEW n \in Nat
    PROVE  /\ Total([f EXCEPT ![w] = n]) = Total(f) - f[w] + n
           /\ Total(f) \in Nat /\ f[w] \in Nat /\ f[w] <= Total(f)
<1>1. Total([f EXCEPT ![w] = n]) = Total(f) - f[w] + n
  BY TotalExcept, PayersFinite
<1>2. Total(f) \in Nat /\ f[w] <= Total(f)
  BY TotalType, PayersFinite
<1> QED  BY <1>1, <1>2

\* Commits keep every amount a natural number.
LEMMA CommitWithdrawalType ==
    ASSUME TypeOK, NEW n \in Nat, NEW r \in Nat, NEW s \in BOOLEAN,
           managedCommitWithdrawal(n, r, s)
    PROVE  /\ balance' \in Nat /\ negativeBalance' \in Nat
           /\ pendingWithdrawals' \in Nat /\ spending' \in Nat
  BY DEF TypeOK, managedCommitWithdrawal, CurrencySub

\* So does the deposit of a refill or of a closed subscription.
LEMMA CreditType ==
    ASSUME TypeOK, NEW n \in Nat, Credit(n)
    PROVE  balance' \in Nat /\ negativeBalance' \in Nat
  BY DEF TypeOK, Credit

\* And the commit of a deposit, whether it succeeded or not.
LEMMA CommitDepositType ==
    ASSUME TypeOK, NEW n \in Nat, NEW s \in BOOLEAN, managedCommitDeposit(n, s)
    PROVE  balance' \in Nat /\ negativeBalance' \in Nat /\ pendingDeposits' \in Nat
<1>1. pendingDeposits' \in Nat
  BY DEF TypeOK, managedCommitDeposit, CurrencySub
<1>2. CASE s
  BY <1>1, <1>2, CreditType DEF managedCommitDeposit
<1>3. CASE ~s
  BY <1>1, <1>3 DEF managedCommitDeposit, TypeOK
<1> QED  BY <1>2, <1>3

\* A request that is given up leaves its cost behind, and history.
LEMMA AbandonType ==
    ASSUME TypeOK, NEW w \in Payers, Abandon(w)
    PROVE  /\ late' \in [Payers -> Nat] /\ owed' \in [Payers -> Nat]
           /\ tracked' \in [Payers -> Nat] /\ missed' \in Nat \cup {Unknown}
           /\ wpc' = [wpc EXCEPT ![w] = "idle"]
  BY DEF TypeOK, Abandon

\* A withdrawal that is tracked is added to the sum, and one that is committed
\* with all of its cost is taken out of it.
LEMMA TrackSum ==
    ASSUME TypeOK, pendingWithdrawals = Total(cost),
           NEW w \in Payers, NEW n \in Nat, cost[w] = 0,
           managedTrackWithdrawal(w, n)
    PROVE  /\ cost' = [cost EXCEPT ![w] = n] /\ cost' \in [Payers -> Nat]
           /\ pendingWithdrawals' = Total(cost') /\ pendingWithdrawals' \in Nat
<1>1. cost \in [Payers -> Nat] /\ cost' = [cost EXCEPT ![w] = n]
  BY DEF TypeOK, managedTrackWithdrawal
<1>2. Total(cost') = Total(cost) - cost[w] + n
  BY <1>1, TotalExcept, PayersFinite
<1>3. Total(cost) \in Nat
  BY <1>1, TotalType, PayersFinite
<1> QED  BY <1>1, <1>2, <1>3 DEF managedTrackWithdrawal

\* A settled payer leaves the sum, and the counter does not underflow.
LEMMA CommitSum ==
    ASSUME TypeOK, pendingWithdrawals = Total(cost),
           NEW w \in Payers, NEW n \in Nat, NEW r \in Nat, NEW s \in BOOLEAN,
           cost[w] = n + r, managedCommitWithdrawal(n, r, s),
           cost' = [cost EXCEPT ![w] = 0]
    PROVE  pendingWithdrawals' = Total(cost')
<1>1. cost \in [Payers -> Nat]
  BY DEF TypeOK
<1>0. 0 \in Nat
  OBVIOUS
<1>2. Total(cost') = Total(cost) - cost[w] + 0
  BY <1>0, <1>1, TotalExcept, PayersFinite
<1>3. Total(cost) \in Nat /\ cost[w] <= Total(cost) /\ cost[w] \in Nat
  BY <1>1, TotalType, PayersFinite
<1> QED  BY <1>2, <1>3 DEF managedCommitWithdrawal, CurrencySub

-----------------------------------------------------------------------------
(* Types *)

\* Every step keeps the types.
LEMMA TypeStep == IndInv /\ [Next]_vars => TypeOK'
<1> SUFFICES ASSUME IndInv, [Next]_vars PROVE TypeOK'
  OBVIOUS
<1> USE PayersFinite, CostsAssumption, TargetAssumption, BudgetAssumption
<1>1. ASSUME NEW j \in Jobs, LaunchJob(j) \/ JobQuits(j) PROVE TypeOK'
  BY <1>1 DEF IndInv, TypeOK, LaunchJob, JobQuits, accountVars, loopVars,
              refundVars, refillVars, subVars
<1>2. ASSUME NEW j \in Jobs, NEW c \in Costs, SendProgram(j, c) PROVE TypeOK'
  BY <1>2 DEF IndInv, TypeOK, SendProgram, managedTrackWithdrawal, loopVars,
              refundVars, refillVars, subVars
<1>3. ASSUME NEW j \in Jobs, JobDone(j) \/ JobFails(j) PROVE TypeOK'
  <2>1. taken[j] \in Nat /\ cost[j] - taken[j] \in Nat
    BY DEF IndInv, TypeOK, Positions
  <2>2. /\ balance' \in Nat /\ negativeBalance' \in Nat
        /\ pendingWithdrawals' \in Nat /\ spending' \in Nat
    BY <1>3, <2>1, CommitWithdrawalType DEF JobDone, JobFails, IndInv
  <2>3. CASE JobDone(j)
    BY <2>2, <2>3 DEF IndInv, TypeOK, JobDone, Settled, loopVars, refundVars,
              refillVars, subVars
  <2>4. CASE JobFails(j)
    <3>1. /\ late' \in [Payers -> Nat] /\ owed' \in [Payers -> Nat]
          /\ tracked' \in [Payers -> Nat] /\ missed' \in Nat \cup {Unknown}
          /\ wpc' = [wpc EXCEPT ![j] = "idle"]
      BY <2>4, AbandonType DEF IndInv, JobFails
    <3> QED  BY <2>2, <2>4, <3>1 DEF IndInv, TypeOK, JobFails, Settled, loopVars,
              refillVars, subVars
  <2> QED  BY <1>3, <2>3, <2>4
<1>4. CASE LaunchRefill \/ RefillReads \/ RefillTracks
  <2>1. Total(owed) \in Nat
    BY TotalType DEF IndInv, TypeOK
  <2> QED  BY <1>4, <2>1 DEF IndInv, TypeOK, LaunchRefill, RefillReads,
              RefillTracks, accountVars, loopVars, withdrawalVars, refundVars, subVars
<1>5. CASE RefillDone \/ RefillFails \/ RefillRejected
  <2>1. deposit \in Nat
    BY DEF IndInv, TypeOK
  <2>2. balance' \in Nat /\ negativeBalance' \in Nat /\ pendingDeposits' \in Nat
    BY <1>5, <2>1, CommitDepositType DEF RefillDone, RefillFails, RefillRejected,
              IndInv
  <2>3. CASE RefillDone
    BY <2>2, <2>3 DEF IndInv, TypeOK, RefillDone, loopVars, withdrawalVars,
              refundVars, subVars
  <2>4. CASE RefillFails
    BY <2>2, <2>4 DEF IndInv, TypeOK, RefillFails, loopVars, withdrawalVars,
              refundVars, subVars
  <2>5. CASE RefillRejected
    BY <2>2, <2>5 DEF IndInv, TypeOK, RefillRejected, withdrawalVars, refundVars,
              subVars
  <2> QED  BY <1>5, <2>3, <2>4, <2>5
<1>6. CASE SubBegin \/ SubRefill
  <2>1. PICK n \in Nat, at \in {"begin", "refill"} : SubPays(n, at)
    BY <1>6 DEF SubBegin, SubRefill, IndInv, TypeOK
  <2> QED  BY <2>1 DEF IndInv, TypeOK, SubPays, managedTrackWithdrawal,
              loopVars, refundVars, refillVars
<1>7. CASE SubBegun \/ SubRefilled \/ SubFails
  <2>1. cost[Sub] \in Nat /\ Budget \in Nat /\ 0 \in Nat
    BY DEF IndInv, TypeOK
  <2>2. /\ balance' \in Nat /\ negativeBalance' \in Nat
        /\ pendingWithdrawals' \in Nat /\ spending' \in Nat
    BY <1>7, <2>1, CommitWithdrawalType DEF SubBegun, SubRefilled, SubFails, IndInv
  <2>3. CASE SubBegun
    BY <2>2, <2>3 DEF IndInv, TypeOK, SubBegun, Settled, loopVars, refundVars,
              refillVars, drifted
  <2>4. CASE SubRefilled
    BY <2>2, <2>4 DEF IndInv, TypeOK, SubRefilled, Settled, loopVars, refundVars,
              refillVars
  <2>5. CASE SubFails
    <3>1. /\ late' \in [Payers -> Nat] /\ owed' \in [Payers -> Nat]
          /\ tracked' \in [Payers -> Nat] /\ missed' \in Nat \cup {Unknown}
          /\ wpc' = [wpc EXCEPT ![Sub] = "idle"]
      BY <2>5, AbandonType DEF IndInv, SubFails
    <3> QED  BY <2>2, <2>5, <3>1 DEF IndInv, TypeOK, SubFails, Settled, loopVars,
              refillVars
  <2> QED  BY <1>7, <2>3, <2>4, <2>5
<1>8. CASE SubSpend
  BY <1>8 DEF IndInv, TypeOK, SubSpend, accountVars, loopVars, withdrawalVars,
              refundVars, refillVars
<1>9. CASE SubEnd
  <2>1. balance' \in Nat /\ negativeBalance' \in Nat
    BY <1>9, CreditType DEF SubEnd, IndInv, TypeOK
  <2> QED  BY <1>9, <2>1 DEF IndInv, TypeOK, SubEnd, loopVars, withdrawalVars,
              refundVars, refillVars
<1>10. ASSUME NEW w \in Payers, NEW r \in 0..cost[w], NEW e \in 0..cost[w] - r,
              HostExecute(w, r, e)
       PROVE  TypeOK'
  <2>1. cost[w] \in Nat /\ host \in Nat
    BY DEF IndInv, TypeOK
  <2>2. e \in Nat /\ cost[w] - r \in Nat /\ cost[w] - r <= cost[w]
    BY <2>1
  <2>3. host' \in Nat
    BY <1>10, <2>1, <2>2 DEF HostExecute
  <2> QED  BY <1>10, <2>2, <2>3 DEF IndInv, TypeOK, HostExecute, accountVars,
              loopVars, refillVars, subVars
<1>11. ASSUME NEW w \in Payers, HostLate(w) PROVE TypeOK'
  BY <1>11 DEF IndInv, TypeOK, HostLate, accountVars, loopVars, refundVars,
              refillVars, subVars
<1>12. CASE HostDeposit
  BY <1>12 DEF IndInv, TypeOK, HostDeposit, accountVars, withdrawalVars, refundVars,
              subVars, loopVars
<1>13. CASE HostReports
  BY <1>13 DEF IndInv, TypeOK, HostReports, accountVars, withdrawalVars, refundVars,
              refillVars, subVars
<1>14. CASE HostLateDeposit
  BY <1>14 DEF IndInv, TypeOK, HostLateDeposit, accountVars, withdrawalVars,
              refundVars, subVars, loopVars
<1>15. CASE SyncBecomesDue \/ SyncFails
  <2>1. CASE SyncBecomesDue
    BY <2>1 DEF IndInv, TypeOK, SyncBecomesDue, accountVars, withdrawalVars,
              refundVars, refillVars, subVars
  <2>2. CASE SyncFails
    BY <2>2 DEF IndInv, TypeOK, SyncFails, accountVars, withdrawalVars,
              refundVars, refillVars, subVars
  <2> QED  BY <1>15, <2>1, <2>2
<1>16. CASE SyncStart \/ SyncGivesUp \/ SyncIdle
  BY <1>16 DEF IndInv, TypeOK, SyncStart, SyncGivesUp, SyncIdle, accountVars,
              withdrawalVars, refundVars, refillVars, subVars
<1>17. CASE SyncLock
  BY <1>17 DEF IndInv, TypeOK, SyncLock, accountVars, withdrawalVars, refundVars,
              refillVars, subVars
<1>18. CASE SyncApply
  <2>1. missed' \in Nat \cup {Unknown}
    BY <1>18 DEF IndInv, TypeOK, SyncApply
  <2>2. /\ balance' \in Nat /\ negativeBalance' \in Nat
        /\ pendingDeposits' \in Nat /\ pendingWithdrawals' \in Nat
    BY <1>18 DEF IndInv, TypeOK, SyncApply, resetBalance
  <2> QED  BY <1>18, <2>1, <2>2 DEF IndInv, TypeOK, SyncApply, withdrawalVars,
              refundVars, refillVars
<1>19. CASE CleanRestart
  <2>1. minExpectedBalance \in Nat
    BY DEF IndInv, TypeOK, minExpectedBalance
  <2> QED  BY <1>19, <2>1, NoTotalIsZero DEF IndInv, TypeOK, CleanRestart, Restart,
              resetBalance
<1>20. CASE Crash
  <2>1. host' \in Nat /\ late' \in [Payers -> Nat] /\ lateDeposit' \in Nat
    BY <1>20 DEF IndInv, TypeOK, Crash
  <2> QED  BY <1>20, <2>1, NoTotalIsZero DEF IndInv, TypeOK, Crash, Restart,
              resetBalance
<1>21. CASE UNCHANGED vars
  BY <1>21 DEF IndInv, TypeOK, vars, accountVars, loopVars, withdrawalVars,
              refundVars, refillVars, subVars
<1>22. ASSUME HostExecute(Sub, 0, 0) PROVE TypeOK'
  <2>1. 0 \in 0..cost[Sub] /\ 0 \in 0..cost[Sub] - 0
    BY DEF IndInv, TypeOK
  <2> QED  BY <1>10, <1>22, <2>1
<1>29. ASSUME NEW j \in Jobs, RefundTracked(j) PROVE TypeOK'
  BY <1>29 DEF IndInv, TypeOK, RefundTracked, loopVars, refillVars, subVars
<1>30. ASSUME NEW j \in Jobs, RefundDone(j) PROVE TypeOK'
  <2>1. tracked[j] \in Nat /\ TRUE \in BOOLEAN
    BY DEF IndInv, TypeOK
  <2>2. balance' \in Nat /\ negativeBalance' \in Nat /\ pendingDeposits' \in Nat
    BY <1>30, <2>1, CommitDepositType DEF RefundDone, IndInv
  <2> QED  BY <1>30, <2>2 DEF IndInv, TypeOK, RefundDone, loopVars, refillVars,
              subVars
<1>23. CASE \E j \in Jobs : Job(j) \/ \E c \in Costs : SendProgram(j, c)
  BY <1>1, <1>2, <1>3, <1>23, <1>29, <1>30 DEF Job
<1>24. CASE \E j \in Jobs : \E r \in 0..cost[j] : \E e \in 0..cost[j] - r :
              HostExecute(j, r, e)
  BY <1>10, <1>24
<1>25. CASE Refill
  BY <1>4, <1>5, <1>25 DEF Refill
<1>26. CASE Subscription
  BY <1>6, <1>7, <1>8, <1>9, <1>26 DEF Subscription
<1>27. CASE Sync
  BY <1>15, <1>16, <1>17, <1>18, <1>27 DEF Sync
<1>28. CASE Host
  BY <1>12, <1>13, <1>14, <1>28 DEF Host
<1> QED
  BY <1>11, <1>19, <1>20, <1>21, <1>22, <1>23, <1>24, <1>25, <1>26, <1>27, <1>28
  DEF Next

-----------------------------------------------------------------------------
(* Positions *)

\* The positions of the threads after a step.
Structure == Positions /\ SubPaying /\ SyncAlone

\* Every step keeps the positions of the threads consistent.
LEMMA StructureStep == IndInv /\ [Next]_vars => Structure'
<1> SUFFICES ASSUME IndInv, [Next]_vars PROVE Structure'
  OBVIOUS
<1> USE PayersFinite, JobsAssumption, CostsAssumption, BudgetAssumption
<1> USE DEF Structure, Positions, SubPaying, SyncAlone, isIdle, IndInv, TypeOK,
            refundVars
<1>1. ASSUME NEW j \in Jobs, LaunchJob(j) PROVE Structure'
  BY <1>1 DEF LaunchJob, loopVars, refillVars, subVars
<1>2. ASSUME NEW j \in Jobs, JobQuits(j) PROVE Structure'
  BY <1>2 DEF JobQuits, loopVars, refillVars, subVars
<1>3. ASSUME NEW j \in Jobs, NEW c \in Costs, SendProgram(j, c) PROVE Structure'
  BY <1>3 DEF SendProgram, managedTrackWithdrawal, loopVars, refillVars, subVars
<1>4. ASSUME NEW j \in Jobs, JobDone(j) PROVE Structure'
  BY <1>4 DEF JobDone, Settled, loopVars, refillVars, subVars
<1>5. ASSUME NEW j \in Jobs, JobFails(j) PROVE Structure'
  BY <1>5 DEF JobFails, Abandon, Settled, loopVars, refillVars, subVars
<1>6. CASE LaunchRefill
  BY <1>6 DEF LaunchRefill, loopVars, withdrawalVars, subVars
<1>7. CASE RefillReads
  BY <1>7 DEF RefillReads, loopVars, withdrawalVars, subVars
<1>8. CASE RefillTracks
  BY <1>8 DEF RefillTracks, loopVars, withdrawalVars, subVars
<1>9. CASE RefillDone
  BY <1>9 DEF RefillDone, loopVars, withdrawalVars, subVars
<1>10. CASE RefillFails
  BY <1>10 DEF RefillFails, loopVars, withdrawalVars, subVars
<1>11. CASE RefillRejected
  BY <1>11 DEF RefillRejected, loopVars, withdrawalVars, subVars
<1>12. CASE SubBegin
  BY <1>12 DEF SubBegin, SubPays, managedTrackWithdrawal, loopVars, refillVars
<1>13. CASE SubRefill
  BY <1>13 DEF SubRefill, SubPays, managedTrackWithdrawal, loopVars, refillVars
<1>14. CASE SubBegun
  BY <1>14 DEF SubBegun, Settled, loopVars, refillVars
<1>15. CASE SubRefilled
  BY <1>15 DEF SubRefilled, Settled, loopVars, refillVars
<1>16. CASE SubFails
  BY <1>16 DEF SubFails, Abandon, Settled, loopVars, refillVars
<1>17. CASE SubSpend
  BY <1>17 DEF SubSpend, loopVars, withdrawalVars, refillVars
<1>18. CASE SubEnd
  BY <1>18 DEF SubEnd, loopVars, withdrawalVars, refillVars
<1>19. ASSUME NEW j \in Jobs, NEW r \in 0..cost[j], NEW e \in 0..cost[j] - r,
              HostExecute(j, r, e)
       PROVE  Structure'
  <2>1. cost[j] - r \in Nat /\ cost[j] - r <= cost[j] /\ e \in Nat /\ e <= cost[j] - r
    OBVIOUS
  <2> QED  BY <1>19, <2>1 DEF HostExecute, loopVars, refillVars, subVars
<1>20. ASSUME NEW w \in Payers, HostLate(w) PROVE Structure'
  BY <1>20 DEF HostLate, loopVars, refillVars, subVars
<1>21. CASE HostDeposit
  BY <1>21 DEF HostDeposit, loopVars, withdrawalVars, subVars
<1>22. CASE HostLateDeposit
  BY <1>22 DEF HostLateDeposit, loopVars, withdrawalVars, subVars
<1>23. CASE HostReports
  BY <1>23 DEF HostReports, withdrawalVars, refillVars, subVars
<1>24. CASE SyncBecomesDue
  BY <1>24 DEF SyncBecomesDue, withdrawalVars, refillVars, subVars
<1>25. CASE SyncStart \/ SyncGivesUp
  BY <1>25 DEF SyncStart, SyncGivesUp, withdrawalVars, refillVars, subVars
<1>26. CASE SyncIdle
  BY <1>26 DEF SyncIdle, withdrawalVars, refillVars, subVars
<1>27. CASE SyncLock
  BY <1>27 DEF SyncLock, withdrawalVars, refillVars, subVars
<1>28. CASE SyncApply
  BY <1>28 DEF SyncApply, withdrawalVars, refillVars, subVars
<1>29. CASE SyncFails
  BY <1>29 DEF SyncFails, withdrawalVars, refillVars, subVars
<1>30. CASE CleanRestart
  BY <1>30 DEF CleanRestart, Restart, NoTotal
<1>31. CASE Crash
  BY <1>31 DEF Crash, Restart, NoTotal
<1>32. CASE UNCHANGED vars
  BY <1>32 DEF vars, loopVars, withdrawalVars, refillVars, subVars
<1>33. ASSUME HostExecute(Sub, 0, 0) PROVE Structure'
  BY <1>33 DEF HostExecute, loopVars, refillVars, subVars
<1>39. ASSUME NEW j \in Jobs, RefundTracked(j) PROVE Structure'
  BY <1>39 DEF RefundTracked, loopVars, refillVars, subVars
<1>40. ASSUME NEW j \in Jobs, RefundDone(j) PROVE Structure'
  BY <1>40 DEF RefundDone, loopVars, refillVars, subVars
<1> HIDE DEF Structure, Positions, SubPaying, SyncAlone, isIdle, IndInv, TypeOK,
            refundVars
<1>34. CASE \E j \in Jobs : Job(j) \/ \E c \in Costs : SendProgram(j, c)
  BY <1>1, <1>2, <1>3, <1>4, <1>5, <1>34, <1>39, <1>40 DEF Job
<1>35. CASE Refill
  BY <1>6, <1>7, <1>8, <1>9, <1>10, <1>11, <1>35 DEF Refill
<1>36. CASE Subscription
  BY <1>12, <1>13, <1>14, <1>15, <1>16, <1>17, <1>18, <1>36 DEF Subscription
<1>37. CASE Sync
  BY <1>24, <1>25, <1>26, <1>27, <1>28, <1>29, <1>37 DEF Sync
<1>38. CASE Host
  BY <1>21, <1>22, <1>23, <1>38 DEF Host
<1> QED
  BY <1>19, <1>20, <1>30, <1>31, <1>32, <1>33, <1>34, <1>35, <1>36, <1>37, <1>38
  DEF Next

-----------------------------------------------------------------------------
(* The pending counters *)

\* What is tracked while the deposit is.
DepositPending == IF refill \in {"sent", "answered"} THEN deposit ELSE 0

\* Nothing is tracked when every payer is idle.
LEMMA IdleCostsNothing ==
    ASSUME TypeOK, Positions, \A w \in Payers : wpc[w] = "idle"
    PROVE  /\ Total(cost) = 0 /\ Total(taken) = 0
           /\ Total(owed) = 0 /\ Total(tracked) = 0
<1>1. /\ cost \in [Payers -> Nat] /\ \A w \in Payers : cost[w] = 0
      /\ taken \in [Payers -> Nat] /\ \A w \in Payers : taken[w] = 0
      /\ owed \in [Payers -> Nat] /\ \A w \in Payers : owed[w] = 0
      /\ tracked \in [Payers -> Nat] /\ \A w \in Payers : tracked[w] = 0
  BY DEF TypeOK, Positions
<1> QED  BY <1>1, TotalZero, PayersFinite

\* The balance request is out only while every payer is idle.
LEMMA SyncFindsIdle ==
    ASSUME IndInv, loop \in {"syncRPC", "syncApply"}
    PROVE  /\ \A w \in Payers : wpc[w] = "idle"
           /\ refill = "idle"
  BY DEF IndInv, SyncAlone, SubPaying, isIdle, Payers

\* The counters stay the sums of what is tracked.
LEMMA PendingStep == IndInv /\ [Next]_vars => PendingMatches'
<1> SUFFICES ASSUME IndInv, [Next]_vars PROVE PendingMatches'
  OBVIOUS
<1> USE PayersFinite, CostsAssumption, BudgetAssumption
<1>0. /\ TypeOK /\ pendingWithdrawals = Total(cost) /\ 0 \in Nat
      /\ cost \in [Payers -> Nat] /\ taken \in [Payers -> Nat]
      /\ tracked \in [Payers -> Nat] /\ owed \in [Payers -> Nat]
      /\ pendingDeposits = Total(tracked) + DepositPending
      /\ pendingDeposits \in Nat /\ deposit \in Nat /\ DepositPending \in Nat
  BY DEF IndInv, TypeOK, PendingMatches, DepositPending
<1>t. Total(tracked) \in Nat /\ \A w \in Payers : tracked[w] <= Total(tracked)
  BY <1>0, TotalType
<1>a. ASSUME UNCHANGED <<pendingWithdrawals, cost, pendingDeposits, tracked>>,
             UNCHANGED <<refill, deposit>>
      PROVE  PendingMatches'
  BY <1>0, <1>a DEF PendingMatches, DepositPending
<1>b. ASSUME pendingWithdrawals' = Total(cost'),
             UNCHANGED <<pendingDeposits, tracked, refill, deposit>>
      PROVE  PendingMatches'
  BY <1>0, <1>b DEF PendingMatches, DepositPending
<1>c. ASSUME UNCHANGED <<pendingWithdrawals, cost>>,
             pendingDeposits' = Total(tracked') + DepositPending'
      PROVE  PendingMatches'
  BY <1>0, <1>c DEF PendingMatches, DepositPending
<1>1. ASSUME NEW j \in Jobs, LaunchJob(j) \/ JobQuits(j) PROVE PendingMatches'
  BY <1>1, <1>a DEF LaunchJob, JobQuits, accountVars, refundVars, refillVars
<1>2. ASSUME NEW j \in Jobs, NEW c \in Costs, SendProgram(j, c)
      PROVE  PendingMatches'
  <2>1. cost[j] = 0 /\ c \in Nat
    BY <1>2 DEF SendProgram, IndInv, Positions
  <2>2. pendingWithdrawals' = Total(cost')
    BY <1>0, <1>2, <2>1, TrackSum DEF SendProgram
  <2> QED  BY <1>2, <1>b, <2>2 DEF SendProgram, refundVars, refillVars
<1>3. ASSUME NEW j \in Jobs, JobDone(j) \/ JobFails(j) PROVE PendingMatches'
  <2>1. /\ taken[j] \in Nat /\ cost[j] - taken[j] \in Nat
        /\ cost[j] = taken[j] + (cost[j] - taken[j])
    BY <1>0 DEF IndInv, Positions
  <2>2. pendingWithdrawals' = Total(cost')
    BY <1>0, <1>3, <2>1, CommitSum DEF JobDone, JobFails, Settled
  <2> QED  BY <1>3, <1>b, <2>2 DEF JobDone, JobFails, Abandon, refundVars, refillVars
<1>24. ASSUME NEW j \in Jobs, RefundTracked(j) PROVE PendingMatches'
  <2>1. owed[j] \in Nat /\ tracked[j] = 0
    BY <1>0, <1>24 DEF RefundTracked, IndInv, Positions
  <2>2. Total(tracked') = Total(tracked) - tracked[j] + owed[j]
    <3>1. tracked \in [Payers -> Nat] /\ j \in Payers /\ owed[j] \in Nat
      BY <1>0, <2>1
    <3> QED  BY <1>24, <3>1, PayerTotal DEF RefundTracked
  <2>3. pendingDeposits' = Total(tracked') + DepositPending'
    BY <1>0, <1>t, <1>24, <2>1, <2>2 DEF RefundTracked, DepositPending, refillVars
  <2> QED  BY <1>24, <1>c, <2>3 DEF RefundTracked
<1>25. ASSUME NEW j \in Jobs, RefundDone(j) PROVE PendingMatches'
  <2>1. tracked[j] \in Nat /\ tracked[j] <= Total(tracked)
    BY <1>0, <1>t
  <2>2. Total(tracked') = Total(tracked) - tracked[j] + 0
    <3>1. tracked \in [Payers -> Nat] /\ j \in Payers /\ 0 \in Nat
      BY <1>0
    <3> QED  BY <1>25, <3>1, PayerTotal DEF RefundDone
  <2>3. pendingDeposits' = Total(tracked') + DepositPending'
    BY <1>0, <1>t, <1>25, <2>1, <2>2 DEF RefundDone, DepositPending, refillVars,
              managedCommitDeposit, CurrencySub
  <2> QED  BY <1>25, <1>c, <2>3 DEF RefundDone
<1>4. CASE LaunchRefill \/ RefillReads \/ RefillTracks
  <2>1. pendingDeposits' = Total(tracked') + DepositPending'
    BY <1>0, <1>t, <1>4 DEF LaunchRefill, RefillReads, RefillTracks,
              DepositPending, accountVars, withdrawalVars, refundVars, TypeOK
  <2> QED  BY <1>4, <1>c, <2>1 DEF LaunchRefill, RefillReads, RefillTracks,
              accountVars, withdrawalVars
<1>5. CASE RefillDone \/ RefillFails \/ RefillRejected
  <2>0. /\ DepositPending = deposit /\ refill' = "idle"
        /\ pendingDeposits' = CurrencySub(pendingDeposits, deposit)
    BY <1>5 DEF RefillDone, RefillFails, RefillRejected, DepositPending,
              managedCommitDeposit
  <2>1. pendingDeposits' = Total(tracked) /\ refill' = "idle"
    BY <1>0, <1>t, <2>0 DEF CurrencySub
  <2>2. tracked' = tracked
    BY <1>5 DEF RefillDone, RefillFails, RefillRejected, withdrawalVars,
              refundVars
  <2>3. pendingDeposits' = Total(tracked') + DepositPending'
    BY <1>t, <2>1, <2>2 DEF DepositPending
  <2> QED  BY <1>5, <1>c, <2>3 DEF RefillDone, RefillFails, RefillRejected,
              withdrawalVars
<1>6. CASE SubBegin \/ SubRefill
  <2>1. PICK n \in Nat, at \in {"begin", "refill"} : SubPays(n, at)
    BY <1>6 DEF SubBegin, SubRefill, IndInv, TypeOK
  <2>2. cost[Sub] = 0
    BY <1>6 DEF SubBegin, SubRefill, IndInv, Positions, SubPaying
  <2>3. pendingWithdrawals' = Total(cost')
    BY <1>0, <2>1, <2>2, TrackSum DEF SubPays
  <2> QED  BY <1>b, <2>1, <2>3 DEF SubPays, refundVars, refillVars
<1>7. CASE SubBegun \/ SubRefilled \/ SubFails
  <2>1. cost[Sub] \in Nat /\ cost[Sub] = cost[Sub] + 0
    BY <1>0
  <2>2. SubBegun => cost[Sub] = Budget
    BY DEF IndInv, SubPaying, SubBegun, TypeOK
  <2>3. PICK s \in BOOLEAN : managedCommitWithdrawal(cost[Sub], 0, s)
    BY <1>7, <2>2 DEF SubBegun, SubRefilled, SubFails
  <2>4. cost' = [cost EXCEPT ![Sub] = 0]
    BY <1>7 DEF SubBegun, SubRefilled, SubFails, Settled
  <2>5. pendingWithdrawals' = Total(cost')
    BY <1>0, <2>1, <2>3, <2>4, CommitSum
  <2> QED  BY <1>7, <1>b, <2>5 DEF SubBegun, SubRefilled, SubFails, Abandon,
              refundVars, refillVars
<1>8. CASE SubSpend
  BY <1>8, <1>a DEF SubSpend, accountVars, withdrawalVars, refundVars, refillVars
<1>9. CASE SubEnd
  BY <1>9, <1>a DEF SubEnd, withdrawalVars, refundVars, refillVars
<1>10. ASSUME NEW w \in Payers, NEW r, NEW e, HostExecute(w, r, e)
       PROVE  PendingMatches'
  BY <1>10, <1>a DEF HostExecute, accountVars, refillVars
<1>11. ASSUME NEW w \in Payers, HostLate(w) PROVE PendingMatches'
  BY <1>11, <1>a DEF HostLate, accountVars, refundVars, refillVars
<1>12. CASE HostDeposit
  <2>1. pendingDeposits' = Total(tracked') + DepositPending'
    BY <1>0, <1>12 DEF HostDeposit, DepositPending, accountVars, withdrawalVars,
              refundVars
  <2> QED  BY <1>12, <1>c, <2>1 DEF HostDeposit, accountVars, withdrawalVars
<1>13. CASE HostLateDeposit \/ HostReports
  BY <1>13, <1>a DEF HostLateDeposit, HostReports, accountVars, withdrawalVars,
              refundVars, refillVars
<1>14. CASE SyncBecomesDue \/ SyncStart \/ SyncGivesUp
  BY <1>14, <1>a DEF SyncBecomesDue, SyncStart, SyncGivesUp, accountVars,
              withdrawalVars, refundVars, refillVars
<1>15. CASE SyncIdle \/ SyncLock \/ SyncFails
  BY <1>15, <1>a DEF SyncIdle, SyncLock, SyncFails, accountVars, withdrawalVars,
              refundVars, refillVars
<1>16. CASE SyncApply
  <2>1. Total(cost) = 0 /\ Total(tracked) = 0 /\ refill = "idle"
    BY <1>16, SyncFindsIdle, IdleCostsNothing DEF SyncApply, IndInv
  <2>2. pendingWithdrawals' = 0 /\ pendingDeposits' = 0
    BY <1>0, <1>16, <2>1 DEF SyncApply, resetBalance, DepositPending
  <2> QED  BY <1>16, <2>1, <2>2 DEF SyncApply, PendingMatches, withdrawalVars,
              refundVars, refillVars
<1>17. CASE CleanRestart \/ Crash
  <2>1. /\ pendingWithdrawals' = 0 /\ pendingDeposits' = 0
        /\ refill' = "idle" /\ cost' = NoTotal /\ tracked' = NoTotal
    BY <1>17 DEF CleanRestart, Crash, Restart, resetBalance
  <2> QED  BY <2>1, NoTotalIsZero DEF PendingMatches
<1>18. CASE UNCHANGED vars
  BY <1>18, <1>a DEF vars, accountVars, withdrawalVars, refundVars, refillVars
<1>19. CASE \E j \in Jobs : Job(j) \/ \E c \in Costs : SendProgram(j, c)
  BY <1>1, <1>2, <1>3, <1>19, <1>24, <1>25 DEF Job
<1>20. CASE Refill
  BY <1>4, <1>5, <1>20 DEF Refill
<1>21. CASE Subscription
  BY <1>6, <1>7, <1>8, <1>9, <1>21 DEF Subscription
<1>22. CASE Sync
  BY <1>14, <1>15, <1>16, <1>22 DEF Sync
<1>23. CASE Host
  BY <1>12, <1>13, <1>23 DEF Host
<1> QED
  BY <1>10, <1>11, <1>17, <1>18, <1>19, <1>20, <1>21, <1>22, <1>23 DEF Next

-----------------------------------------------------------------------------
(* What does not depend on the host *)

\* The account of a new worker is in order.
LEMMA IndInvInit == Init => IndInv
<1> SUFFICES ASSUME Init PROVE IndInv
  OBVIOUS
<1> USE NoTotalIsZero, PayersFinite, BudgetAssumption
<1>1. TypeOK
  <2>1. wpc \in [Payers -> {"idle", "launched", "sent", "answered", "refunded",
                       "depositing"}]
    BY DEF Init
  <2>2. budget \in 0..Budget
    BY DEF Init
  <2> QED  BY <2>1, <2>2 DEF Init, TypeOK
<1>2. Positions
  <2>1. \A w \in Payers : /\ cost[w] = 0 /\ taken[w] = 0 /\ owed[w] = 0
                           /\ tracked[w] = 0 /\ wpc[w] = "idle"
    BY DEF Init, NoTotal
  <2>2. deposit = 0
    BY DEF Init
  <2> QED  BY <2>1, <2>2 DEF Positions
<1>3. SubPaying /\ SyncAlone
  BY DEF Init, SubPaying, SyncAlone, NoTotal
<1>4. PendingMatches
  BY DEF Init, PendingMatches
<1> QED  BY <1>1, <1>2, <1>3, <1>4 DEF IndInv

\* Every step keeps the inductive invariant.
LEMMA IndInvStep == IndInv /\ [Next]_vars => IndInv'
  BY TypeStep, StructureStep, PendingStep DEF IndInv, Structure

\* The inductive invariant holds in every reachable state.
LEMMA AccountInvariant == Spec => []IndInv
  BY IndInvInit, IndInvStep, PTL DEF Spec

\* Every variable of the account keeps its type: no currency gets negative.
THEOREM AccountTypeCorrect == Spec => []TypeOK
<1>1. IndInv => TypeOK
  BY DEF IndInv
<1> QED  BY <1>1, AccountInvariant, PTL

\* The pending counters of the account are, in every reachable state, the sums
\* of what the running withdrawals and the deposit tracked.
THEOREM PendingCounted == Spec => []PendingMatches
<1>1. IndInv => PendingMatches
  BY DEF IndInv
<1> QED  BY <1>1, AccountInvariant, PTL

\* externSyncAccountBalanceToHost never finds a pending delta: the worker is
\* idle, and accountSyncMu keeps the subscription loop from paying.
THEOREM SyncFindsNothingPending == Spec => []DeltasZeroAtSync
<1>1. IndInv => DeltasZeroAtSync
  <2> SUFFICES ASSUME IndInv, loop \in {"syncRPC", "syncApply"}
               PROVE  pendingDeposits = 0 /\ pendingWithdrawals = 0
    BY DEF DeltasZeroAtSync
  <2> QED  BY SyncFindsIdle, IdleCostsNothing DEF IndInv, PendingMatches
<1> QED  BY <1>1, AccountInvariant, PTL

-----------------------------------------------------------------------------
(* The balances *)

\* The books agree with the host, the balance in the host's answer is the one
\* on the host, and a refill fits: until it is made, the host also has what
\* the subscription loop may give back.
Agreement ==
    /\ host + missed = Booked
    /\ loop = "syncApply" => reported = host
    /\ refill \in {"read", "sent"} =>
         host + budget + taken[Sub] + deposit <= Target + unbooked

\* A balance and a negative balance never stand beside each other.
OneSided == negativeBalance > 0 => balance = 0

\* Nothing but a lost answer breaks the agreement.
Books == OneSided /\ (~drifted => Agreement)

\* The deposit that the host has made and the renter has not committed.
Deposited == IF refill = "answered" THEN deposit ELSE 0

\* A payer that is settled takes its part out of what the host took.
LEMMA SettledSum ==
    ASSUME TypeOK, NEW w \in Payers, Settled(w)
    PROVE  /\ Total(taken') = Total(taken) - taken[w]
           /\ Total(taken) \in Nat /\ taken[w] \in Nat /\ taken[w] <= Total(taken)
<1>1. taken \in [Payers -> Nat] /\ 0 \in Nat
  BY DEF TypeOK
<1>2. /\ Total([taken EXCEPT ![w] = 0]) = Total(taken) - taken[w] + 0
      /\ Total(taken) \in Nat /\ taken[w] \in Nat /\ taken[w] <= Total(taken)
  BY <1>1, PayerTotal
<1> QED  BY <1>2 DEF Settled

\* A committed withdrawal lowers the balance by what was withdrawn.
LEMMA CommitOneSided ==
    ASSUME TypeOK, OneSided, NEW n \in Nat, NEW r \in Nat, NEW s \in BOOLEAN,
           managedCommitWithdrawal(n, r, s)
    PROVE  /\ OneSided'
           /\ s => balance' - negativeBalance' = balance - negativeBalance - n
           /\ ~s => UNCHANGED <<balance, negativeBalance>>
<1>1. CASE s /\ balance >= n
  BY <1>1 DEF TypeOK, OneSided, managedCommitWithdrawal
<1>2. CASE s /\ balance < n
  BY <1>2 DEF TypeOK, OneSided, managedCommitWithdrawal
<1>3. CASE ~s
  BY <1>3 DEF TypeOK, OneSided, managedCommitWithdrawal
<1> QED  BY <1>1, <1>2, <1>3 DEF TypeOK

\* A deposit raises it, and pays a negative balance off first.
LEMMA CreditOneSided ==
    ASSUME TypeOK, OneSided, NEW n \in Nat, Credit(n)
    PROVE  /\ OneSided'
           /\ balance' + negativeBalance = balance + n + negativeBalance'
  BY DEF TypeOK, OneSided, Credit

\* The amounts that the books are made of are natural numbers, and what the
\* subscription loop has not committed is part of what nobody has.
LEMMA BooksTypes ==
    ASSUME TypeOK
    PROVE  /\ balance \in Nat /\ negativeBalance \in Nat /\ host \in Nat
           /\ pendingDeposits \in Nat /\ deposit \in Nat /\ unbooked \in Nat
           /\ budget \in Nat /\ missed \in Nat \cup {Unknown} /\ Deposited \in Nat
           /\ Total(taken) \in Nat /\ Total(owed) \in Nat /\ Total(tracked) \in Nat
           /\ taken[Sub] \in Nat /\ taken[Sub] <= Total(taken)
<1>1. /\ taken \in [Payers -> Nat] /\ owed \in [Payers -> Nat]
      /\ tracked \in [Payers -> Nat] /\ Sub \in Payers
  BY PayersFinite DEF TypeOK
<1>2. /\ Total(taken) \in Nat /\ Total(owed) \in Nat /\ Total(tracked) \in Nat
      /\ taken[Sub] <= Total(taken)
  BY <1>1, TotalType, PayersFinite
<1> QED  BY <1>1, <1>2, BudgetAssumption DEF TypeOK, Deposited

\* What the pending deposits are made of: the deposit that the host has made
\* is one of them, and the only one that is not a refund.
LEMMA DepositsTracked ==
    ASSUME IndInv
    PROVE  /\ Total(tracked) + Deposited <= pendingDeposits
           /\ refill \notin {"sent", "answered"} => Total(tracked) = pendingDeposits
<1>1. Total(tracked) \in Nat /\ deposit \in Nat
  BY BooksTypes DEF IndInv
<1> QED  BY <1>1 DEF IndInv, PendingMatches, Deposited

\* Once renter and host have nothing in motion, the renter owes nothing.
LEMMA QuietNotNegative ==
    ASSUME IndInv, Books, ~drifted, refill = "idle",
           \A w \in Payers : wpc[w] = "idle"
    PROVE  /\ negativeBalance = 0 /\ host + missed = balance
           /\ pendingWithdrawals = 0
<1>1. Total(taken) = 0 /\ Total(owed) = 0 /\ Total(tracked) = 0 /\ Total(cost) = 0
  BY IdleCostsNothing DEF IndInv
<1>2. /\ balance \in Nat /\ negativeBalance \in Nat /\ host \in Nat
      /\ missed \in Nat
  BY BooksTypes DEF IndInv, drifted
<1>3. host + missed = balance - negativeBalance
  BY <1>1, <1>2 DEF Books, Agreement, Booked
<1> QED  BY <1>1, <1>2, <1>3 DEF Books, OneSided, IndInv, PendingMatches

\* Jobs keep the books: what a job has paid and got back moves from what is
\* not committed to the balance, and an answer that is lost is a drift.
LEMMA JobBooks ==
    ASSUME IndInv, Books, NEW j \in Jobs, Job(j) PROVE Books'
<1>0. TypeOK /\ OneSided /\ (missed # Unknown => Agreement) /\ j \in Payers
  BY PayersFinite DEF IndInv, Books, drifted
<1>t. /\ balance \in Nat /\ negativeBalance \in Nat /\ host \in Nat
      /\ missed \in Nat \cup {Unknown} /\ Deposited \in Nat /\ deposit \in Nat
      /\ Total(taken) \in Nat /\ Total(owed) \in Nat /\ Total(tracked) \in Nat
  BY <1>0, BooksTypes
<1>p. /\ owed \in [Payers -> Nat] /\ tracked \in [Payers -> Nat]
      /\ taken[j] \in Nat /\ cost[j] \in Nat /\ cost[j] - taken[j] \in Nat
      /\ owed[j] \in Nat /\ tracked[j] \in Nat /\ 0 \in Nat
  BY <1>0 DEF IndInv, TypeOK, Positions
<1>u. /\ UNCHANGED <<host, refill, deposit, unbooked, loop, reported, budget>>
      /\ taken'[Sub] = taken[Sub]
  <2>1. Sub # j /\ Sub \in Payers /\ taken \in [Payers -> Nat]
    BY <1>0, JobsAssumption, PayersFinite DEF TypeOK
  <2>2. taken' = taken \/ taken' = [taken EXCEPT ![j] = 0]
    BY DEF Job, LaunchJob, JobQuits, JobDone, JobFails, Settled, RefundTracked,
           RefundDone
  <2>3. taken'[Sub] = taken[Sub]
    BY <2>1, <2>2
  <2> QED  BY <2>3 DEF Job, LaunchJob, JobQuits, JobDone, JobFails, RefundTracked,
              RefundDone, loopVars, refillVars, subVars
<1>a. ASSUME OneSided', missed' # Unknown => missed' = missed /\ Booked' = Booked
      PROVE  Books'
  BY <1>0, <1>a, <1>u DEF Books, Agreement, drifted
<1>1. CASE LaunchJob(j) \/ JobQuits(j)
  BY <1>0, <1>1, <1>a DEF LaunchJob, JobQuits, accountVars, refundVars, refillVars,
     OneSided, Booked
<1>2. CASE JobDone(j)
  <2>1. Total(taken') = Total(taken) - taken[j]
    BY <1>0, <1>2, SettledSum DEF JobDone
  <2>2. OneSided' /\ balance' - negativeBalance' = balance - negativeBalance - taken[j]
    BY <1>0, <1>2, <1>p, CommitOneSided DEF JobDone
  <2>3. UNCHANGED <<owed, tracked, refill, deposit, missed>>
    BY <1>2 DEF JobDone, refundVars, refillVars
  <2>4. balance' \in Nat /\ negativeBalance' \in Nat
    BY <1>0, <1>2, <1>p, CommitWithdrawalType DEF JobDone
  <2>5. Booked' = Booked
    BY <1>p, <1>t, <2>1, <2>2, <2>3, <2>4 DEF Booked
  <2> QED  BY <1>a, <2>2, <2>3, <2>5
<1>3. CASE JobFails(j)
  <2>1. Total(taken') = Total(taken) - taken[j]
    BY <1>0, <1>3, SettledSum DEF JobFails
  <2>2. OneSided' /\ UNCHANGED <<balance, negativeBalance>>
    BY <1>0, <1>3, <1>p, CommitOneSided DEF JobFails
  <2>3. Total(owed') = Total(owed) - owed[j] + 0 /\ UNCHANGED tracked
    BY <1>0, <1>3, <1>p, PayerTotal DEF JobFails, Abandon
  <2>4. missed' # Unknown => missed' = missed /\ owed[j] = taken[j]
    <3>1. owed[j] <= taken[j]
      BY <1>0, <1>3, <1>p DEF JobFails, IndInv, Positions
    <3>2. missed' # Unknown => missed' = missed /\ ~(taken[j] > owed[j])
      BY <1>3 DEF JobFails, Abandon
    <3> QED  BY <1>p, <3>1, <3>2
  <2>5. ASSUME owed[j] = taken[j] PROVE Booked' = Booked
    BY <1>p, <1>t, <1>u, <2>1, <2>2, <2>3, <2>5 DEF Booked
  <2> QED  BY <1>a, <2>2, <2>4, <2>5
<1>4. CASE RefundTracked(j)
  <2>1. tracked[j] = 0
    BY <1>0, <1>4 DEF RefundTracked, IndInv, Positions
  <2>2. Total(owed') = Total(owed) - owed[j] + 0
    BY <1>0, <1>4, <1>p, PayerTotal DEF RefundTracked
  <2>3. Total(tracked') = Total(tracked) - tracked[j] + owed[j]
    BY <1>0, <1>4, <1>p, PayerTotal DEF RefundTracked
  <2>4. UNCHANGED <<balance, negativeBalance, taken, missed>>
    BY <1>4 DEF RefundTracked
  <2>5. Booked' = Booked
    BY <1>p, <1>t, <1>u, <2>1, <2>2, <2>3, <2>4 DEF Booked
  <2> QED  BY <1>0, <1>a, <2>4, <2>5 DEF OneSided
<1>5. CASE RefundDone(j)
  <2>1. Total(tracked') = Total(tracked) - tracked[j] + 0
    BY <1>0, <1>5, <1>p, PayerTotal DEF RefundDone
  <2>2. OneSided' /\ balance' + negativeBalance = balance + tracked[j] + negativeBalance'
    BY <1>0, <1>5, <1>p, CreditOneSided DEF RefundDone, managedCommitDeposit
  <2>3. UNCHANGED <<taken, owed, missed>>
    BY <1>5 DEF RefundDone
  <2>4. balance' \in Nat /\ negativeBalance' \in Nat
    BY <1>0, <1>5, <1>p, CommitDepositType DEF RefundDone
  <2>5. Booked' = Booked
    BY <1>p, <1>t, <1>u, <2>1, <2>2, <2>3, <2>4 DEF Booked
  <2> QED  BY <1>a, <2>2, <2>3, <2>5
<1> QED  BY <1>1, <1>2, <1>3, <1>4, <1>5 DEF Job

\* So does the refill: its amount leaves room for all that maxExpectedBalance
\* does not see.
LEMMA RefillBooks ==
    ASSUME IndInv, Books, Refill PROVE Books'
<1>0. TypeOK /\ OneSided /\ (missed # Unknown => Agreement)
  BY DEF IndInv, Books, drifted
<1>t. /\ balance \in Nat /\ negativeBalance \in Nat /\ host \in Nat
      /\ missed \in Nat \cup {Unknown} /\ Deposited \in Nat /\ deposit \in Nat
      /\ Total(taken) \in Nat /\ Total(owed) \in Nat /\ Total(tracked) \in Nat
      /\ pendingDeposits \in Nat /\ unbooked \in Nat /\ budget \in Nat
      /\ taken[Sub] \in Nat /\ taken[Sub] <= Total(taken)
  BY <1>0, BooksTypes
<1>u. UNCHANGED <<host, loop, reported, budget, taken, owed, tracked>>
  BY DEF Refill, LaunchRefill, RefillReads, RefillTracks, RefillDone, RefillFails,
         RefillRejected, loopVars, withdrawalVars, refundVars, subVars
<1>1. CASE LaunchRefill \/ RefillReads \/ RefillTracks
  <2>1. /\ UNCHANGED <<balance, negativeBalance, missed>>
        /\ refill # "answered" /\ refill' # "answered"
    BY <1>1 DEF LaunchRefill, RefillReads, RefillTracks, accountVars
  <2>2. Booked' = Booked /\ OneSided'
    BY <1>0, <1>u, <2>1 DEF Booked, OneSided
  <2>3. ASSUME Agreement, missed \in Nat, refill' \in {"read", "sent"}
        PROVE  host + budget + taken[Sub] + deposit' <= Target + unbooked'
    <3>1. CASE LaunchRefill
      BY <2>3, <3>1 DEF LaunchRefill
    <3>2. CASE RefillReads
      <4>1. /\ refill = "launched" /\ unbooked' = Total(owed) + budget
            /\ deposit' \in 1..(Target - maxExpectedBalance)
        BY <2>3, <3>2 DEF RefillReads
      <4>2. Total(tracked) = pendingDeposits
        BY <4>1, DepositsTracked
      <4>3. balance + pendingDeposits - negativeBalance <= maxExpectedBalance
            /\ maxExpectedBalance \in Nat
        BY <1>t DEF maxExpectedBalance, CurrencySub
      <4>4. host + missed = balance - negativeBalance - Total(taken) + Total(owed)
                              + pendingDeposits
        BY <1>t, <2>1, <2>3, <4>2 DEF Agreement, Booked
      <4>5. deposit' \in Nat /\ deposit' + maxExpectedBalance <= Target
        <5>1. PICK m \in Nat : m = maxExpectedBalance
          BY <4>3
        <5>2. PICK d \in 1..(Target - m) : d = deposit'
          BY <4>1, <5>1
        <5>3. Target \in Nat
          BY TargetAssumption
        <5>4. d \in Nat /\ d + m <= Target
          BY <5>3
        <5> QED  BY <5>1, <5>2, <5>4
      <4> QED  BY <1>t, <2>3, <4>1, <4>3, <4>4, <4>5, TargetAssumption
    <3>3. CASE RefillTracks
      BY <2>3, <3>3 DEF RefillTracks, Agreement
    <3> QED  BY <1>1, <3>1, <3>2, <3>3
  <2> QED  BY <1>0, <1>t, <1>u, <2>1, <2>2, <2>3 DEF Books, Agreement, drifted
<1>2. CASE RefillDone
  <2>1. OneSided' /\ balance' + negativeBalance = balance + deposit + negativeBalance'
    BY <1>0, <1>2, <1>t, CreditOneSided DEF RefillDone, managedCommitDeposit
  <2>2. balance' \in Nat /\ negativeBalance' \in Nat
    BY <1>0, <1>2, <1>t, CommitDepositType DEF RefillDone
  <2>3. refill = "answered" /\ refill' = "idle" /\ UNCHANGED missed
    BY <1>2 DEF RefillDone
  <2>4. Booked' = Booked
    <3>1. /\ Booked = balance - negativeBalance - Total(taken) + Total(owed)
                         + Total(tracked) + deposit
          /\ Booked' = balance' - negativeBalance' - Total(taken) + Total(owed)
                          + Total(tracked) + 0
      BY <1>u, <2>3 DEF Booked
    <3> QED  BY <1>t, <2>1, <2>2, <3>1
  <2> QED  BY <1>0, <1>u, <2>1, <2>3, <2>4 DEF Books, Agreement, drifted
<1>3. CASE RefillFails \/ RefillRejected
  <2>1. UNCHANGED <<balance, negativeBalance>> /\ refill' = "idle"
    BY <1>3 DEF RefillFails, RefillRejected, managedCommitDeposit
  <2>2. missed' # Unknown => missed' = missed /\ refill # "answered"
    BY <1>3 DEF RefillFails, RefillRejected
  <2>3. ASSUME refill # "answered" PROVE Booked' = Booked
    BY <1>u, <2>1, <2>3 DEF Booked
  <2> QED  BY <1>0, <1>u, <2>1, <2>2, <2>3 DEF Books, Agreement, OneSided, drifted
<1> QED  BY <1>1, <1>2, <1>3 DEF Refill

\* A credit of n raises the books by n, whatever is not committed.
LEMMA CreditSum ==
    ASSUME NEW b \in Nat, NEW m \in Nat, NEW c \in Nat, NEW o \in Nat, NEW n \in Nat,
           c + m = b + n + o,
           NEW t \in Nat, NEW r \in Nat, NEW k \in Nat, NEW d \in Nat
    PROVE  /\ c - o - t + r + k + d = (b - m - t + r + k + d) + n
           /\ b - m - t + r + k + d \in Int
  OBVIOUS

\* The subscription loop keeps them up to the first budget of a session: what
\* it pays fills its budget up, and what it gives back was in it.
LEMMA SubBooks ==
    ASSUME IndInv, Books, Subscription PROVE Books'
<1>0. TypeOK /\ OneSided /\ (missed # Unknown => Agreement) /\ Sub \in Payers
      /\ 0 \in Nat
  BY PayersFinite DEF IndInv, Books, drifted
<1>t. /\ balance \in Nat /\ negativeBalance \in Nat /\ host \in Nat
      /\ missed \in Nat \cup {Unknown} /\ deposit \in Nat
      /\ Total(taken) \in Nat /\ Total(owed) \in Nat /\ Total(tracked) \in Nat
      /\ unbooked \in Nat /\ budget \in Nat /\ Budget \in Nat
      /\ taken[Sub] \in Nat /\ taken[Sub] <= Total(taken) /\ cost[Sub] \in Nat
  BY <1>0, BooksTypes, BudgetAssumption DEF TypeOK
<1>u. UNCHANGED <<refill, deposit, unbooked, loop, reported, tracked>>
  BY DEF Subscription, SubBegin, SubPays, SubBegun, SubSpend, SubRefill, SubRefilled,
         SubFails, SubEnd, Abandon, loopVars, withdrawalVars, refundVars, refillVars
<1>o. Total(owed') = Total(owed)
  <2>1. owed[Sub] = 0 /\ owed \in [Payers -> Nat]
    BY <1>0 DEF IndInv, SubPaying, TypeOK
  <2>2. owed' = owed \/ owed' = [owed EXCEPT ![Sub] = 0]
    BY DEF Subscription, SubBegin, SubPays, SubBegun, SubSpend, SubRefill,
           SubRefilled, SubFails, SubEnd, Abandon, withdrawalVars, refundVars
  <2> QED  BY <1>0, <2>1, <2>2
<1>s. ASSUME Settled(Sub)
      PROVE  Total(taken') = Total(taken) - taken[Sub] /\ taken'[Sub] = 0
  <2>1. taken'[Sub] = 0
    BY <1>0, <1>s DEF Settled, TypeOK
  <2> QED  BY <1>0, <1>s, <2>1, SettledSum
<1>1. CASE SubBegin \/ SubRefill \/ SubSpend
  <2>1. /\ UNCHANGED <<balance, negativeBalance, taken, host, missed>>
        /\ budget' \in Nat /\ budget' <= budget
    <3>1. CASE SubBegin \/ SubRefill
      BY <1>t, <3>1 DEF SubBegin, SubRefill, SubPays
    <3>2. CASE SubSpend
      BY <1>t, <3>2 DEF SubSpend, accountVars, withdrawalVars
    <3> QED  BY <1>1, <3>1, <3>2
  <2>2. Booked' = Booked /\ OneSided'
    BY <1>0, <1>o, <1>u, <2>1 DEF Booked, OneSided
  <2> QED  BY <1>0, <1>t, <1>u, <2>1, <2>2, TargetAssumption
           DEF Books, Agreement, drifted
<1>2. CASE SubBegun
  <2>1. /\ UNCHANGED <<host>> /\ budget' = Budget
        /\ missed' # Unknown => missed' = missed + Budget /\ missed # Unknown
    BY <1>2 DEF SubBegun, drifted
  <2>2. taken[Sub] = Budget /\ budget = 0
    BY <1>2, <1>t DEF SubBegun, IndInv, SubPaying
  <2>3. Total(taken') = Total(taken) - taken[Sub] /\ taken'[Sub] = 0
    BY <1>2, <1>s DEF SubBegun
  <2>4. OneSided' /\ UNCHANGED <<balance, negativeBalance>>
    <3>1. FALSE \in BOOLEAN /\ managedCommitWithdrawal(Budget, 0, FALSE)
      BY <1>2 DEF SubBegun
    <3> QED  BY <1>0, <1>t, <3>1, CommitOneSided
  <2>5. Booked' = Booked + Budget /\ Booked \in Int
    BY <1>t, <1>o, <1>u, <2>2, <2>3, <2>4 DEF Booked
  <2> QED  BY <1>0, <1>t, <1>u, <2>1, <2>2, <2>3, <2>4, <2>5, TargetAssumption
           DEF Books, Agreement, drifted
<1>3. CASE SubRefilled
  <2>1. UNCHANGED <<host, missed>> /\ budget' = Budget
    BY <1>3 DEF SubRefilled
  <2>2. taken[Sub] = Budget - budget /\ taken[Sub] = cost[Sub]
    BY <1>3 DEF SubRefilled, IndInv, SubPaying
  <2>3. Total(taken') = Total(taken) - taken[Sub] /\ taken'[Sub] = 0
    BY <1>3, <1>s DEF SubRefilled
  <2>4. OneSided' /\ balance' - negativeBalance' = balance - negativeBalance - cost[Sub]
        /\ balance' \in Nat /\ negativeBalance' \in Nat
    <3>1. TRUE \in BOOLEAN /\ managedCommitWithdrawal(cost[Sub], 0, TRUE)
      BY <1>3 DEF SubRefilled
    <3> QED  BY <1>0, <1>t, <3>1, CommitOneSided, CommitWithdrawalType
  <2>5. Booked' = Booked
    BY <1>t, <1>o, <1>u, <2>2, <2>3, <2>4 DEF Booked
  <2> QED  BY <1>0, <1>t, <1>u, <2>1, <2>2, <2>3, <2>4, <2>5, TargetAssumption
           DEF Books, Agreement, drifted
<1>4. CASE SubFails
  <2>1. UNCHANGED <<host, budget>>
    BY <1>4 DEF SubFails
  <2>2. missed' # Unknown => missed' = missed /\ taken[Sub] = 0
    <3>1. owed[Sub] = 0
      BY DEF IndInv, SubPaying
    <3>2. missed' # Unknown => missed' = missed /\ ~(taken[Sub] > owed[Sub])
      BY <1>4 DEF SubFails, Abandon
    <3> QED  BY <1>t, <3>1, <3>2
  <2>3. Total(taken') = Total(taken) - taken[Sub] /\ taken'[Sub] = 0
    BY <1>4, <1>s DEF SubFails
  <2>4. OneSided' /\ UNCHANGED <<balance, negativeBalance>>
    <3>1. FALSE \in BOOLEAN /\ managedCommitWithdrawal(cost[Sub], 0, FALSE)
      BY <1>4 DEF SubFails
    <3> QED  BY <1>0, <1>t, <3>1, CommitOneSided
  <2>5. ASSUME taken[Sub] = 0 PROVE Booked' = Booked
    BY <1>t, <1>o, <1>u, <2>3, <2>4, <2>5 DEF Booked
  <2> QED  BY <1>0, <1>t, <1>u, <2>1, <2>2, <2>3, <2>4, <2>5, TargetAssumption
           DEF Books, Agreement, drifted
<1>5. CASE SubEnd
  <2>1. /\ host' = host + budget /\ budget' = 0 /\ UNCHANGED <<taken, missed>>
        /\ loop # "syncApply"
    BY <1>5 DEF SubEnd, withdrawalVars, IndInv, SyncAlone
  <2>2. OneSided' /\ balance' + negativeBalance = balance + budget + negativeBalance'
        /\ balance' \in Nat /\ negativeBalance' \in Nat
    BY <1>0, <1>5, <1>t, CreditOneSided, CreditType DEF SubEnd
  <2>3. Booked' = Booked + budget /\ Booked \in Int
    <3>1. Total(taken') = Total(taken) /\ Total(tracked') = Total(tracked)
      BY <1>u, <2>1
    <3>2. PICK d \in Nat : /\ d = (IF refill = "answered" THEN deposit ELSE 0)
                           /\ d = (IF refill' = "answered" THEN deposit' ELSE 0)
      BY <1>t, <1>u
    <3>3. /\ Booked = balance - negativeBalance - Total(taken) + Total(owed)
                         + Total(tracked) + d
          /\ Booked' = balance' - negativeBalance' - Total(taken) + Total(owed)
                          + Total(tracked) + d
      BY <1>o, <3>1, <3>2 DEF Booked
    <3>4. budget \in Nat /\ d \in Nat /\ balance \in Nat /\ negativeBalance \in Nat
          /\ Total(taken) \in Nat /\ Total(owed) \in Nat /\ Total(tracked) \in Nat
      BY <1>t, <3>2
    <3> QED  BY <2>2, <3>3, <3>4, CreditSum
  <2> QED  BY <1>0, <1>t, <1>u, <2>1, <2>2, <2>3, TargetAssumption
           DEF Books, Agreement, drifted
<1> QED  BY <1>1, <1>2, <1>3, <1>4, <1>5 DEF Subscription

\* The host takes what it executes, which is not committed then.
LEMMA ExecuteBooks ==
    ASSUME IndInv, Books, NEW w \in Payers, NEW r \in 0..cost[w],
           NEW e \in 0..cost[w] - r, HostExecute(w, r, e),
           w = Sub => r = 0 /\ e = 0
    PROVE  Books'
<1>0. TypeOK /\ OneSided /\ (missed # Unknown => Agreement) /\ Sub \in Payers
  BY PayersFinite DEF IndInv, Books, drifted
<1>t. /\ balance \in Nat /\ negativeBalance \in Nat /\ host \in Nat
      /\ missed \in Nat \cup {Unknown} /\ deposit \in Nat
      /\ Total(taken) \in Nat /\ Total(owed) \in Nat /\ Total(tracked) \in Nat
      /\ unbooked \in Nat /\ budget \in Nat /\ taken[Sub] \in Nat
      /\ taken \in [Payers -> Nat] /\ owed \in [Payers -> Nat] /\ cost[w] \in Nat
  BY <1>0, BooksTypes DEF TypeOK
<1>1. PICK v \in Nat : v = cost[w] - r
  BY <1>t
<1>2. e \in Nat /\ e <= v
  BY <1>1
<1>3. /\ UNCHANGED <<balance, negativeBalance, tracked, budget, refill>>
      /\ UNCHANGED <<deposit, unbooked, loop, reported, missed>>
      /\ host' = host - v + e /\ taken' = [taken EXCEPT ![w] = v]
      /\ owed' = [owed EXCEPT ![w] = e] /\ wpc[w] = "sent"
  BY <1>1 DEF HostExecute, accountVars, loopVars, refillVars, subVars
<1>4. taken[w] = 0 /\ owed[w] = 0
  BY <1>3 DEF IndInv, Positions
<1>5. Total(taken') = Total(taken) - taken[w] + v
  BY <1>t, <1>1, <1>3, PayerTotal
<1>6. Total(owed') = Total(owed) - owed[w] + e
  BY <1>t, <1>2, <1>3, PayerTotal
<1>7. loop # "syncApply"
  <2>1. loop = "syncApply" => wpc[w] = "idle"
    BY SyncFindsIdle
  <2> QED  BY <1>3, <2>1
<1>8. Booked' = Booked - v + e /\ Booked \in Int
  BY <1>t, <1>1, <1>2, <1>3, <1>4, <1>5, <1>6 DEF Booked
<1>9. host' + taken'[Sub] <= host + taken[Sub] /\ taken'[Sub] \in Nat /\ host' \in Int
  <2>1. CASE w = Sub
    BY <1>0, <1>t, <1>1, <1>3, <1>4, <2>1
  <2>2. CASE w # Sub
    BY <1>0, <1>t, <1>1, <1>2, <1>3, <2>2
  <2> QED  BY <2>1, <2>2
<1>10. OneSided'
  BY <1>0, <1>3 DEF OneSided
<1> QED  BY <1>0, <1>t, <1>1, <1>2, <1>3, <1>7, <1>8, <1>9, <1>10, TargetAssumption
         DEF Books, Agreement, drifted

\* The other steps of the host keep the books, or are missed.
LEMMA HostBooks ==
    ASSUME IndInv, Books, Host \/ \E w \in Payers : HostLate(w) PROVE Books'
<1>0. TypeOK /\ OneSided /\ (missed # Unknown => Agreement)
  BY DEF IndInv, Books, drifted
<1>t. /\ balance \in Nat /\ negativeBalance \in Nat /\ host \in Nat
      /\ missed \in Nat \cup {Unknown} /\ deposit \in Nat
      /\ Total(taken) \in Nat /\ Total(owed) \in Nat /\ Total(tracked) \in Nat
  BY <1>0, BooksTypes
<1>u. UNCHANGED <<balance, negativeBalance, taken, owed, tracked, budget, deposit,
                  unbooked>>
  BY DEF Host, HostDeposit, HostLateDeposit, HostReports, HostLate, accountVars,
         withdrawalVars, refundVars, refillVars, subVars
<1>1. CASE HostDeposit
  <2>1. /\ host' = host + deposit /\ refill = "sent" /\ refill' = "answered"
        /\ UNCHANGED <<loop, reported, missed>>
    BY <1>1 DEF HostDeposit, loopVars
  <2>2. loop # "syncApply"
    BY <2>1, SyncFindsIdle
  <2>3. Booked' = Booked + deposit /\ Booked \in Int
    BY <1>t, <1>u, <2>1 DEF Booked
  <2> QED  BY <1>0, <1>t, <1>u, <2>1, <2>2, <2>3 DEF Books, Agreement, OneSided, drifted
<1>2. CASE HostLateDeposit \/ (\E w \in Payers : HostLate(w)) \/ HostReports
  <2>1. /\ UNCHANGED refill
        /\ missed' # Unknown => UNCHANGED <<host, missed>>
        /\ loop' = "syncApply" => reported' = host \/ UNCHANGED <<loop, reported>>
    BY <1>2 DEF HostLateDeposit, HostLate, HostReports, loopVars, refillVars
  <2>2. Booked' = Booked /\ OneSided'
    BY <1>0, <1>u, <2>1 DEF Booked, OneSided
  <2> QED  BY <1>0, <1>u, <2>1, <2>2 DEF Books, Agreement, drifted
<1> QED  BY <1>1, <1>2 DEF Host

\* A sync adopts the balance of the host or leaves everything as it is.
LEMMA SyncBooks ==
    ASSUME IndInv, Books, Sync PROVE Books'
<1>0. TypeOK /\ OneSided /\ (missed # Unknown => Agreement)
  BY DEF IndInv, Books, drifted
<1>u. UNCHANGED <<taken, owed, tracked, budget, refill, deposit, unbooked, host>>
  BY DEF Sync, SyncBecomesDue, SyncStart, SyncGivesUp, SyncIdle, SyncLock,
         SyncApply, SyncFails, withdrawalVars, refundVars, refillVars, subVars
<1>1. CASE ~SyncApply
  <2>1. /\ UNCHANGED <<balance, negativeBalance, missed>>
        /\ loop' = "syncApply" => UNCHANGED <<loop, reported>>
    BY <1>1 DEF Sync, SyncBecomesDue, SyncStart, SyncGivesUp, SyncIdle, SyncLock,
              SyncFails, accountVars
  <2>2. Booked' = Booked /\ OneSided'
    BY <1>0, <1>u, <2>1 DEF Booked, OneSided
  <2> QED  BY <1>0, <1>u, <2>1, <2>2 DEF Books, Agreement, drifted
<1>2. CASE SyncApply /\ ~(availableBalance < reported)
  <2>1. UNCHANGED <<balance, negativeBalance, missed>> /\ loop' = "run"
    BY <1>2 DEF SyncApply
  <2>2. Booked' = Booked /\ OneSided'
    BY <1>0, <1>u, <2>1 DEF Booked, OneSided
  <2> QED  BY <1>0, <1>u, <2>1, <2>2 DEF Books, Agreement, drifted
<1>3. CASE SyncApply /\ availableBalance < reported
  <2>1. /\ balance' = reported /\ negativeBalance' = 0 /\ loop' = "run"
        /\ missed' # Unknown => missed' = 0 /\ reported = host
    BY <1>3 DEF SyncApply, resetBalance
  <2>2. /\ Total(taken) = 0 /\ Total(owed) = 0 /\ Total(tracked) = 0
        /\ refill = "idle" /\ reported \in Nat /\ host \in Nat
    BY <1>0, <1>3, SyncFindsIdle, IdleCostsNothing DEF SyncApply, IndInv, TypeOK
  <2>3. Booked' = reported
    BY <1>u, <2>1, <2>2 DEF Booked
  <2> QED  BY <1>u, <2>1, <2>2, <2>3 DEF Books, Agreement, OneSided, drifted
<1> QED  BY <1>1, <1>2, <1>3

\* A clean restart loads the balance that minExpectedBalance saved, which is
\* all of it; a crash is a drift.
LEMMA RestartBooks ==
    ASSUME IndInv, Books, CleanRestart \/ Crash PROVE Books'
<1>0. TypeOK /\ OneSided /\ (missed # Unknown => Agreement)
  BY DEF IndInv, Books, drifted
<1>1. negativeBalance' = 0
  BY DEF CleanRestart, Crash, Restart, resetBalance
<1>2. CASE CleanRestart
  <2>1. /\ balance' = minExpectedBalance /\ taken' = NoTotal /\ owed' = NoTotal
        /\ tracked' = NoTotal /\ refill' = "idle" /\ loop' # "syncApply"
        /\ UNCHANGED <<host, missed>>
    BY <1>2 DEF CleanRestart, Restart, resetBalance
  <2>2. refill = "idle" /\ \A w \in Payers : wpc[w] = "idle"
    BY <1>2 DEF CleanRestart, isIdle, Payers
  <2>3. ASSUME missed # Unknown PROVE host + missed = balance'
    <3>1. negativeBalance = 0 /\ host + missed = balance /\ pendingWithdrawals = 0
      BY <2>2, <2>3, QuietNotNegative DEF drifted
    <3>2. balance \in Nat
      BY <1>0 DEF TypeOK
    <3>3. minExpectedBalance = balance
      BY <3>1, <3>2 DEF minExpectedBalance
    <3> QED  BY <2>1, <3>1, <3>3
  <2>4. balance' \in Nat
    BY <1>0, <2>1 DEF minExpectedBalance, TypeOK
  <2>5. Booked' = balance'
    BY <1>1, <2>1, <2>4, NoTotalIsZero DEF Booked
  <2> QED  BY <1>1, <2>1, <2>3, <2>5 DEF Books, Agreement, OneSided, drifted
<1>3. CASE Crash
  BY <1>1, <1>3 DEF Crash, Books, OneSided, drifted
<1> QED  BY <1>2, <1>3

\* Every step keeps the books.
LEMMA BooksStep == IndInv /\ Books /\ [Next]_vars => Books'
<1> SUFFICES ASSUME IndInv, Books, [Next]_vars PROVE Books'
  OBVIOUS
<1>1. ASSUME NEW j \in Jobs, NEW c \in Costs, SendProgram(j, c) PROVE Books'
  <2>1. UNCHANGED <<balance, negativeBalance, taken, owed, tracked, host, missed,
                    refill, deposit, unbooked, loop, reported, budget>>
    BY <1>1 DEF SendProgram, loopVars, refundVars, refillVars, subVars
  <2> QED  BY <2>1 DEF Books, OneSided, Agreement, Booked, drifted
<1>2. CASE UNCHANGED vars
  <2>1. UNCHANGED <<balance, negativeBalance, taken, owed, tracked, host, missed,
                    refill, deposit, unbooked, loop, reported, budget>>
    BY <1>2 DEF vars, accountVars, withdrawalVars, loopVars, refundVars, refillVars,
              subVars
  <2> QED  BY <2>1 DEF Books, OneSided, Agreement, Booked, drifted
<1>3. ASSUME NEW j \in Jobs, NEW r \in 0..cost[j], NEW e \in 0..cost[j] - r,
             HostExecute(j, r, e)
      PROVE  Books'
  <2>1. j \in Payers /\ j # Sub
    BY JobsAssumption DEF Payers
  <2> QED  BY <1>3, <2>1, ExecuteBooks
<1>4. CASE HostExecute(Sub, 0, 0)
  <2>1. Sub \in Payers /\ 0 \in 0..cost[Sub] /\ 0 \in 0..cost[Sub] - 0
    BY PayersFinite DEF IndInv, TypeOK
  <2> QED  BY <1>4, <2>1, ExecuteBooks
<1> QED  BY <1>1, <1>2, <1>3, <1>4, JobBooks, RefillBooks, SubBooks, HostBooks,
            SyncBooks, RestartBooks
         DEF Next

\* The books are kept from the start.
LEMMA BooksInvariant == Spec => [](IndInv /\ Books)
<1>1. Init => Books
  <2> SUFFICES ASSUME Init PROVE Books
    OBVIOUS
  <2>1. Booked = 0
    BY NoTotalIsZero DEF Init, Booked
  <2>2. missed = 0 /\ host = 0 /\ refill = "idle" /\ loop # "syncApply"
        /\ negativeBalance = 0
    BY DEF Init
  <2> QED  BY <2>1, <2>2 DEF Books, Agreement, OneSided
<1> QED  BY <1>1, IndInvInit, IndInvStep, BooksStep, PTL DEF Spec

\* What the agreement says of the balances that the account expects.
LEMMA BooksExpected ==
    ASSUME IndInv, Books, ~drifted
    PROVE  /\ minExpectedBalance <= host + missed
           /\ host <= maxExpectedBalance + Total(owed)
           /\ negativeBalance <= pendingDeposits + Total(owed)
<1>1. /\ balance \in Nat /\ negativeBalance \in Nat /\ pendingDeposits \in Nat
      /\ host \in Nat /\ missed \in Nat /\ Total(taken) \in Nat
      /\ Total(owed) \in Nat /\ Total(tracked) \in Nat /\ Deposited \in Nat
  BY BooksTypes DEF IndInv, drifted
<1>2. /\ pendingWithdrawals = Total(cost) /\ Total(cost) \in Nat
      /\ Total(taken) <= Total(cost)
  <2>1. /\ taken \in [Payers -> Nat] /\ cost \in [Payers -> Nat]
        /\ \A w \in Payers : taken[w] <= cost[w]
    BY DEF IndInv, TypeOK, Positions
  <2>2. Total(cost) \in Nat /\ Total(taken) <= Total(cost)
    BY <2>1, TotalType, TotalMonotone, PayersFinite
  <2> QED  BY <2>2 DEF IndInv, PendingMatches
<1>3. Total(tracked) + Deposited <= pendingDeposits
  BY DepositsTracked
<1>4. host + missed = balance - negativeBalance - Total(taken) + Total(owed)
                        + Total(tracked) + Deposited
  BY DEF Books, Agreement, Booked, Deposited
<1>5. minExpectedBalance <= host + missed
  BY <1>1, <1>2, <1>4 DEF minExpectedBalance
<1>6. host <= maxExpectedBalance + Total(owed)
  BY <1>1, <1>3, <1>4 DEF maxExpectedBalance, CurrencySub
<1>7. negativeBalance <= pendingDeposits + Total(owed)
  BY <1>1, <1>3, <1>4 DEF Books, OneSided
<1> QED  BY <1>5, <1>6, <1>7

\* As long as no answer is lost, the account of the renter and what it has not
\* committed make the balance on the host, up to the first budgets of its
\* subscription sessions, for every number of jobs, with registry refunds,
\* across syncs and clean restarts.
THEOREM BalanceAccounted == Spec => []Accounted
<1>1. IndInv /\ Books => Accounted
  BY DEF Books, Agreement, Accounted
<1> QED  BY <1>1, BooksInvariant, PTL

\* Then the balance that is saved, minExpectedBalance, is there at the host, up
\* to those budgets, and maxExpectedBalance is exceeded there by no more than
\* the registry refunds that are not tracked yet.
THEOREM BalanceWithinExpected == Spec => []ExpectedBalances
<1>1. IndInv /\ Books => ExpectedBalances
  BY BooksExpected DEF ExpectedBalances
<1> QED  BY <1>1, BooksInvariant, PTL

\* And a refill takes the balance on the host beyond the target by no more than
\* the registry refunds and the session budget that its amount could not know,
\* though jobs and sessions pay between its computation and its deposit.
THEOREM RefillNeverExceeds == Spec => []RefillFits
<1>1. IndInv /\ Books => RefillFits
  <2> SUFFICES ASSUME IndInv, Books, ~drifted, refill \in {"read", "sent"}
               PROVE  host + deposit <= Target + unbooked
    BY DEF RefillFits
  <2>1. /\ host \in Nat /\ budget \in Nat /\ taken[Sub] \in Nat /\ deposit \in Nat
        /\ unbooked \in Nat
    BY BooksTypes DEF IndInv
  <2>2. host + budget + taken[Sub] + deposit <= Target + unbooked
    BY DEF Books, Agreement
  <2> QED  BY <2>1, <2>2, TargetAssumption
<1> QED  BY <1>1, BooksInvariant, PTL

\* And the negative balance is never larger than the pending deposits and the
\* registry refunds about to become one.
THEOREM NegativeBalanceCovered == Spec => []NegativeCovered
<1>1. IndInv /\ Books => NegativeCovered
  BY BooksExpected DEF NegativeCovered
<1> QED  BY <1>1, BooksInvariant, PTL

=============================================================================
