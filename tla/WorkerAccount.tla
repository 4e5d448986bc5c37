---------------------------- MODULE WorkerAccount ----------------------------
(***************************************************************************)
(* The ephemeral account a worker keeps with its host: account of          *)
(* workeraccount.go, and the threads of the worker that use it.  The work  *)
(* loop launches jobs, the refill and the balance sync; every job pays for *)
(* one program; the subscription loop pays on its own.  Each payment is    *)
(* tracked, sent, executed by the host and committed, and the answer of    *)
(* the host may be lost or a request executed after it was given up.  A    *)
(* job that looked up a registry entry the host does not have deposits a   *)
(* refund once its payment is committed.                                   *)
(***************************************************************************)
EXTENDS Integers, Totals

CONSTANTS
    Jobs,            \* job goroutines; each runs one program at a time
    Sub,             \* the subscription loop, as a party that withdraws
    Costs,           \* what programs cost
    Target,          \* staticBalanceTarget
    HostMax,         \* the largest account balance the host accepts
    Budget,          \* initialSubscriptionBudget
    Subscribes,      \* whether the host supports subscriptions
    MaxMoney,        \* bound: no new work beyond this much money
    MaxCrashes       \* bound: how often the renter crashes

ASSUME JobsAssumption    == IsFiniteSet(Jobs) /\ Sub \notin Jobs
ASSUME CostsAssumption   == Costs \subseteq Nat \ {0}
ASSUME TargetAssumption  == Target \in Nat /\ HostMax \in Nat /\ Target <= HostMax
ASSUME BudgetAssumption  == Budget \in Nat \ {0}
ASSUME SubscribesAssumption == Subscribes \in BOOLEAN
ASSUME MaxMoneyAssumption == MaxMoney \in Nat /\ MaxCrashes \in Nat

VARIABLES
    balance, pendingDeposits, pendingWithdrawals, negativeBalance,
    spending,        \* the sum of the spendingDetails
    syncDue,         \* syncAt has passed
    loop,            \* threadedWorkLoop and externSyncAccountBalanceToHost
    reported,        \* the balance in the host's answer
    accountSyncMu,   \* "free", or who holds it
    wpc,             \* where each withdrawal is
    cost,            \* what it tracked, 0 when it tracks nothing
    taken,           \* what the host took for it and is not committed yet
    owed,            \* what the host gave back for a missing registry entry
    tracked,         \* the deposit that was tracked for it
    late,            \* a request given up that the host may still execute
    refill,          \* where managedRefillAccount is
    deposit,         \* the amount it adds
    unbooked,        \* history: what the host has yet to give back, and no
                     \* deposit counts, when the refill reads the balance
    lateDeposit,     \* a deposit given up that the host may still execute
    subscription,    \* where threadedSubscriptionLoop is
    budget,          \* its RPCBudget
    host,            \* the balance of the account on the host
    missed,          \* history: budgets that the host took and the renter did
                     \* not book, Unknown once an answer was lost
    crashes          \* how often the renter crashed

accountVars == <<balance, pendingDeposits, pendingWithdrawals,
                 negativeBalance, spending>>
loopVars == <<syncDue, loop, reported>>
refundVars == <<owed, tracked>>
withdrawalVars == <<wpc, cost, taken, refundVars, late>>
refillVars == <<refill, deposit, unbooked, lateDeposit>>
subVars == <<subscription, budget>>
vars == <<accountVars, loopVars, accountSyncMu, withdrawalVars, refillVars,
          subVars, host, missed, crashes>>

Payers == Jobs \cup {Sub}

NoTotal == [w \in Payers |-> 0]

\* The renter missed something that the host did.
Unknown == -1
drifted == missed = Unknown

Init ==
    /\ balance = 0 /\ pendingDeposits = 0 /\ pendingWithdrawals = 0
    /\ negativeBalance = 0 /\ spending = 0
    /\ syncDue = TRUE /\ loop \in {"run", "syncWait"} /\ reported = 0
    /\ accountSyncMu = "free"
    /\ wpc = [w \in Payers |-> "idle"]
    /\ cost = NoTotal /\ taken = NoTotal /\ owed = NoTotal
    /\ tracked = NoTotal /\ late = NoTotal
    /\ refill = "idle" /\ deposit = 0 /\ unbooked = 0 /\ lateDeposit = 0
    /\ subscription = "none" /\ budget = 0
    /\ host = 0 /\ missed = 0 /\ crashes = 0

\* No new work once this much money was seen.
WithinBound == balance + negativeBalance + spending <= MaxMoney

-----------------------------------------------------------------------------
(* The accounting of account *)

\* types.Currency.Sub: a negative result is reported and x returned.
CurrencySub(x, y) == IF x < y THEN x ELSE x - y

availableBalance ==
    LET total == balance + pendingDeposits - negativeBalance IN
    IF total > pendingWithdrawals /\ total > 0 THEN total - pendingWithdrawals
    ELSE 0

\* Mutant of maxExpectedBalance: pending withdrawals count as done.
maxExpectedAvailable == availableBalance

maxExpectedBalance == CurrencySub(balance + pendingDeposits, negativeBalance)

\* Mutant of minExpectedBalance: pending withdrawals are forgotten.
minExpectedWithoutPending == CurrencySub(balance, negativeBalance)

minExpectedBalance ==
    IF balance > negativeBalance + pendingWithdrawals
    THEN balance - negativeBalance - pendingWithdrawals
    ELSE 0

managedTrackWithdrawal(w, amount) ==
    /\ pendingWithdrawals' = pendingWithdrawals + amount
    /\ cost' = [cost EXCEPT ![w] = amount]

\* Mutant of managedCommitWithdrawal: there is no negative balance.
managedCommitWithdrawalDirect(withdrawal, refund, success) ==
    /\ pendingWithdrawals' = CurrencySub(pendingWithdrawals, withdrawal + refund)
    /\ balance' = IF success THEN balance - withdrawal ELSE balance
    /\ spending' = IF success THEN spending + withdrawal ELSE spending
    /\ UNCHANGED negativeBalance

\* Mutant of managedCommitWithdrawal: the refund stays pending.
managedCommitWithdrawalNoRefund(withdrawal, refund, success) ==
    /\ pendingWithdrawals' = CurrencySub(pendingWithdrawals, withdrawal)
    /\ balance' = IF success THEN CurrencySub(balance, withdrawal) ELSE balance
    /\ spending' = IF success THEN spending + withdrawal ELSE spending
    /\ UNCHANGED negativeBalance

\* A successful withdrawal is paid from the balance; the rest is negative
\* balance, and it is that rest which counts as spent.
managedCommitWithdrawal(withdrawal, refund, success) ==
    /\ pendingWithdrawals' = CurrencySub(pendingWithdrawals, withdrawal + refund)
    /\ \/ /\ success /\ balance >= withdrawal
          /\ balance' = balance - withdrawal
          /\ spending' = spending + withdrawal
          /\ UNCHANGED negativeBalance
       \/ /\ success /\ balance < withdrawal
          /\ balance' = 0
          /\ negativeBalance' = negativeBalance + (withdrawal - balance)
          /\ spending' = spending + (withdrawal - balance)
       \/ /\ ~success
          /\ UNCHANGED <<balance, negativeBalance, spending>>

\* Mutant of Credit: a negative balance is forgotten, not paid off.
CreditInFull(amount) ==
    /\ balance' = balance + amount
    /\ negativeBalance' = 0

\* Mutant of Credit: a negative balance is kept beside the new balance.
CreditBeside(amount) ==
    /\ balance' = balance + amount
    /\ UNCHANGED negativeBalance

\* What a successful deposit does to the balance.
Credit(amount) ==
    IF amount <= negativeBalance
    THEN /\ negativeBalance' = negativeBalance - amount
         /\ UNCHANGED balance
    ELSE /\ negativeBalance' = 0
         /\ balance' = balance + (amount - negativeBalance)

managedCommitDeposit(amount, success) ==
    /\ pendingDeposits' = CurrencySub(pendingDeposits, amount)
    /\ IF success THEN Credit(amount) ELSE UNCHANGED <<balance, negativeBalance>>

resetBalance(b) ==
    /\ balance' = b
    /\ pendingDeposits' = 0 /\ pendingWithdrawals' = 0 /\ negativeBalance' = 0

-----------------------------------------------------------------------------
(* Jobs: managedExecuteProgram *)

\* The work loop launches a job: from here on the worker is not idle.
LaunchJob(j) ==
    /\ loop = "run" /\ wpc[j] = "idle" /\ late[j] = 0 /\ WithinBound
    /\ wpc' = [wpc EXCEPT ![j] = "launched"]
    /\ UNCHANGED <<accountVars, loopVars, accountSyncMu, cost, taken,
                   refundVars, late, refillVars, subVars, host, missed, crashes>>

\* The job tracks its cost and sends the program with its payment.
SendProgram(j, c) ==
    /\ wpc[j] = "launched"
    /\ managedTrackWithdrawal(j, c)
    /\ wpc' = [wpc EXCEPT ![j] = "sent"]
    /\ UNCHANGED <<balance, pendingDeposits, negativeBalance, spending,
                   loopVars, accountSyncMu, taken, refundVars, late,
                   refillVars, subVars, host, missed, crashes>>

\* The job ends without running a program.
JobQuits(j) ==
    /\ wpc[j] = "launched"
    /\ wpc' = [wpc EXCEPT ![j] = "idle"]
    /\ UNCHANGED <<accountVars, loopVars, accountSyncMu, cost, taken,
                   refundVars, late, refillVars, subVars, host, missed, crashes>>

\* What ends the tracking of the withdrawal of payer w.
Settled(w) ==
    /\ cost' = [cost EXCEPT ![w] = 0]
    /\ taken' = [taken EXCEPT ![w] = 0]

\* The answer arrived: what the host did not take is the refund.  The refund
\* for a registry entry that was not found is not part of it.
JobDone(j) ==
    /\ wpc[j] = "answered"
    /\ managedCommitWithdrawal(taken[j], cost[j] - taken[j], TRUE)
    /\ Settled(j)
    /\ wpc' = [wpc EXCEPT ![j] = IF owed[j] > 0 THEN "refunded" ELSE "idle"]
    /\ UNCHANGED <<pendingDeposits, loopVars, accountSyncMu, refundVars, late,
                   refillVars, subVars, host, missed, crashes>>

\* lookupRegistry found no entry: it tracks the refund as a deposit ...
RefundTracked(j) ==
    /\ wpc[j] = "refunded"
    /\ pendingDeposits' = pendingDeposits + owed[j]
    /\ tracked' = [tracked EXCEPT ![j] = owed[j]]
    /\ owed' = [owed EXCEPT ![j] = 0]
    /\ wpc' = [wpc EXCEPT ![j] = "depositing"]
    /\ UNCHANGED <<balance, pendingWithdrawals, negativeBalance, spending,
                   loopVars, accountSyncMu, cost, taken, late, refillVars,
                   subVars, host, missed, crashes>>

\* ... and commits it.
RefundDone(j) ==
    /\ wpc[j] = "depositing"
    /\ managedCommitDeposit(tracked[j], TRUE)
    /\ tracked' = [tracked EXCEPT ![j] = 0]
    /\ wpc' = [wpc EXCEPT ![j] = "idle"]
    /\ UNCHANGED <<pendingWithdrawals, spending, loopVars, accountSyncMu, cost,
                   taken, owed, late, refillVars, subVars, host, missed,
                   crashes>>

\* What is left of a request that was given up: the host executed it already,
\* or may do so later, and a refund goes unnoticed.
Abandon(w) ==
    /\ late' = IF wpc[w] = "sent" THEN [late EXCEPT ![w] = cost[w]] ELSE late
    /\ missed' = IF taken[w] > owed[w] THEN Unknown ELSE missed
    /\ owed' = [owed EXCEPT ![w] = 0]
    /\ wpc' = [wpc EXCEPT ![w] = "idle"]
    /\ UNCHANGED tracked

\* The job ends with an error, before or after the host did its part.
JobFails(j) ==
    /\ wpc[j] \in {"sent", "answered"}
    /\ managedCommitWithdrawal(taken[j], cost[j] - taken[j], FALSE)
    /\ Abandon(j)
    /\ Settled(j)
    /\ UNCHANGED <<pendingDeposits, loopVars, accountSyncMu, refillVars,
                   subVars, host, crashes>>

-----------------------------------------------------------------------------
(* managedRefillAccount *)

managedNeedsToRefillAccount == availableBalance < Target \div 2

LaunchRefill ==
    /\ loop = "run" /\ refill = "idle" /\ lateDeposit = 0
    /\ managedNeedsToRefillAccount
    /\ refill' = "launched"
    /\ UNCHANGED <<accountVars, loopVars, accountSyncMu, withdrawalVars,
                   deposit, unbooked, lateDeposit, subVars, host, missed,
                   crashes>>

\* The refill computes its amount, or finds that nothing is missing.  The
\* contract may not have money for all of it.
RefillReads ==
    /\ refill = "launched"
    /\ \/ /\ Target <= maxExpectedBalance
          /\ refill' = "idle" /\ UNCHANGED <<deposit, unbooked>>
       \/ /\ refill' = "read"
          /\ \E amount \in 1..(Target - maxExpectedBalance) : deposit' = amount
          /\ unbooked' = Total(owed) + budget
    /\ UNCHANGED <<accountVars, loopVars, accountSyncMu, withdrawalVars,
                   lateDeposit, subVars, host, missed, crashes>>

\* managedTrackDeposit; the request is sent.
RefillTracks ==
    /\ refill = "read"
    /\ pendingDeposits' = pendingDeposits + deposit
    /\ refill' = "sent"
    /\ UNCHANGED <<balance, pendingWithdrawals, negativeBalance, spending,
                   loopVars, accountSyncMu, withdrawalVars, deposit,
                   unbooked, lateDeposit, subVars, host, missed, crashes>>

RefillDone ==
    /\ refill = "answered"
    /\ managedCommitDeposit(deposit, TRUE)
    /\ refill' = "idle" /\ deposit' = 0 /\ unbooked' = 0
    /\ UNCHANGED <<pendingWithdrawals, spending, loopVars, accountSyncMu,
                   withdrawalVars, lateDeposit, subVars, host, missed, crashes>>

\* The refill fails, before or after the host did its part.
RefillFails ==
    /\ refill \in {"sent", "answered"}
    /\ managedCommitDeposit(deposit, FALSE)
    /\ refill' = "idle" /\ deposit' = 0 /\ unbooked' = 0
    /\ lateDeposit' = IF refill = "sent" THEN deposit ELSE lateDeposit
    /\ missed' = IF refill = "answered" THEN Unknown ELSE missed
    /\ UNCHANGED <<pendingWithdrawals, spending, loopVars, accountSyncMu,
                   withdrawalVars, subVars, host, crashes>>

\* The host refuses the deposit: "balance exceeded" makes a sync due.
RefillRejected ==
    /\ refill = "sent" /\ host + deposit > HostMax
    /\ managedCommitDeposit(deposit, FALSE)
    /\ refill' = "idle" /\ deposit' = 0 /\ unbooked' = 0
    /\ syncDue' = TRUE
    /\ UNCHANGED <<pendingWithdrawals, spending, loop, reported, accountSyncMu,
                   withdrawalVars, lateDeposit, subVars, host, missed, crashes>>

-----------------------------------------------------------------------------
(* threadedSubscriptionLoop *)

\* Withdrawals of the subscription loop happen under accountSyncMu.
SubPays(amount, at) ==
    /\ accountSyncMu = "free" /\ late[Sub] = 0
    /\ accountSyncMu' = "sub"
    /\ managedTrackWithdrawal(Sub, amount)
    /\ wpc' = [wpc EXCEPT ![Sub] = "sent"]
    /\ subscription' = at
    /\ UNCHANGED <<balance, pendingDeposits, negativeBalance, spending,
                   loopVars, taken, refundVars, late, refillVars, budget,
                   host, missed, crashes>>

SubBegin ==
    /\ Subscribes /\ subscription = "none" /\ WithinBound
    /\ SubPays(Budget, "begin")

\* The session is open: the withdrawal is committed as a failed one.
SubBegun ==
    /\ subscription = "begin" /\ wpc[Sub] = "answered"
    /\ managedCommitWithdrawal(Budget, 0, FALSE)
    /\ Settled(Sub) /\ wpc' = [wpc EXCEPT ![Sub] = "idle"]
    /\ accountSyncMu' = "free"
    /\ subscription' = "open" /\ budget' = Budget
    /\ missed' = IF drifted THEN missed ELSE missed + Budget
    /\ UNCHANGED <<pendingDeposits, loopVars, refundVars, late, refillVars, host,
                   crashes>>

\* Notifications and extensions use the budget up.
SubSpend ==
    /\ subscription = "open" /\ budget > 0
    /\ budget' = budget - 1
    /\ UNCHANGED <<accountVars, loopVars, accountSyncMu, withdrawalVars,
                   refillVars, subscription, host, missed, crashes>>

\* managedRefillSubscription.
SubRefill ==
    /\ subscription = "open" /\ budget < Budget /\ WithinBound
    /\ SubPays(Budget - budget, "refill")

SubRefilled ==
    /\ subscription = "refill" /\ wpc[Sub] = "answered"
    /\ managedCommitWithdrawal(cost[Sub], 0, TRUE)
    /\ Settled(Sub) /\ wpc' = [wpc EXCEPT ![Sub] = "idle"]
    /\ accountSyncMu' = "free"
    /\ subscription' = "open" /\ budget' = Budget
    /\ UNCHANGED <<pendingDeposits, loopVars, refundVars, late, refillVars,
                   host, missed, crashes>>

\* Mutant of SubFails: the error path keeps accountSyncMu locked.
SubFailsLocked ==
    /\ wpc[Sub] \in {"sent", "answered"}
    /\ managedCommitWithdrawal(cost[Sub], 0, FALSE)
    /\ Abandon(Sub)
    /\ Settled(Sub)
    /\ subscription' = IF subscription = "begin" THEN "none" ELSE "closing"
    /\ UNCHANGED <<pendingDeposits, loopVars, accountSyncMu, refillVars,
                   budget, host, crashes>>

\* The session could not be opened, or not be refilled, which ends it.
SubFails ==
    /\ wpc[Sub] \in {"sent", "answered"}
    /\ managedCommitWithdrawal(cost[Sub], 0, FALSE)
    /\ Abandon(Sub)
    /\ Settled(Sub)
    /\ accountSyncMu' = "free"
    /\ subscription' = IF subscription = "begin" THEN "none" ELSE "closing"
    /\ UNCHANGED <<pendingDeposits, loopVars, refillVars, budget, host, crashes>>

\* The session ends: what is left of the budget is deposited.  The host gives
\* it back when the stream is closed.
SubEnd ==
    /\ subscription \in {"open", "closing"} /\ accountSyncMu = "free"
    /\ Credit(budget)
    /\ host' = host + budget
    /\ subscription' = "none" /\ budget' = 0
    /\ UNCHANGED <<pendingDeposits, pendingWithdrawals, spending, loopVars,
                   accountSyncMu, withdrawalVars, refillVars, missed, crashes>>

-----------------------------------------------------------------------------
(* The host *)

\* The host executes a program when the account has the money for it, and
\* gives back what the program did not need and, for an entry that is not in
\* its registry, a part of the price of the lookup.
HostExecute(w, refund, entry) ==
    /\ wpc[w] = "sent" /\ host >= cost[w]
    /\ host' = host - (cost[w] - refund) + entry
    /\ taken' = [taken EXCEPT ![w] = cost[w] - refund]
    /\ owed' = [owed EXCEPT ![w] = entry]
    /\ wpc' = [wpc EXCEPT ![w] = "answered"]
    /\ UNCHANGED <<accountVars, loopVars, accountSyncMu, cost, tracked, late,
                   refillVars, subVars, missed, crashes>>

\* The host executes a program whose sender has given up, or never does.
HostLate(w) ==
    /\ late[w] > 0
    /\ \/ host >= late[w] /\ host' = host - late[w] /\ missed' = Unknown
       \/ UNCHANGED <<host, missed>>
    /\ late' = [late EXCEPT ![w] = 0]
    /\ UNCHANGED <<accountVars, loopVars, accountSyncMu, wpc, cost, taken,
                   refundVars, refillVars, subVars, crashes>>

HostDeposit ==
    /\ refill = "sent" /\ host + deposit <= HostMax
    /\ host' = host + deposit
    /\ refill' = "answered"
    /\ UNCHANGED <<accountVars, loopVars, accountSyncMu, withdrawalVars,
                   deposit, unbooked, lateDeposit, subVars, missed, crashes>>

HostLateDeposit ==
    /\ lateDeposit > 0
    /\ \/ /\ host + lateDeposit <= HostMax
          /\ host' = host + lateDeposit /\ missed' = Unknown
       \/ UNCHANGED <<host, missed>>
    /\ lateDeposit' = 0
    /\ UNCHANGED <<accountVars, loopVars, accountSyncMu, withdrawalVars,
                   refill, deposit, unbooked, subVars, crashes>>

-----------------------------------------------------------------------------
(* externSyncAccountBalanceToHost, run by the work loop *)

\* isIdle: no serial and no async job is running.
isIdle == refill = "idle" /\ \A j \in Jobs : wpc[j] = "idle"

\* syncAt passes.
SyncBecomesDue ==
    /\ ~syncDue /\ syncDue' = TRUE
    /\ UNCHANGED <<accountVars, loop, reported, accountSyncMu, withdrawalVars,
                   refillVars, subVars, host, missed, crashes>>

SyncStart ==
    /\ loop = "run" /\ syncDue
    /\ loop' = "syncWait"
    /\ UNCHANGED <<accountVars, syncDue, reported, accountSyncMu,
                   withdrawalVars, refillVars, subVars, host, missed, crashes>>

\* The worker was busy for accountIdleMaxWait.
SyncGivesUp ==
    /\ loop = "syncWait" /\ ~isIdle
    /\ loop' = "run"
    /\ UNCHANGED <<accountVars, syncDue, reported, accountSyncMu,
                   withdrawalVars, refillVars, subVars, host, missed, crashes>>

SyncIdle ==
    /\ loop = "syncWait" /\ isIdle
    /\ loop' = "syncLock"
    /\ UNCHANGED <<accountVars, syncDue, reported, accountSyncMu,
                   withdrawalVars, refillVars, subVars, host, missed, crashes>>

\* Mutant of SyncLock: the sync does not wait for the subscription loop.
SyncLockAnyway ==
    /\ loop = "syncLock"
    /\ accountSyncMu' = "sync"
    /\ loop' = "syncRPC"
    /\ UNCHANGED <<accountVars, syncDue, reported, withdrawalVars, refillVars,
                   subVars, host, missed, crashes>>

\* accountSyncMu is taken and the balance request sent.
SyncLock ==
    /\ loop = "syncLock" /\ accountSyncMu = "free"
    /\ accountSyncMu' = "sync"
    /\ loop' = "syncRPC"
    /\ UNCHANGED <<accountVars, syncDue, reported, withdrawalVars, refillVars,
                   subVars, host, missed, crashes>>

HostReports ==
    /\ loop = "syncRPC"
    /\ reported' = host
    /\ loop' = "syncApply"
    /\ UNCHANGED <<accountVars, syncDue, accountSyncMu, withdrawalVars,
                   refillVars, subVars, host, missed, crashes>>

\* The call of managedSyncBalance adopts a higher balance and keeps a lower
\* one.  What was missed before does not matter once the host's balance is
\* adopted.
SyncApply ==
    /\ loop = "syncApply"
    /\ IF availableBalance < reported
       THEN /\ resetBalance(reported)
            /\ missed' = IF reported = host THEN 0 ELSE Unknown
       ELSE UNCHANGED <<balance, pendingDeposits, pendingWithdrawals,
                        negativeBalance, missed>>
    /\ syncDue' = FALSE
    /\ loop' = "run" /\ accountSyncMu' = "free" /\ reported' = 0
    /\ UNCHANGED <<spending, withdrawalVars, refillVars, subscription, budget,
                   host, crashes>>

SyncFails ==
    /\ loop \in {"syncRPC", "syncApply"}
    /\ loop' = "run" /\ accountSyncMu' = "free" /\ reported' = 0
    /\ UNCHANGED <<accountVars, syncDue, withdrawalVars, refillVars, subVars,
                   host, missed, crashes>>

-----------------------------------------------------------------------------
(* The renter stops and starts again *)

\* What a new process begins with: the balance b that load read.  Without a
\* valid price table there is no sync before the loop.
Restart(b) ==
    /\ resetBalance(b)
    /\ syncDue' = TRUE /\ loop' \in {"run", "syncWait"} /\ reported' = 0
    /\ accountSyncMu' = "free"
    /\ wpc' = [w \in Payers |-> "idle"]
    /\ cost' = NoTotal /\ taken' = NoTotal /\ owed' = NoTotal
    /\ tracked' = NoTotal
    /\ refill' = "idle" /\ deposit' = 0 /\ unbooked' = 0
    /\ subscription' = "none" /\ budget' = 0
    /\ UNCHANGED spending

\* A clean shutdown waits for every thread and saves the balance.
CleanRestart ==
    /\ isIdle /\ wpc[Sub] = "idle" /\ subscription = "none" /\ loop = "run"
    /\ Restart(minExpectedBalance)
    /\ UNCHANGED <<late, lateDeposit, host, missed, crashes>>

\* A crash at any time.  The accounts file is not clean: load forgets the
\* balance.  The host gives the budget of a subscription back.
Crash ==
    /\ crashes < MaxCrashes /\ crashes' = crashes + 1
    /\ Restart(0)
    /\ host' = host + budget
    /\ late' = [w \in Payers |-> IF wpc[w] = "sent" THEN cost[w] ELSE late[w]]
    /\ lateDeposit' = IF refill = "sent" THEN deposit ELSE lateDeposit
    /\ missed' = Unknown

-----------------------------------------------------------------------------

Job(j) == LaunchJob(j) \/ JobQuits(j) \/ JobDone(j) \/ JobFails(j)
            \/ RefundTracked(j) \/ RefundDone(j)

Refill == LaunchRefill \/ RefillReads \/ RefillTracks \/ RefillDone
            \/ RefillFails \/ RefillRejected

Subscription == SubBegin \/ SubBegun \/ SubSpend \/ SubRefill \/ SubRefilled
                  \/ SubFails \/ SubEnd

Sync == SyncBecomesDue \/ SyncStart \/ SyncGivesUp \/ SyncIdle \/ SyncLock
          \/ SyncApply \/ SyncFails

Host == HostDeposit \/ HostLateDeposit \/ HostReports

Next ==
    \/ \E j \in Jobs : Job(j) \/ \E c \in Costs : SendProgram(j, c)
    \/ \E j \in Jobs : \E r \in 0..cost[j] : \E e \in 0..cost[j] - r :
            HostExecute(j, r, e)
    \/ HostExecute(Sub, 0, 0)
    \/ \E w \in Payers : HostLate(w)
    \/ Refill \/ Subscription \/ Sync \/ Host
    \/ CleanRestart \/ Crash

Spec == Init /\ [][Next]_vars

\* The streams of the worker have deadlines, so that every request ends, with
\* an answer or without; the wait for the worker to become idle is bounded;
\* and a Go mutex is handed to whoever waits for it long enough.
Fairness ==
    /\ WF_vars(SyncGivesUp \/ SyncIdle)
    /\ SF_vars(SyncLock)
    /\ WF_vars(HostReports \/ SyncApply \/ SyncFails)
    /\ WF_vars(SubBegun \/ SubRefilled \/ SubFails)

FairSpec == Spec /\ Fairness

-----------------------------------------------------------------------------
(* Properties *)

\* Every variable has its type: no currency, which the code keeps unsigned,
\* gets negative through commits, deposits and syncs.
TypeOK ==
    /\ balance \in Nat /\ pendingDeposits \in Nat /\ pendingWithdrawals \in Nat
    /\ negativeBalance \in Nat /\ spending \in Nat
    /\ syncDue \in BOOLEAN /\ reported \in Nat
    /\ loop \in {"run", "syncWait", "syncLock", "syncRPC", "syncApply"}
    /\ accountSyncMu \in {"free", "sync", "sub"}
    /\ wpc \in [Payers -> {"idle", "launched", "sent", "answered", "refunded",
                       "depositing"}]
    /\ cost \in [Payers -> Nat] /\ taken \in [Payers -> Nat]
    /\ owed \in [Payers -> Nat] /\ tracked \in [Payers -> Nat]
    /\ late \in [Payers -> Nat]
    /\ refill \in {"idle", "launched", "read", "sent", "answered"}
    /\ deposit \in Nat /\ unbooked \in Nat /\ lateDeposit \in Nat
    /\ subscription \in {"none", "begin", "open", "refill", "closing"}
    /\ budget \in 0..Budget
    /\ host \in Nat /\ missed \in Nat \cup {Unknown} /\ crashes \in Nat

\* The pending counters are the sums of what the running operations tracked,
\* across syncs that set them to zero, so that no commit subtracts more than
\* is there (the sanity check in types.Currency.Sub).
PendingMatches ==
    /\ pendingWithdrawals = Total(cost)
    /\ pendingDeposits = Total(tracked) +
            (IF refill \in {"sent", "answered"} THEN deposit ELSE 0)

\* While the balance request is out no money is in motion: the build.Critical
\* of externSyncAccountBalanceToHost about non-zero deltas never fires, though
\* the subscription loop does not count as a job.
DeltasZeroAtSync ==
    loop \in {"syncRPC", "syncApply"} =>
        pendingDeposits = 0 /\ pendingWithdrawals = 0

\* What the renter's books make of the balance on the host: its balance, what
\* the host did and the renter has not committed yet, and what is tracked.
Booked ==
    balance - negativeBalance - Total(taken) + Total(owed) + Total(tracked)
      + (IF refill = "answered" THEN deposit ELSE 0)

\* As long as no answer was lost, the books of the renter and the balance on
\* the host differ by the first budgets of its subscription sessions and by
\* nothing else, whatever jobs, refills, syncs and sessions do.
Accounted == ~drifted => host + missed = Booked

\* "Mark withdrawal as successful", says the subscription loop when a
\* session is open: then the books of the renter are right.
SessionsPaid == ~drifted => host = Booked

\* The balance that persist saves, minExpectedBalance, is there at the host,
\* up to the first budgets of sessions, and there is no more there than
\* maxExpectedBalance and the refunds of registry lookups not tracked yet.
ExpectedBalances ==
    ~drifted => /\ minExpectedBalance <= host + missed
                /\ host <= maxExpectedBalance + Total(owed)

\* As long as no answer was lost, a refill takes the balance on the host beyond
\* the target by no more than the budget of the session that was open and the
\* registry refunds that were not tracked when its amount was computed,
\* whatever jobs and sessions pay and get back until it is made.
RefillFits ==
    ~drifted /\ refill \in {"read", "sent"} =>
        host + deposit <= Target + unbooked

\* Whoever overdrew the account spent a deposit the host has made and not
\* acknowledged yet, or a registry refund that is not tracked yet: the comment
\* in maxExpectedBalance, which has pending deposits only, up to the latter.
NegativeCovered ==
    ~drifted => negativeBalance <= pendingDeposits + Total(owed)

\* An attempt to sync ends, and the worker launches jobs again.
SyncEnds == loop # "run" ~> loop = "run"

\* "all money that is being spent from an ephemeral account is accounted for
\* in one of these categories", says spendingDetails: a job that paid adds
\* what it paid.
SpendingComplete ==
    [][\A j \in Jobs : JobDone(j) => spending' = spending + taken[j]]_vars

=============================================================================
