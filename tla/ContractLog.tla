----------------------------- MODULE ContractLog -----------------------------
(***************************************************************************)
(* A SafeContract: the header with the last revision, the sector roots and *)
(* the write-ahead log.  A change of the contract is recorded in the log,  *)
(* sent to the host and, once the host has signed it, applied to the files *)
(* and taken out of the log.  When the answer is lost the transaction      *)
(* stays unapplied, and the next session compares the revision of the host *)
(* with it.  Whoever uses the contract has acquired it, so one change is   *)
(* made at a time; the host may act on a request that was given up.        *)
(*                                                                         *)
(* A revision is its number and its Merkle root, which stands for the      *)
(* roots of the sectors.  Payouts, signatures and the reference counter    *)
(* are left out.                                                           *)
(***************************************************************************)
EXTENDS Integers, Sequences

CONSTANTS
    Sectors,        \* roots of sectors
    Zero,           \* the empty hash
    MaxRevision,    \* bound: number of the last revision
    MaxTxns,        \* bound: transactions in the log
    MaxCrashes      \* bound

ASSUME ZeroAssumption == Zero \notin Sectors
ASSUME BoundAssumption ==
    /\ MaxRevision \in Nat
    /\ MaxTxns \in Nat
    /\ MaxCrashes \in Nat

VARIABLES
    host,           \* the host's revision
    inflight,       \* requests the host may still act on
    header,         \* the header in memory: revision and utility
    unapplied,      \* unappliedTxns
    hfile,          \* the header as written to its file
    hdisk,          \* the header as last synced
    roots,          \* the sector roots, in memory and in their file
    rdisk,          \* the roots that a loss of power leaves; nobody syncs them
    wal,            \* transactions in the write-ahead log
    pc, mode,       \* what the holder of the contract does
    cur,            \* its transaction
    txns, crashes,
    torn            \* history: a crash left a header without its roots

files == <<hfile, hdisk, roots, rdisk>>
vars == <<host, inflight, header, unapplied, files, wal, pc, mode, cur, txns,
          crashes, torn>>

Rev(x) == [num |-> x.num, roots |-> x.roots]
SameRevision(x, r) == x.num = r.num /\ x.roots = r.roots

\* A new contract: revision 1 without sectors.
Start == [num |-> 1, roots |-> <<>>, good |-> TRUE]
NoTxn == [id |-> 0, num |-> 0, roots |-> <<>>, good |-> TRUE, sets |-> {}]

Init ==
    /\ host = Rev(Start) /\ inflight = {}
    /\ header = Start /\ hfile = Start /\ hdisk = Start
    /\ roots = <<>> /\ rdisk = <<>>
    /\ unapplied = {} /\ wal = {}
    /\ pc = "idle" /\ mode = "commit" /\ cur = NoTxn
    /\ txns = 0 /\ crashes = 0 /\ torn = FALSE

-----------------------------------------------------------------------------
(* Recording a change *)

\* merkleRoots.insert: missing roots before the index are filled up.
insert(r, i, s) ==
    [k \in 1 .. (IF i > Len(r) THEN i ELSE Len(r)) |->
        IF k = i THEN s ELSE IF k <= Len(r) THEN r[k] ELSE Zero]

\* A transaction with a header for r and the roots it sets.
newWalTxn(r, good, sets) ==
    [id |-> txns + 1, num |-> r.num, roots |-> r.roots, good |-> good,
     sets |-> sets]

\* The change is recorded before the signed revision is sent to the host.
Record(r, sets) ==
    /\ pc = "idle" /\ header.num < MaxRevision /\ txns < MaxTxns
    /\ cur' = newWalTxn(r, header.good, sets)
    /\ wal' = wal \cup {cur'}
    /\ unapplied' = unapplied \cup {cur'}
    /\ inflight' = inflight \cup {cur'}
    /\ pc' = "sent" /\ mode' = "commit"
    /\ txns' = txns + 1
    /\ UNCHANGED <<host, header, files, crashes, torn>>

\* Mutant of managedRecordRootUpdates: sectors count from zero.
RecordRootUpdatesFromZero(i, s) ==
    /\ i <= Len(header.roots) + 1
    /\ Record([num |-> header.num + 1, roots |-> insert(header.roots, i, s)],
              {<<i - 1, s>>})

\* managedRecordRootUpdates: a sector is appended or replaced.
managedRecordRootUpdates(i, s) ==
    /\ i <= Len(header.roots) + 1
    /\ Record([num |-> header.num + 1, roots |-> insert(header.roots, i, s)],
              {<<i, s>>})

\* managedRecordDownloadIntent and RecordPaymentIntent: money only.
managedRecordDownloadIntent ==
    Record([num |-> header.num + 1, roots |-> header.roots], {})

-----------------------------------------------------------------------------
(* The host *)

\* The host signs a revision that is newer than its own; its answer arrives, or
\* it does not, or nobody waits for it any more.
HostSigns(t) ==
    /\ t \in inflight /\ t.num > host.num
    /\ host' = Rev(t)
    /\ inflight' = inflight \ {t}
    /\ \/ pc = "sent" /\ t = cur /\ pc' = "apply"
       \/ UNCHANGED pc
    /\ UNCHANGED <<header, unapplied, files, wal, mode, cur, txns, crashes, torn>>

\* Mutant of GiveUp: a change without an answer is taken out of the log.
GiveUpAndDrop ==
    /\ pc = "sent"
    /\ pc' = "idle"
    /\ unapplied' = unapplied \ {cur}
    /\ wal' = wal \ {cur}
    /\ UNCHANGED <<host, inflight, header, files, mode, cur, txns, crashes, torn>>

\* Mutant of GiveUp: a change is committed without the host's signature.
GiveUpAndApply ==
    /\ pc = "sent"
    /\ pc' = "apply"
    /\ UNCHANGED <<host, inflight, header, unapplied, files, wal, mode, cur,
                   txns, crashes, torn>>

\* An error, a refusal or a lost answer: the transaction stays unapplied.
GiveUp ==
    /\ pc = "sent"
    /\ pc' = "idle"
    /\ UNCHANGED <<host, inflight, header, unapplied, files, wal, mode, cur,
                   txns, crashes, torn>>

-----------------------------------------------------------------------------
(* managedCommitAppend, managedCommitDownload and CommitPaymentIntent; the   *)
(* same steps apply a transaction found by managedSyncRevision and a utility *)

applySetHeader ==
    /\ pc = "apply"
    /\ pc' = "roots"
    /\ header' = [num |-> cur.num, roots |-> cur.roots, good |-> cur.good]
    /\ hfile' = header'
    /\ UNCHANGED <<host, inflight, unapplied, hdisk, roots, rdisk, wal, mode, cur,
                   txns, crashes, torn>>

\* Mutant of applySetRoot: only a commit sets the roots.
applySetRootOnCommit ==
    /\ pc = "roots"
    /\ pc' = "sync"
    /\ \/ (cur.sets = {} \/ mode = "sync") /\ UNCHANGED roots
       \/ mode # "sync"
          /\ \E u \in cur.sets : roots' = insert(roots, u[1], u[2])
    /\ UNCHANGED <<host, inflight, header, unapplied, hfile, hdisk, rdisk, wal,
                   mode, cur, txns, crashes, torn>>

applySetRoot ==
    /\ pc = "roots"
    /\ pc' = "sync"
    /\ \/ cur.sets = {} /\ UNCHANGED roots
       \/ \E u \in cur.sets : roots' = insert(roots, u[1], u[2])
    /\ UNCHANGED <<host, inflight, header, unapplied, hfile, hdisk, rdisk, wal,
                   mode, cur, txns, crashes, torn>>

SyncHeader ==
    /\ pc = "sync"
    /\ pc' = IF mode = "sync" THEN "clear" ELSE "signal"
    /\ hdisk' = hfile
    /\ UNCHANGED <<host, inflight, header, unapplied, hfile, roots, rdisk, wal,
                   mode, cur, txns, crashes, torn>>

\* The utility's transaction was never one of the unapplied ones.
SignalUpdatesApplied ==
    /\ pc = "signal"
    /\ pc' = IF mode = "utility" THEN "idle" ELSE "clear"
    /\ wal' = wal \ {cur}
    /\ UNCHANGED <<host, inflight, header, unapplied, files, mode, cur, txns,
                   crashes, torn>>

\* The unapplied transactions are dropped one by one, the oldest first.
clearUnappliedTxns ==
    /\ pc = "clear"
    /\ \/ unapplied = {} /\ pc' = "idle" /\ UNCHANGED <<unapplied, wal>>
       \/ \E t \in unapplied :
            /\ \A u \in unapplied : t.id <= u.id
            /\ unapplied' = unapplied \ {t}
            /\ wal' = wal \ {t}
            /\ UNCHANGED pc
    /\ UNCHANGED <<host, inflight, header, files, mode, cur, txns, crashes, torn>>

-----------------------------------------------------------------------------
(* Sessions and utility *)

\* managedSyncRevision of a new session: the revisions are the same, or an
\* unapplied transaction has the host's (the oldest is taken), or the contract
\* cannot be used any more: the host has gone back, or nothing in the log fixes
\* the mismatch and the contract is marked as bad.  The model stops there.
Matching == {t \in unapplied : SameRevision(t, host)}

managedSyncRevision ==
    /\ pc = "idle"
    /\ LET found == host.num >= header.num /\ Matching # {}
           same  == SameRevision(header, host)
       IN  /\ pc' = IF same THEN "idle" ELSE IF found THEN "apply"
                    ELSE "critical"
           /\ mode' = "sync"
           /\ \/ (same \/ ~found) /\ UNCHANGED cur
              \/ ~same /\ found /\ cur' \in Matching
                 /\ \A u \in Matching : cur'.id <= u.id
    /\ UNCHANGED <<host, inflight, header, unapplied, files, wal, txns, crashes, torn>>

UpdateUtility ==
    /\ pc = "idle" /\ txns < MaxTxns
    /\ cur' = newWalTxn(header, ~header.good, {})
    /\ wal' = wal \cup {cur'}
    /\ pc' = "apply" /\ mode' = "utility"
    /\ txns' = txns + 1
    /\ UNCHANGED <<host, inflight, header, unapplied, files, crashes, torn>>

-----------------------------------------------------------------------------
(* Crashes *)

\* The operating system writes the roots back when it likes.
WriteBack ==
    /\ rdisk # roots
    /\ rdisk' = roots
    /\ UNCHANGED <<host, inflight, header, unapplied, hfile, hdisk, roots, wal,
                   pc, mode, cur, txns, crashes, torn>>

\* A process that ends leaves what it wrote.  With a loss of power a header that
\* was not synced may be lost, and roots that were not written back may be.  A
\* header is torn from its roots when its root was not set yet or is lost.
Crash ==
    /\ pc # "down" /\ crashes < MaxCrashes
    /\ crashes' = crashes + 1
    /\ pc' = "down"
    /\ hfile' \in {hfile, hdisk} /\ hdisk' = hfile'
    /\ roots' \in {roots, rdisk} /\ rdisk' = roots'
    /\ torn' = \/ torn
               \/ pc = "roots" /\ cur.sets # {} /\ hfile' = hfile
               \/ roots' # roots /\ roots' # hfile'.roots
    /\ UNCHANGED <<host, inflight, header, unapplied, wal, mode, cur, txns>>

\* NewContractSet: loadSafeContract reads the files and takes over the
\* transactions that are in the log.
Restart ==
    /\ pc = "down"
    /\ pc' = "idle"
    /\ header' = hfile
    /\ unapplied' = wal
    /\ UNCHANGED <<host, inflight, files, wal, mode, cur, txns, crashes, torn>>

-----------------------------------------------------------------------------
Next ==
    \/ \E i \in 1 .. MaxRevision, s \in Sectors : managedRecordRootUpdates(i, s)
    \/ managedRecordDownloadIntent
    \/ \E t \in inflight : HostSigns(t)
    \/ GiveUp \/ applySetHeader \/ applySetRoot \/ SyncHeader
    \/ SignalUpdatesApplied \/ clearUnappliedTxns
    \/ managedSyncRevision \/ UpdateUtility \/ WriteBack \/ Crash \/ Restart

Spec == Init /\ [][Next]_vars

-----------------------------------------------------------------------------
(* Properties *)

AllRoots == Seq(Sectors \cup {Zero})
Headers == [num : Nat, roots : AllRoots, good : BOOLEAN]
Txns == [id : Nat, num : Nat, roots : AllRoots, good : BOOLEAN,
         sets : SUBSET ((Nat \ {0}) \X Sectors)]

\* The types of the variables: revisions are numbers with lists of roots, and
\* the holder of the contract is at one of the steps above.
TypeOK ==
    /\ host \in [num : Nat, roots : AllRoots]
    /\ header \in Headers /\ hfile \in Headers /\ hdisk \in Headers
    /\ roots \in AllRoots /\ rdisk \in AllRoots
    /\ inflight \subseteq Txns /\ unapplied \subseteq Txns /\ wal \subseteq Txns
    /\ cur \in Txns
    /\ pc \in {"idle", "sent", "apply", "roots", "sync", "signal", "clear",
               "critical", "down"}
    /\ mode \in {"commit", "sync", "utility"}
    /\ txns \in Nat /\ crashes \in Nat /\ torn \in BOOLEAN

\* A session always finds the revision of the host in the header or in an
\* unapplied transaction, whatever answers were lost, whatever the host signed
\* late and wherever the renter crashed: managedSyncRevision meets neither a
\* lower number nor the mismatch that "should never happen".
NoCritical == pc # "critical"

\* Once the renter has the host's revision, its sector roots are those of that
\* revision, after lost answers, late signatures and crashes that lose a header
\* with or without its roots: the roots are set again when the header is taken
\* from the log.  A header that a crash has torn from its roots is not mended by
\* the log, which PreOrPost shows.
RootsMatch ==
    pc = "idle" /\ SameRevision(header, host) /\ ~torn => roots = header.roots

\* When the log is empty nothing is left to be restored, and header and roots
\* belong to one revision, the one before or the one after a crash.
PreOrPost == pc = "idle" /\ wal = {} => roots = header.roots

\* The revisions of host and renter advance as ContractAgreement says: the host
\* is never ahead by more than the one revision that the renter can catch up
\* with, and what is on the renter's disk never goes back.
Agreement == INSTANCE ContractAgreement
                WITH Roots <- AllRoots, agreed <- host, mine <- Rev(hdisk)

Implements == Agreement!Spec

=============================================================================
