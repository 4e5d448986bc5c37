------------------------- MODULE ContractLogProofs --------------------------
(***************************************************************************)
(* What ContractLog checks on small instances, for all sectors and all     *)
(* bounds: a session can always be synchronised, the revisions advance as  *)
(* ContractAgreement says and the roots follow the header.                 *)
(***************************************************************************)
EXTENDS ContractLog, TLAPS

Up == pc # "down"
Writing == {"roots", "sync"}
Finishing == {"signal", "clear"}
Committing == {"apply"} \cup Writing
Ahead == host.num = hdisk.num + 1

-----------------------------------------------------------------------------
(* The inductive invariant *)

\* The host has the renter's revision or one of the log that follows it.
HostClose ==
    \/ host = Rev(hdisk)
    \/ Ahead /\ \E t \in wal : Rev(t) = host /\ (Up => t \in unapplied)

\* A request that the host may still sign stays in the log.
InflightKept ==
    \A t \in inflight :
        /\ t.num <= hdisk.num + 1
        /\ t.num > host.num => t \in wal /\ (Up => t \in unapplied)

\* The header in memory and in its file.
HeaderWritten ==
    /\ pc \in {"idle", "sent", "apply", "signal", "clear"} =>
            Rev(header) = Rev(hdisk) /\ Rev(hfile) = Rev(hdisk)
    /\ pc \in Writing => Rev(header) = Rev(cur) /\ Rev(hfile) = Rev(cur)
    /\ pc = "down" => hfile = hdisk

\* The transaction that is being sent, or applied.
CurrentTxn ==
    /\ pc = "sent" => /\ mode = "commit" /\ cur \in wal /\ cur \in unapplied
                      /\ cur.num = hdisk.num + 1
    /\ pc \in Committing /\ mode # "utility" => Rev(cur) = host /\ Ahead
    /\ pc \in Finishing /\ mode # "utility" => host = Rev(hdisk)
    /\ pc \in Committing \cup Finishing /\ mode # "utility" =>
            \A t \in inflight : t.num <= host.num

UtilityTxn ==
    /\ pc \in Committing /\ mode = "utility" => Rev(cur) = Rev(hdisk)
    /\ pc \in Committing \cup {"signal"} /\ mode = "utility" =>
            cur \notin unapplied
    /\ pc = "clear" => mode # "utility"

IdsUsed == \A t \in wal \cup unapplied : t.id <= txns

LogInv ==
    /\ NoCritical /\ HostClose /\ InflightKept /\ HeaderWritten
    /\ CurrentTxn /\ UtilityTxn /\ IdsUsed

-----------------------------------------------------------------------------
(* Types *)

\* insert returns a sequence, whatever the index.
LEMMA InsertType ==
    ASSUME NEW r \in AllRoots, NEW i \in Nat \ {0}, NEW s \in Sectors
    PROVE  insert(r, i, s) \in AllRoots
<1>1. Len(r) \in Nat /\ \A k \in 1 .. Len(r) : r[k] \in Sectors \cup {Zero}
  BY DEF AllRoots
<1> DEFINE n == IF i > Len(r) THEN i ELSE Len(r)
<1>2. n \in Nat
  BY <1>1
<1>3. insert(r, i, s) \in [1 .. n -> Sectors \cup {Zero}]
  BY <1>1 DEF insert
<1> QED
  BY <1>2, <1>3 DEF AllRoots

\* A header or a transaction has a revision.
LEMMA RevType ==
    /\ \A x \in Headers : Rev(x) \in [num : Nat, roots : AllRoots]
    /\ \A x \in Txns : Rev(x) \in [num : Nat, roots : AllRoots]
BY DEF Rev, Headers, Txns

LEMMA RecordType ==
    ASSUME TypeOK, NEW r \in [num : Nat, roots : AllRoots],
           NEW sets \in SUBSET ((Nat \ {0}) \X Sectors), Record(r, sets)
    PROVE  TypeOK'
<1>1. cur' \in Txns
  BY DEF Record, newWalTxn, TypeOK, Txns, Headers
<1> QED
  BY <1>1 DEF Record, TypeOK, files

LEMMA InitType == Init => TypeOK
<1> SUFFICES ASSUME Init PROVE TypeOK
  OBVIOUS
<1>1. <<>> \in AllRoots
  BY DEF AllRoots
<1>2. Start \in Headers /\ NoTxn \in Txns
  BY <1>1 DEF Start, NoTxn, Headers, Txns
<1> QED
  BY <1>1, <1>2, RevType DEF Init, TypeOK

LEMMA NextType == TypeOK /\ [Next]_vars => TypeOK'
<1> SUFFICES ASSUME TypeOK, [Next]_vars PROVE TypeOK'
  OBVIOUS
<1>1. ASSUME NEW i \in 1 .. MaxRevision, NEW s \in Sectors,
             managedRecordRootUpdates(i, s)
      PROVE  TypeOK'
  <2>1. i \in Nat \ {0} /\ header.num + 1 \in Nat /\ header.roots \in AllRoots
    BY BoundAssumption DEF TypeOK, Headers
  <2>2. insert(header.roots, i, s) \in AllRoots
    BY <2>1, InsertType
  <2> QED
    BY <1>1, <2>1, <2>2, RecordType DEF managedRecordRootUpdates
<1>2. ASSUME managedRecordDownloadIntent PROVE TypeOK'
  <2>1. header.num + 1 \in Nat /\ header.roots \in AllRoots
    BY DEF TypeOK, Headers
  <2> QED
    BY <1>2, <2>1, RecordType DEF managedRecordDownloadIntent
<1>3. ASSUME NEW t \in inflight, HostSigns(t) PROVE TypeOK'
  BY <1>3, RevType DEF HostSigns, TypeOK, files
<1>4. ASSUME GiveUp PROVE TypeOK'
  BY <1>4 DEF GiveUp, TypeOK, files
<1>5. ASSUME applySetHeader PROVE TypeOK'
  BY <1>5 DEF applySetHeader, TypeOK, Headers, Txns
<1>6. ASSUME applySetRoot PROVE TypeOK'
  <2>1. roots' \in AllRoots
    <3>1. CASE UNCHANGED roots
      BY <3>1 DEF TypeOK
    <3>2. CASE \E u \in cur.sets : roots' = insert(roots, u[1], u[2])
      <4>1. PICK u \in cur.sets : roots' = insert(roots, u[1], u[2])
        BY <3>2
      <4>2. u[1] \in Nat \ {0} /\ u[2] \in Sectors
        BY DEF TypeOK, Txns
      <4> QED
        BY <4>1, <4>2, InsertType DEF TypeOK
    <3> QED
      BY <1>6, <3>1, <3>2 DEF applySetRoot
  <2> QED
    BY <1>6, <2>1 DEF applySetRoot, TypeOK
<1>7. ASSUME SyncHeader PROVE TypeOK'
  BY <1>7 DEF SyncHeader, TypeOK
<1>8. ASSUME SignalUpdatesApplied PROVE TypeOK'
  BY <1>8 DEF SignalUpdatesApplied, TypeOK, files
<1>9. ASSUME clearUnappliedTxns PROVE TypeOK'
  BY <1>9 DEF clearUnappliedTxns, TypeOK, files
<1>10. ASSUME managedSyncRevision PROVE TypeOK'
  <2>1. cur' \in Txns
    BY <1>10 DEF managedSyncRevision, Matching, TypeOK
  <2>2. pc' \in {"idle", "apply", "critical"} /\ mode' = "sync"
    BY <1>10 DEF managedSyncRevision
  <2> QED
    BY <1>10, <2>1, <2>2 DEF managedSyncRevision, TypeOK, files
<1>11. ASSUME UpdateUtility PROVE TypeOK'
  <2>1. cur' \in Txns
    BY <1>11 DEF UpdateUtility, newWalTxn, TypeOK, Txns, Headers
  <2> QED
    BY <1>11, <2>1 DEF UpdateUtility, TypeOK, files
<1>12. ASSUME Crash PROVE TypeOK'
  <2>1. torn' \in BOOLEAN
    BY <1>12 DEF Crash
  <2>2. hfile' \in Headers /\ hdisk' \in Headers
    BY <1>12 DEF Crash, TypeOK
  <2>3. roots' \in AllRoots /\ rdisk' \in AllRoots
    BY <1>12 DEF Crash, TypeOK
  <2> QED
    BY <1>12, <2>1, <2>2, <2>3 DEF Crash, TypeOK
<1>13. ASSUME Restart PROVE TypeOK'
  BY <1>13 DEF Restart, TypeOK, files
<1>14. ASSUME WriteBack \/ UNCHANGED vars PROVE TypeOK'
  BY <1>14 DEF WriteBack, vars, files, TypeOK
<1> QED
  BY <1>1, <1>2, <1>3, <1>4, <1>5, <1>6, <1>7, <1>8, <1>9, <1>10, <1>11, <1>12,
     <1>13, <1>14 DEF Next

\* The variables keep their types: revisions are numbers with sequences of
\* roots, the log and what the host may still sign are sets of transactions.
THEOREM TypeCorrect == Spec => []TypeOK
<1>1. Init => TypeOK
  BY InitType
<1>2. TypeOK /\ [Next]_vars => TypeOK'
  BY NextType
<1> QED
  BY <1>1, <1>2, PTL DEF Spec

-----------------------------------------------------------------------------
(* The log *)

\* Two revisions are the same when their numbers and their roots are.
LEMMA RevFields ==
    ASSUME NEW x, NEW y
    PROVE  /\ Rev(x).num = x.num /\ Rev(x).roots = x.roots
           /\ Rev(x) = Rev(y) <=> x.num = y.num /\ x.roots = y.roots
BY DEF Rev

\* The host's number is the renter's or the next one.
LEMMA HostNum ==
    ASSUME TypeOK, HostClose
    PROVE  /\ hdisk.num \in Nat /\ host.num \in Nat
           /\ host.num \in {hdisk.num, hdisk.num + 1}
           /\ host.num = hdisk.num => host = Rev(hdisk)
BY DEF TypeOK, Headers, HostClose, Ahead, Rev

LEMMA InitLog == Init => LogInv
BY DEF Init, LogInv, NoCritical, HostClose, InflightKept, HeaderWritten,
       CurrentTxn, UtilityTxn, IdsUsed, Start, Rev, Writing, Committing,
       Finishing

\* A recorded change comes on top of what is in the log.
LEMMA RecordLog ==
    ASSUME TypeOK, LogInv, NEW r, NEW sets, r.num = header.num + 1,
           Record(r, sets)
    PROVE  LogInv'
<1>1. /\ pc = "idle" /\ pc' = "sent" /\ mode' = "commit"
      /\ UNCHANGED <<host, header, hfile, hdisk>>
      /\ wal' = wal \cup {cur'} /\ unapplied' = unapplied \cup {cur'}
      /\ inflight' = inflight \cup {cur'} /\ txns' = txns + 1
  BY DEF Record, files
<1>2. cur'.num = header.num + 1 /\ cur'.id = txns + 1
  BY DEF Record, newWalTxn
<1>3. header.num = hdisk.num /\ hdisk.num \in Nat /\ txns \in Nat
  BY <1>1, RevFields DEF LogInv, HeaderWritten, TypeOK, Headers
<1>4. NoCritical'
  BY <1>1 DEF NoCritical
<1>5. HostClose'
  BY <1>1 DEF LogInv, HostClose, Ahead, Up, Rev
<1>6. InflightKept'
  <2> SUFFICES ASSUME NEW t \in inflight'
               PROVE  /\ t.num <= hdisk.num + 1
                      /\ t.num > host.num => t \in wal' /\ t \in unapplied'
    BY <1>1 DEF InflightKept
  <2>1. CASE t = cur'
    BY <2>1, <1>1, <1>2, <1>3
  <2>2. CASE t \in inflight
    BY <2>2, <1>1 DEF LogInv, InflightKept, Up
  <2> QED
    BY <1>1, <2>1, <2>2
<1>7. HeaderWritten'
  BY <1>1 DEF LogInv, HeaderWritten, Rev, Writing
<1>8. CurrentTxn' /\ UtilityTxn'
  BY <1>1, <1>2, <1>3 DEF CurrentTxn, UtilityTxn, Committing, Writing, Finishing
<1>9. IdsUsed'
  <2>1. \A t \in wal \cup unapplied : t.id \in Nat
    BY DEF TypeOK, Txns
  <2> QED
    BY <2>1, <1>1, <1>2, <1>3 DEF LogInv, IdsUsed
<1> QED
  BY <1>4, <1>5, <1>6, <1>7, <1>8, <1>9 DEF LogInv

\* What the host signs is the revision after the renter's, and it is in the log.
LEMMA SignedIsNext ==
    ASSUME TypeOK, LogInv, NEW t \in inflight, t.num > host.num
    PROVE  /\ host = Rev(hdisk) /\ t.num = hdisk.num + 1
           /\ t \in wal /\ (Up => t \in unapplied)
<1>1. t.num \in Nat
  BY DEF TypeOK, Txns
<1>2. t.num <= hdisk.num + 1 /\ t \in wal /\ (Up => t \in unapplied)
  BY DEF LogInv, InflightKept
<1> QED
  BY <1>1, <1>2, HostNum DEF LogInv

LEMMA HostSignsLog ==
    ASSUME TypeOK, LogInv, NEW t \in inflight, HostSigns(t)
    PROVE  LogInv'
<1>1. /\ t.num > host.num /\ host' = Rev(t) /\ inflight' = inflight \ {t}
      /\ UNCHANGED <<header, unapplied, hfile, hdisk, wal, mode, cur, txns>>
      /\ pc' = pc \/ (pc = "sent" /\ t = cur /\ pc' = "apply")
  BY DEF HostSigns, files
<1>2. /\ host = Rev(hdisk) /\ t.num = hdisk.num + 1
      /\ t \in wal /\ (Up => t \in unapplied)
  BY <1>1, SignedIsNext
<1>3. host'.num = hdisk.num + 1 /\ hdisk.num \in Nat /\ host.num = hdisk.num
  BY <1>1, <1>2, RevFields DEF TypeOK, Headers
<1>4. \A u \in inflight : u.num \in Nat /\ u.num <= host'.num
  BY <1>3 DEF LogInv, InflightKept, TypeOK, Txns
<1>5. pc \in Committing \cup Finishing => mode = "utility"
  BY <1>1, <1>3, <1>4 DEF LogInv, CurrentTxn
<1>6. NoCritical'
  BY <1>1 DEF LogInv, NoCritical
<1>7. HostClose'
  BY <1>1, <1>2, <1>3 DEF HostClose, Ahead, Up, Rev
<1>8. InflightKept'
  BY <1>1, <1>3, <1>4 DEF InflightKept
<1>9. HeaderWritten'
  BY <1>1 DEF LogInv, HeaderWritten, Rev, Writing
<1>10. CurrentTxn'
  <2>1. CASE pc' = pc
    BY <2>1, <1>1, <1>5 DEF LogInv, CurrentTxn, Committing, Writing, Finishing
  <2>2. CASE pc = "sent" /\ t = cur /\ pc' = "apply"
    BY <2>2, <1>1, <1>3, <1>4
       DEF LogInv, CurrentTxn, Committing, Writing, Finishing, Ahead
  <2> QED
    BY <1>1, <2>1, <2>2
<1>11. UtilityTxn'
  <2>1. CASE pc' = pc
    BY <2>1, <1>1 DEF LogInv, UtilityTxn, Committing, Writing, Rev
  <2>2. CASE pc = "sent" /\ pc' = "apply"
    BY <2>2, <1>1 DEF LogInv, CurrentTxn, UtilityTxn
  <2> QED
    BY <1>1, <2>1, <2>2
<1>12. IdsUsed'
  BY <1>1 DEF LogInv, IdsUsed
<1> QED
  BY <1>6, <1>7, <1>8, <1>9, <1>10, <1>11, <1>12 DEF LogInv

\* The first steps of a commit leave host, log and synced header alone.
LEMMA WriteLog ==
    ASSUME TypeOK, LogInv, applySetHeader \/ applySetRoot
    PROVE  LogInv'
<1>1. /\ UNCHANGED <<host, inflight, unapplied, hdisk, wal, mode, cur, txns>>
      /\ pc \in Committing /\ pc' \in Writing
      /\ \/ Rev(header') = Rev(cur) /\ Rev(hfile') = Rev(cur)
         \/ pc \in Writing /\ UNCHANGED <<header, hfile>>
  BY DEF applySetHeader, applySetRoot, Committing, Writing, Rev
<1>2. NoCritical' /\ HostClose' /\ InflightKept' /\ IdsUsed'
  BY <1>1 DEF LogInv, NoCritical, HostClose, InflightKept, IdsUsed, Ahead, Up,
              Rev, Writing, Committing
<1>3. HeaderWritten'
  BY <1>1 DEF LogInv, HeaderWritten, Writing, Rev
<1>4. CurrentTxn' /\ UtilityTxn'
  BY <1>1 DEF LogInv, CurrentTxn, UtilityTxn, Committing, Writing, Finishing,
              Ahead, Rev
<1> QED
  BY <1>2, <1>3, <1>4 DEF LogInv

LEMMA SyncHeaderLog == ASSUME TypeOK, LogInv, SyncHeader PROVE LogInv'
<1>1. /\ UNCHANGED <<host, inflight, unapplied, header, hfile, wal, mode, cur,
                     txns>>
      /\ pc = "sync" /\ hdisk' = hfile /\ pc' \in Finishing
      /\ pc' = "clear" => mode = "sync"
  BY DEF SyncHeader, Finishing
<1>2. Rev(header) = Rev(cur) /\ Rev(hdisk') = Rev(cur)
  BY <1>1 DEF LogInv, HeaderWritten, Writing, Rev
<1>3. mode # "utility" => /\ host = Rev(hdisk') /\ hdisk'.num = hdisk.num + 1
                          /\ \A t \in inflight : t.num <= host.num
  BY <1>1, <1>2, RevFields DEF LogInv, CurrentTxn, Committing, Writing, Ahead
<1>4. mode = "utility" => /\ Rev(hdisk') = Rev(hdisk) /\ hdisk'.num = hdisk.num
                          /\ cur \notin unapplied
  BY <1>1, <1>2, RevFields DEF LogInv, UtilityTxn, Committing, Writing
<1>5. NoCritical' /\ IdsUsed'
  BY <1>1 DEF LogInv, NoCritical, IdsUsed, Finishing
<1>6. HostClose'
  BY <1>1, <1>3, <1>4 DEF LogInv, HostClose, Ahead, Up, Rev, Finishing
<1>7. InflightKept'
  <2>1. \A t \in inflight : t.num \in Nat
    BY DEF TypeOK, Txns
  <2>2. hdisk.num \in Nat /\ hdisk'.num >= hdisk.num /\ hdisk'.num \in Nat
    BY <1>1, <1>3, <1>4 DEF TypeOK, Headers
  <2> QED
    BY <1>1, <2>1, <2>2 DEF LogInv, InflightKept, Up, Finishing
<1>8. HeaderWritten'
  BY <1>1, <1>2 DEF LogInv, HeaderWritten, Writing, Finishing, Rev
<1>9. CurrentTxn'
  BY <1>1, <1>3 DEF CurrentTxn, Committing, Writing, Finishing, Rev
<1>10. UtilityTxn'
  BY <1>1, <1>4 DEF UtilityTxn, Committing, Writing, Finishing
<1> QED
  BY <1>5, <1>6, <1>7, <1>8, <1>9, <1>10 DEF LogInv

\* A transaction leaves the log when the host has nothing newer to sign, or it
\* is one that was never sent.
LEMMA DropLog ==
    ASSUME TypeOK, LogInv, SignalUpdatesApplied \/ clearUnappliedTxns
    PROVE  LogInv'
<1>1. /\ UNCHANGED <<host, inflight, header, hfile, hdisk, mode, cur, txns>>
      /\ pc \in Finishing /\ pc' \in Finishing \cup {"idle"}
      /\ unapplied' \subseteq unapplied /\ wal' \subseteq wal
      /\ pc' = "clear" => mode # "utility"
      /\ pc' = "signal" => FALSE
      /\ \/ mode # "utility"
         \/ mode = "utility" /\ wal' = wal \ {cur} /\ unapplied' = unapplied
            /\ pc = "signal"
  BY DEF SignalUpdatesApplied, clearUnappliedTxns, Finishing, LogInv, UtilityTxn,
         files
<1>2. mode # "utility" => /\ host = Rev(hdisk)
                          /\ \A t \in inflight : t.num <= host.num
  BY <1>1 DEF LogInv, CurrentTxn
<1>3. mode = "utility" => cur \notin unapplied
  BY <1>1 DEF LogInv, UtilityTxn
<1>4. NoCritical' /\ IdsUsed'
  BY <1>1 DEF NoCritical, IdsUsed, Finishing, LogInv
<1>5. HostClose'
  BY <1>1, <1>2, <1>3 DEF LogInv, HostClose, Ahead, Up, Rev, Finishing
<1>6. InflightKept'
  <2>1. host.num \in Nat /\ \A t \in inflight : t.num \in Nat
    BY DEF TypeOK, Txns
  <2> QED
    BY <1>1, <1>2, <1>3, <2>1 DEF LogInv, InflightKept, Up, Finishing
<1>7. HeaderWritten'
  BY <1>1 DEF LogInv, HeaderWritten, Writing, Finishing, Rev
<1>8. CurrentTxn' /\ UtilityTxn'
  BY <1>1, <1>2 DEF CurrentTxn, UtilityTxn, Committing, Writing, Finishing, Rev
<1> QED
  BY <1>4, <1>5, <1>6, <1>7, <1>8 DEF LogInv

\* A session finds the host's revision, because HostClose says where it is.
LEMMA SyncRevisionLog == ASSUME TypeOK, LogInv, managedSyncRevision PROVE LogInv'
<1>1. /\ UNCHANGED <<host, inflight, header, hfile, hdisk, unapplied, wal, txns>>
      /\ pc = "idle" /\ mode' = "sync"
  BY DEF managedSyncRevision, files
<1>2. /\ header.num = hdisk.num /\ header.roots = hdisk.roots
      /\ Rev(hfile) = Rev(hdisk) /\ Rev(header) = Rev(hdisk)
  BY <1>1, RevFields DEF LogInv, HeaderWritten
<1>3. CASE SameRevision(header, host)
  <2>1. pc' = "idle" /\ cur' = cur
    BY <1>3 DEF managedSyncRevision
  <2> QED
    BY <2>1, <1>1, <1>2
       DEF LogInv, NoCritical, HostClose, InflightKept, HeaderWritten, CurrentTxn,
           UtilityTxn, IdsUsed, Committing, Writing, Finishing, Up, Ahead, Rev
<1>4. CASE ~SameRevision(header, host)
  <2>1. host # Rev(hdisk)
    BY <1>2, <1>4, RevFields DEF SameRevision
  <2>2. Ahead /\ \E t \in unapplied : Rev(t) = host
    BY <2>1, <1>1 DEF LogInv, HostClose, Up
  <2>3. host.num >= header.num /\ Matching # {}
    BY <2>2, <1>2, RevFields
       DEF Matching, SameRevision, Ahead, TypeOK, Headers
  <2>4. pc' = "apply" /\ cur' \in Matching
    BY <2>3, <1>4 DEF managedSyncRevision
  <2>5. Rev(cur') = host
    BY <2>4 DEF Matching, SameRevision, Rev, TypeOK
  <2>6. \A t \in inflight : t.num <= host.num
    BY <2>2 DEF Ahead, LogInv, InflightKept
  <2>7. NoCritical' /\ HostClose' /\ InflightKept' /\ IdsUsed'
    BY <2>4, <1>1 DEF LogInv, NoCritical, HostClose, InflightKept, IdsUsed, Up,
                      Ahead, Rev
  <2>8. HeaderWritten'
    BY <2>4, <1>1, <1>2 DEF HeaderWritten, Writing, Rev
  <2>9. CurrentTxn' /\ UtilityTxn'
    BY <2>2, <2>4, <2>5, <2>6, <1>1
       DEF CurrentTxn, UtilityTxn, Committing, Writing, Finishing, Ahead
  <2> QED
    BY <2>7, <2>8, <2>9 DEF LogInv
<1> QED
  BY <1>3, <1>4

LEMMA UpdateUtilityLog == ASSUME TypeOK, LogInv, UpdateUtility PROVE LogInv'
<1>1. /\ UNCHANGED <<host, inflight, header, hfile, hdisk, unapplied>>
      /\ pc = "idle" /\ pc' = "apply" /\ mode' = "utility"
      /\ wal' = wal \cup {cur'} /\ txns' = txns + 1
      /\ Rev(cur') = Rev(header) /\ cur'.id = txns + 1
  BY DEF UpdateUtility, newWalTxn, files, Rev
<1>2. cur' \notin unapplied
  BY <1>1 DEF LogInv, IdsUsed, TypeOK
<1>3. NoCritical' /\ HostClose' /\ InflightKept'
  BY <1>1 DEF LogInv, NoCritical, HostClose, InflightKept, Up, Ahead, Rev
<1>4. HeaderWritten' /\ CurrentTxn' /\ UtilityTxn'
  BY <1>1, <1>2 DEF LogInv, HeaderWritten, CurrentTxn, UtilityTxn, Committing,
                    Writing, Finishing, Rev
<1>5. IdsUsed'
  <2>1. txns \in Nat /\ \A t \in wal \cup unapplied : t.id \in Nat
    BY DEF TypeOK, Txns
  <2> QED
    BY <1>1, <2>1 DEF LogInv, IdsUsed
<1> QED
  BY <1>3, <1>4, <1>5 DEF LogInv

\* Whether the header is kept or lost, the renter is at its revision or has the
\* host's.
LEMMA CrashKeeps ==
    ASSUME TypeOK, LogInv, Crash
    PROVE  \/ Rev(hdisk') = Rev(hdisk)
           \/ Ahead /\ Rev(hdisk') = host
<1>1. hdisk' \in {hfile, hdisk} /\ pc # "down" /\ pc # "critical"
  BY DEF Crash, LogInv, NoCritical
<1>2. CASE hdisk' = hdisk
  BY <1>2 DEF Rev
<1>3. CASE hdisk' = hfile /\ pc \notin Writing
  BY <1>1, <1>3 DEF LogInv, HeaderWritten, TypeOK, Writing, Rev
<1>4. CASE hdisk' = hfile /\ pc \in Writing
  BY <1>4 DEF LogInv, HeaderWritten, CurrentTxn, UtilityTxn, Committing, Rev
<1> QED
  BY <1>1, <1>2, <1>3, <1>4

LEMMA CrashLog == ASSUME TypeOK, LogInv, Crash PROVE LogInv'
<1>1. /\ UNCHANGED <<host, inflight, header, unapplied, wal, mode, cur, txns>>
      /\ pc # "down" /\ pc' = "down" /\ hdisk' = hfile'
  BY DEF Crash
<1>2. NoCritical' /\ IdsUsed' /\ CurrentTxn' /\ UtilityTxn'
  BY <1>1 DEF LogInv, NoCritical, IdsUsed, CurrentTxn, UtilityTxn, Committing,
              Writing, Finishing
<1>3. HeaderWritten'
  BY <1>1 DEF HeaderWritten, Writing
<1>4. HostClose'
  <2>1. CASE Rev(hdisk') = Rev(hdisk)
    <3>1. hdisk'.num = hdisk.num
      BY <2>1, RevFields
    <3> QED
      BY <2>1, <3>1, <1>1 DEF LogInv, HostClose, Ahead, Up, Rev
  <2>2. CASE Rev(hdisk') = host
    BY <2>2, <1>1 DEF HostClose, Rev
  <2> QED
    BY <2>1, <2>2, CrashKeeps
<1>5. InflightKept'
  <2>1. hdisk.num \in Nat /\ hdisk'.num \in {hdisk.num, hdisk.num + 1}
    BY CrashKeeps, RevFields DEF TypeOK, Headers, Ahead
  <2>2. \A t \in inflight : t.num \in Nat
    BY DEF TypeOK, Txns
  <2> QED
    BY <1>1, <2>1, <2>2 DEF LogInv, InflightKept, Up
<1> QED
  BY <1>2, <1>3, <1>4, <1>5 DEF LogInv

LEMMA RestartLog == ASSUME TypeOK, LogInv, Restart PROVE LogInv'
BY DEF Restart, files, LogInv, NoCritical, HostClose, InflightKept,
       HeaderWritten, CurrentTxn, UtilityTxn, IdsUsed, Committing, Writing,
       Finishing, Up, Ahead, Rev

LEMMA StutterLog == ASSUME LogInv, WriteBack \/ UNCHANGED vars PROVE LogInv'
BY DEF WriteBack, vars, files, LogInv, NoCritical, HostClose, InflightKept,
       HeaderWritten, CurrentTxn, UtilityTxn, IdsUsed, Committing, Writing,
       Finishing, Up, Ahead, Rev

LEMMA NextLog == TypeOK /\ LogInv /\ [Next]_vars => LogInv'
<1> SUFFICES ASSUME TypeOK, LogInv, [Next]_vars PROVE LogInv'
  OBVIOUS
<1>1. ASSUME NEW i \in 1 .. MaxRevision, NEW s \in Sectors,
             managedRecordRootUpdates(i, s)
      PROVE  LogInv'
  BY <1>1, RecordLog DEF managedRecordRootUpdates
<1>2. ASSUME managedRecordDownloadIntent PROVE LogInv'
  BY <1>2, RecordLog DEF managedRecordDownloadIntent
<1>3. ASSUME NEW t \in inflight, HostSigns(t) PROVE LogInv'
  BY <1>3, HostSignsLog
<1>4. ASSUME GiveUp PROVE LogInv'
  BY <1>4 DEF GiveUp, files, LogInv, NoCritical, HostClose, InflightKept,
              HeaderWritten, CurrentTxn, UtilityTxn, IdsUsed, Committing,
              Writing, Finishing, Up, Ahead, Rev
<1>5. ASSUME applySetHeader \/ applySetRoot PROVE LogInv'
  BY <1>5, WriteLog
<1>6. ASSUME SignalUpdatesApplied \/ clearUnappliedTxns PROVE LogInv'
  BY <1>6, DropLog
<1> QED
  BY <1>1, <1>2, <1>3, <1>4, <1>5, <1>6, SyncHeaderLog, SyncRevisionLog,
     UpdateUtilityLog, CrashLog, RestartLog, StutterLog DEF Next

LEMMA LogInvariant == Spec => [](TypeOK /\ LogInv)
<1>1. Init => TypeOK /\ LogInv
  BY InitType, InitLog
<1>2. TypeOK /\ LogInv /\ [Next]_vars => (TypeOK /\ LogInv)'
  BY NextType, NextLog
<1> QED
  BY <1>1, <1>2, PTL DEF Spec

\* managedSyncRevision can always be synchronised with the host: neither branch
\* that gives the contract up is ever reached, for all sectors and all numbers
\* of revisions, transactions and crashes.
THEOREM AlwaysSynced == Spec => []NoCritical
<1>1. LogInv => NoCritical
  BY DEF LogInv
<1> QED
  BY <1>1, LogInvariant, PTL

-----------------------------------------------------------------------------
(* The agreement *)

LEMMA InitAgreement == Init => Agreement!Init
<1> SUFFICES ASSUME Init PROVE Agreement!Init
  OBVIOUS
<1>1. <<>> \in AllRoots
  BY DEF AllRoots
<1> QED
  BY <1>1 DEF Init, Start, Rev, Agreement!Init, Agreement!Revisions

\* Only a signature of the host, a synced header and a crash change what both
\* have.
LEMMA NextAgreement ==
    ASSUME TypeOK, LogInv, [Next]_vars
    PROVE  [Agreement!Next]_(Agreement!vars)
<1>1. ASSUME NEW t \in inflight, HostSigns(t) PROVE Agreement!Revise
  <2>1. /\ t.num > host.num /\ host' = Rev(t) /\ hdisk' = hdisk
        /\ t \in Txns
    BY <1>1 DEF HostSigns, files, TypeOK
  <2>2. host = Rev(hdisk) /\ t.num = hdisk.num + 1
    BY <2>1, SignedIsNext
  <2>3. host' \in Agreement!Revisions
    BY <2>1, RevType DEF Agreement!Revisions
  <2>4. host'.num = host.num + 1
    BY <2>1, <2>2, RevFields
  <2> QED
    BY <2>1, <2>2, <2>3, <2>4 DEF Agreement!Revise, Rev
<1>2. ASSUME Ahead, Rev(hdisk') = host, host' = host PROVE Agreement!CatchUp
  <2>1. host # Rev(hdisk)
    BY <1>2, RevFields DEF Ahead, TypeOK, Headers
  <2> QED
    BY <1>2, <2>1 DEF Agreement!CatchUp, Rev
<1>3. ASSUME Rev(hdisk') = Rev(hdisk), host' = host
      PROVE  UNCHANGED Agreement!vars
  BY <1>3 DEF Agreement!vars, Rev
<1>4. ASSUME SyncHeader PROVE [Agreement!Next]_(Agreement!vars)
  <2>1. host' = host /\ hdisk' = hfile /\ pc = "sync"
    BY <1>4 DEF SyncHeader
  <2>2. Rev(hdisk') = Rev(cur)
    BY <2>1 DEF LogInv, HeaderWritten, Writing, Rev
  <2>3. CASE mode = "utility"
    BY <2>1, <2>2, <2>3, <1>3 DEF LogInv, UtilityTxn, Committing, Writing
  <2>4. CASE mode # "utility"
    BY <2>1, <2>2, <2>4, <1>2
       DEF LogInv, CurrentTxn, Committing, Writing, Agreement!Next
  <2> QED
    BY <2>3, <2>4
<1>5. ASSUME Crash PROVE [Agreement!Next]_(Agreement!vars)
  BY <1>2, <1>3, <1>5, CrashKeeps DEF Crash, Agreement!Next
<1>6. ASSUME hdisk' = hdisk, host' = host PROVE UNCHANGED Agreement!vars
  BY <1>3, <1>6 DEF Rev
<1>7. ASSUME UNCHANGED vars PROVE UNCHANGED Agreement!vars
  BY <1>6, <1>7 DEF vars, files
<1>8. ASSUME \/ \E i \in 1 .. MaxRevision, s \in Sectors :
                    managedRecordRootUpdates(i, s)
             \/ managedRecordDownloadIntent
             \/ GiveUp \/ applySetHeader \/ applySetRoot
             \/ SignalUpdatesApplied \/ clearUnappliedTxns
             \/ managedSyncRevision \/ UpdateUtility \/ WriteBack \/ Restart
      PROVE  UNCHANGED Agreement!vars
  BY <1>6, <1>8 DEF managedRecordRootUpdates, managedRecordDownloadIntent, Record,
       GiveUp, applySetHeader, applySetRoot, SignalUpdatesApplied,
       clearUnappliedTxns, managedSyncRevision, UpdateUtility, WriteBack, Restart,
       files
<1> QED
  BY <1>1, <1>4, <1>5, <1>7, <1>8 DEF Next, Agreement!Next

\* ContractLog implements ContractAgreement: lost answers, late signatures and
\* crashes never let the host get ahead by two revisions, and what the renter
\* has on disk only moves to what the host has signed.
THEOREM Implementation == Spec => Implements
<1>1. Init => Agreement!Init
  BY InitAgreement
<1>2. TypeOK /\ LogInv /\ [Next]_vars => [Agreement!Next]_(Agreement!vars)
  BY NextAgreement
<1> QED
  BY <1>1, <1>2, LogInvariant, PTL DEF Spec, Implements, Agreement!Spec

-----------------------------------------------------------------------------
(* The sector roots *)

\* The roots of t are r with what t sets.
Applies(t, r) ==
    \/ t.sets = {} /\ t.roots = r
    \/ \E i \in Nat \ {0}, s \in Sectors :
            t.sets = {<<i, s>>} /\ t.roots = insert(r, i, s)

\* A transaction that the renter can catch up with was made from its roots.
TxnRoots ==
    \A t \in wal \cup unapplied :
        /\ t.num <= hdisk.num + 1
        /\ t.num = hdisk.num + 1 => Applies(t, hdisk.roots)

CurRoots ==
    pc \in Committing => IF mode = "utility" THEN cur.sets = {}
                         ELSE Applies(cur, hdisk.roots)

\* The roots are those of the synced header or, when a crash has lost a header,
\* already the host's.
RootsFollow ==
    ~torn => /\ roots \in {hdisk.roots, host.roots}
             /\ pc = "sync" /\ mode # "utility" => roots = host.roots

RootsInv == TxnRoots /\ CurRoots /\ RootsFollow

\* To set a root again changes nothing.
LEMMA InsertAgain ==
    ASSUME NEW r \in AllRoots, NEW i \in Nat \ {0}, NEW s \in Sectors
    PROVE  insert(insert(r, i, s), i, s) = insert(r, i, s)
<1> DEFINE n == IF i > Len(r) THEN i ELSE Len(r)
           q == insert(r, i, s)
<1>1. Len(r) \in Nat /\ n \in Nat /\ i <= n
  BY DEF AllRoots
<1>2. q = [k \in 1 .. n |-> IF k = i THEN s
                            ELSE IF k <= Len(r) THEN r[k] ELSE Zero]
  BY DEF insert
<1>3. q \in AllRoots /\ DOMAIN q = 1 .. n
  BY <1>2, InsertType
<1>4. Len(q) = n
  BY <1>1, <1>3 DEF AllRoots
<1> HIDE DEF n, q
<1>5. insert(q, i, s) = [k \in 1 .. n |-> IF k = i THEN s
                            ELSE IF k <= n THEN q[k] ELSE Zero]
  BY <1>1, <1>4 DEF insert
<1>6. \A k \in 1 .. n : insert(q, i, s)[k] = q[k]
  BY <1>1, <1>2, <1>5
<1>7. insert(q, i, s) = q
  BY <1>2, <1>5, <1>6
<1> QED
  BY <1>7 DEF q

\* Applying a transaction, to the old roots or once more to its own.
LEMMA ApplyRoots ==
    ASSUME TypeOK, applySetRoot, Applies(cur, hdisk.roots),
           roots \in {hdisk.roots, cur.roots}
    PROVE  roots' = cur.roots
<1>1. CASE cur.sets = {} /\ cur.roots = hdisk.roots
  BY <1>1 DEF applySetRoot
<1>2. ASSUME NEW i \in Nat \ {0}, NEW s \in Sectors, cur.sets = {<<i, s>>},
             cur.roots = insert(hdisk.roots, i, s)
      PROVE  roots' = cur.roots
  <2>1. roots' = insert(roots, i, s)
    <3>1. PICK u \in cur.sets : roots' = insert(roots, u[1], u[2])
      BY <1>2 DEF applySetRoot
    <3>2. u = <<i, s>>
      BY <1>2
    <3>3. u[1] = i /\ u[2] = s
      BY <3>2
    <3> QED
      BY <3>1, <3>3
  <2>2. insert(cur.roots, i, s) = cur.roots
    BY <1>2, InsertAgain DEF TypeOK, Headers
  <2> QED
    BY <1>2, <2>1, <2>2
<1> QED
  BY <1>1, <1>2 DEF Applies

LEMMA InitRoots == Init => RootsInv
BY DEF Init, RootsInv, TxnRoots, CurRoots, RootsFollow, Start, Committing,
       Writing

LEMMA RecordRoots ==
    ASSUME TypeOK, LogInv, RootsInv, NEW r, NEW sets, r.num = header.num + 1,
           Record(r, sets),
           \/ sets = {} /\ r.roots = header.roots
           \/ \E i \in Nat \ {0}, s \in Sectors :
                sets = {<<i, s>>} /\ r.roots = insert(header.roots, i, s)
    PROVE  RootsInv'
<1>1. /\ pc = "idle" /\ pc' = "sent"
      /\ UNCHANGED <<host, hdisk, roots, torn>>
      /\ wal' = wal \cup {cur'} /\ unapplied' = unapplied \cup {cur'}
      /\ cur'.num = header.num + 1 /\ cur'.roots = r.roots /\ cur'.sets = sets
  BY DEF Record, newWalTxn, files
<1>2. /\ header.num = hdisk.num /\ header.roots = hdisk.roots
      /\ hdisk.num \in Nat
  BY <1>1, RevFields DEF LogInv, HeaderWritten, TypeOK, Headers
<1>3. Applies(cur', hdisk.roots)
  BY <1>1, <1>2 DEF Applies
<1>4. TxnRoots'
  BY <1>1, <1>2, <1>3 DEF RootsInv, TxnRoots, Applies
<1>5. CurRoots' /\ RootsFollow'
  BY <1>1 DEF RootsInv, CurRoots, RootsFollow, Committing, Writing
<1> QED
  BY <1>4, <1>5 DEF RootsInv

LEMMA HostSignsRoots ==
    ASSUME TypeOK, LogInv, RootsInv, NEW t \in inflight, HostSigns(t)
    PROVE  RootsInv'
<1>1. /\ t.num > host.num
      /\ UNCHANGED <<unapplied, hdisk, wal, mode, cur, roots, torn>>
      /\ pc' = pc \/ (pc = "sent" /\ pc' = "apply")
  BY DEF HostSigns, files
<1>2. host = Rev(hdisk)
  BY <1>1, SignedIsNext
<1>3. ~(pc = "sync" /\ mode # "utility")
  <2>1. ~(t.num <= host.num)
    BY <1>1 DEF TypeOK, Txns
  <2> QED
    BY <2>1 DEF LogInv, CurrentTxn, Committing, Writing
<1>4. pc = "sent" => /\ mode # "utility" /\ cur \in wal
                     /\ cur.num = hdisk.num + 1
  BY DEF LogInv, CurrentTxn
<1>5. TxnRoots' /\ CurRoots'
  BY <1>1, <1>4 DEF RootsInv, TxnRoots, CurRoots, Applies, Committing, Writing
<1>6. RootsFollow'
  BY <1>1, <1>2, <1>3, RevFields DEF RootsInv, RootsFollow
<1> QED
  BY <1>5, <1>6 DEF RootsInv

LEMMA SetRootRoots == ASSUME TypeOK, LogInv, RootsInv, applySetRoot PROVE RootsInv'
<1>1. /\ UNCHANGED <<host, unapplied, hdisk, wal, mode, cur, torn>>
      /\ pc = "roots" /\ pc' = "sync"
  BY DEF applySetRoot
<1>2. TxnRoots' /\ CurRoots'
  BY <1>1 DEF RootsInv, TxnRoots, CurRoots, Applies, Committing, Writing
<1>3. CASE mode = "utility"
  <2>1. roots' = roots
    BY <1>1, <1>3 DEF RootsInv, CurRoots, Committing, Writing, applySetRoot
  <2> QED
    BY <2>1, <1>1, <1>2, <1>3 DEF RootsInv, RootsFollow
<1>4. CASE mode # "utility"
  <2>1. cur.roots = host.roots
    BY <1>1, <1>4, RevFields DEF LogInv, CurrentTxn, Committing, Writing
  <2>2. Applies(cur, hdisk.roots)
    BY <1>1, <1>4 DEF RootsInv, CurRoots, Committing, Writing
  <2>3. ~torn => roots' = host.roots
    BY <2>1, <2>2, ApplyRoots DEF RootsInv, RootsFollow
  <2> QED
    BY <2>3, <1>1, <1>2 DEF RootsInv, RootsFollow
<1> QED
  BY <1>3, <1>4

LEMMA SyncHeaderRoots == ASSUME TypeOK, LogInv, RootsInv, SyncHeader PROVE RootsInv'
<1>1. /\ UNCHANGED <<host, unapplied, wal, mode, roots, torn>>
      /\ pc = "sync" /\ pc' \in Finishing /\ hdisk' = hfile
  BY DEF SyncHeader, Finishing
<1>2. hdisk'.num = cur.num /\ hdisk'.roots = cur.roots
  BY <1>1, RevFields DEF LogInv, HeaderWritten, Writing
<1>3. CurRoots'
  BY <1>1 DEF CurRoots, Committing, Writing, Finishing
<1>4. CASE mode = "utility"
  <2>1. hdisk'.num = hdisk.num /\ hdisk'.roots = hdisk.roots
    BY <1>1, <1>2, <1>4, RevFields DEF LogInv, UtilityTxn, Committing, Writing
  <2> QED
    BY <2>1, <1>1, <1>3 DEF RootsInv, TxnRoots, RootsFollow, Applies, Finishing
<1>5. CASE mode # "utility"
  <2>1. hdisk'.num = hdisk.num + 1 /\ cur.roots = host.roots
    BY <1>1, <1>2, <1>5, RevFields
       DEF LogInv, CurrentTxn, Committing, Writing, Ahead
  <2>2. TxnRoots'
    <3>1. hdisk.num \in Nat /\ \A t \in wal \cup unapplied : t.num \in Nat
      BY DEF TypeOK, Headers, Txns
    <3> QED
      BY <1>1, <2>1, <3>1 DEF RootsInv, TxnRoots
  <2>3. RootsFollow'
    BY <1>1, <1>2, <1>5, <2>1 DEF RootsInv, RootsFollow, Finishing
  <2> QED
    BY <2>2, <2>3, <1>3 DEF RootsInv
<1> QED
  BY <1>4, <1>5

LEMMA SyncRevisionRoots ==
    ASSUME TypeOK, LogInv, RootsInv, managedSyncRevision
    PROVE  RootsInv'
<1>1. /\ UNCHANGED <<host, unapplied, hdisk, wal, roots, torn>>
      /\ pc = "idle" /\ mode' = "sync" /\ pc' \in {"idle", "apply", "critical"}
      /\ pc' = "apply" => ~SameRevision(header, host) /\ cur' \in Matching
  BY DEF managedSyncRevision, files
<1>2. ASSUME pc' = "apply" PROVE Applies(cur', hdisk.roots)
  <2>1. host # Rev(hdisk)
    BY <1>1, <1>2, RevFields DEF LogInv, HeaderWritten, SameRevision
  <2>2. cur' \in unapplied /\ cur'.num = hdisk.num + 1
    BY <1>1, <1>2, <2>1 DEF LogInv, HostClose, Ahead, Matching, SameRevision
  <2> QED
    BY <2>2 DEF RootsInv, TxnRoots
<1>3. TxnRoots'
  BY <1>1 DEF RootsInv, TxnRoots, Applies
<1>4. CurRoots'
  BY <1>1, <1>2 DEF CurRoots, Committing, Writing, Applies
<1>5. RootsFollow'
  BY <1>1 DEF RootsInv, RootsFollow
<1> QED
  BY <1>3, <1>4, <1>5 DEF RootsInv

LEMMA UpdateUtilityRoots ==
    ASSUME TypeOK, LogInv, RootsInv, UpdateUtility
    PROVE  RootsInv'
<1>1. /\ UNCHANGED <<host, unapplied, hdisk, roots, torn>>
      /\ pc' = "apply" /\ mode' = "utility" /\ pc = "idle"
      /\ wal' = wal \cup {cur'} /\ cur'.num = header.num /\ cur'.sets = {}
  BY DEF UpdateUtility, newWalTxn, files
<1>2. header.num = hdisk.num /\ hdisk.num \in Nat
  BY <1>1, RevFields DEF LogInv, HeaderWritten, TypeOK, Headers
<1>3. TxnRoots'
  <2>1. cur'.num <= hdisk.num + 1 /\ cur'.num # hdisk.num + 1
    BY <1>1, <1>2
  <2> QED
    BY <1>1, <2>1 DEF RootsInv, TxnRoots, Applies
<1>4. CurRoots' /\ RootsFollow'
  BY <1>1 DEF RootsInv, CurRoots, RootsFollow
<1> QED
  BY <1>3, <1>4 DEF RootsInv

LEMMA CrashRoots == ASSUME TypeOK, LogInv, RootsInv, Crash PROVE RootsInv'
<1>1. /\ UNCHANGED <<host, unapplied, wal, mode, cur>>
      /\ pc # "down" /\ pc' = "down" /\ hdisk' = hfile'
      /\ hfile' \in {hfile, hdisk}
      /\ ~torn' => /\ ~torn /\ ~(pc = "roots" /\ cur.sets # {} /\ hfile' = hfile)
                   /\ roots' # roots => roots' = hdisk'.roots
  BY DEF Crash
<1>2. CurRoots'
  BY <1>1 DEF CurRoots, Committing, Writing
<1>3. CASE Rev(hdisk') = Rev(hdisk)
  <2>1. hdisk'.num = hdisk.num /\ hdisk'.roots = hdisk.roots
    BY <1>3, RevFields
  <2> QED
    BY <1>1, <1>2, <2>1 DEF RootsInv, TxnRoots, RootsFollow, Applies
<1>4. CASE Rev(hdisk') # Rev(hdisk)
  <2>1. /\ hdisk'.num = hdisk.num + 1 /\ hdisk'.roots = host.roots
        /\ hfile' = hfile
    BY <1>1, <1>4, CrashKeeps, RevFields DEF Ahead
  <2>2. TxnRoots'
    <3>1. hdisk.num \in Nat /\ \A t \in wal \cup unapplied : t.num \in Nat
      BY DEF TypeOK, Headers, Txns
    <3> QED
      BY <1>1, <2>1, <3>1 DEF RootsInv, TxnRoots
  <2>3. pc \in Writing
    <3>1. pc \notin Writing => Rev(hfile) = Rev(hdisk)
      BY <1>1 DEF LogInv, NoCritical, HeaderWritten, TypeOK, Writing
    <3> QED
      BY <1>1, <1>4, <2>1, <3>1
  <2>4. mode # "utility"
    BY <1>1, <1>4, <2>1, <2>3
       DEF LogInv, HeaderWritten, UtilityTxn, Committing, Rev
  <2>5. ~torn' => roots = host.roots
    <3>1. CASE pc = "sync"
      BY <1>1, <2>4, <3>1 DEF RootsInv, RootsFollow
    <3>2. CASE pc = "roots"
      <4>1. cur.roots = host.roots
        BY <2>3, <2>4, RevFields DEF LogInv, CurrentTxn, Committing
      <4>2. ~torn' => cur.roots = hdisk.roots
        BY <1>1, <2>1, <2>3, <2>4, <3>2
           DEF RootsInv, CurRoots, Committing, Applies
      <4> QED
        BY <1>1, <4>1, <4>2 DEF RootsInv, RootsFollow
    <3> QED
      BY <2>3, <3>1, <3>2 DEF Writing
  <2> QED
    BY <1>1, <1>2, <2>1, <2>2, <2>5 DEF RootsInv, RootsFollow
<1> QED
  BY <1>3, <1>4

LEMMA NextRoots == TypeOK /\ LogInv /\ RootsInv /\ [Next]_vars => RootsInv'
<1> SUFFICES ASSUME TypeOK, LogInv, RootsInv, [Next]_vars PROVE RootsInv'
  OBVIOUS
<1>1. ASSUME NEW i \in 1 .. MaxRevision, NEW s \in Sectors,
             managedRecordRootUpdates(i, s)
      PROVE  RootsInv'
  <2>1. i \in Nat \ {0}
    BY BoundAssumption
  <2> QED
    BY <1>1, <2>1, RecordRoots DEF managedRecordRootUpdates
<1>2. ASSUME managedRecordDownloadIntent PROVE RootsInv'
  BY <1>2, RecordRoots DEF managedRecordDownloadIntent
<1>3. ASSUME NEW t \in inflight, HostSigns(t) PROVE RootsInv'
  BY <1>3, HostSignsRoots
<1>4. ASSUME GiveUp \/ UNCHANGED vars PROVE RootsInv'
  BY <1>4 DEF GiveUp, vars, files, RootsInv, TxnRoots, CurRoots, RootsFollow,
              Applies, Committing, Writing
<1>5. ASSUME applySetHeader PROVE RootsInv'
  BY <1>5 DEF applySetHeader, RootsInv, TxnRoots, CurRoots, RootsFollow,
              Applies, Committing, Writing
<1>6. ASSUME SignalUpdatesApplied \/ clearUnappliedTxns PROVE RootsInv'
  <2>1. /\ UNCHANGED <<host, hdisk, roots, torn>>
        /\ unapplied' \subseteq unapplied /\ wal' \subseteq wal
        /\ pc' \in {"idle", "clear"}
    BY <1>6 DEF SignalUpdatesApplied, clearUnappliedTxns, files
  <2> QED
    BY <2>1 DEF RootsInv, TxnRoots, CurRoots, RootsFollow, Applies, Committing,
                Writing
<1>7. ASSUME WriteBack \/ Restart PROVE RootsInv'
  BY <1>7 DEF WriteBack, Restart, files, RootsInv, TxnRoots, CurRoots,
              RootsFollow, Applies, Committing, Writing
<1> QED
  BY <1>1, <1>2, <1>3, <1>4, <1>5, <1>6, <1>7, SetRootRoots, SyncHeaderRoots,
     SyncRevisionRoots, UpdateUtilityRoots, CrashRoots DEF Next

\* The roots of a contract that has the host's revision are those of that
\* revision, though nobody syncs them: a crash that loses a header, with or
\* without the roots, is mended by the log; one that keeps a header and loses
\* what it set is not, and is the only exception.
THEOREM RootsCorrect == Spec => []RootsMatch
<1>1. Init => TypeOK /\ LogInv /\ RootsInv
  BY InitType, InitLog, InitRoots
<1>2. TypeOK /\ LogInv /\ RootsInv /\ [Next]_vars
        => (TypeOK /\ LogInv /\ RootsInv)'
  BY NextType, NextLog, NextRoots
<1>3. TypeOK /\ LogInv /\ RootsInv => RootsMatch
  <2> SUFFICES ASSUME LogInv, RootsInv, pc = "idle", SameRevision(header, host),
                      ~torn
               PROVE  roots = header.roots
    BY DEF RootsMatch
  <2>1. header.roots = hdisk.roots
    BY RevFields DEF LogInv, HeaderWritten
  <2> QED
    BY <2>1 DEF RootsInv, RootsFollow, SameRevision
<1> QED
  BY <1>1, <1>2, <1>3, PTL DEF Spec

=============================================================================
