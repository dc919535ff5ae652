------------------------- MODULE WalWriter_proofs -------------------------
(***************************************************************************)
(* Proofs about WalWriter for the disk described by Honest: the durable    *)
(* promise, the order of what is promised, the acceptance of every         *)
(* directory a crash leaves, and that the writer implements DurableLog.    *)
(* Then about the runtime that is replayed from the log (RuntimeRecovery): *)
(* a handle names the entity it was given out for, what was saved can be   *)
(* restored, and while commands are enqueued in time the state is a        *)
(* function of the log and no start is refused.                            *)
(***************************************************************************)
EXTENDS WalWriter, RuntimeRecovery, SequenceTheorems, FiniteSetTheorems, WellFoundedInduction, TLAPS

-----------------------------------------------------------------------------
(* Facts about the data of the model.                                       *)

(* A prefix of the log is a log.                                            *)
LEMMA Prefix ==
    ASSUME NEW S, NEW s \in Seq(S), NEW n \in 0..Len(s)
    PROVE  /\ SubSeq(s, 1, n) \in Seq(S)
           /\ Len(SubSeq(s, 1, n)) = n
           /\ \A i \in 1..n : SubSeq(s, 1, n)[i] = s[i]
<1>1. Len(s) \in Nat /\ \A i \in 1..n : s[i] \in S
  BY ElementOfSeq, LenProperties
<1>2. /\ SubSeq(s, 1, n) \in Seq(S)
      /\ Len(SubSeq(s, 1, n)) = IF 1 <= n THEN n - 1 + 1 ELSE 0
      /\ \A i \in 1..(n - 1 + 1) : SubSeq(s, 1, n)[i] = s[1 + i - 1]
  BY <1>1, SubSeqProperties
<1> QED
  BY <1>1, <1>2

(* The scan always stops somewhere: after every record, or before the first *)
(* one it cannot decode.                                                    *)
LEMMA ReadableType ==
    ASSUME log \in Seq(Record)
    PROVE  /\ Readable \in 0..Len(log)
           /\ \A i \in 1..Readable : Decodable(i)
           /\ Readable < Len(log) => ~Decodable(Readable + 1)
<1> DEFINE P(n) == /\ \A i \in 1..n : Decodable(i)
                   /\ n < Len(log) => ~Decodable(n + 1)
           Bad == {i \in 1..Len(log) : ~Decodable(i)}
<1>0. Len(log) \in Nat
  BY LenProperties
<1>1. CASE Bad = {}
  <2>1. P(Len(log))
    BY <1>0, <1>1
  <2> HIDE DEF P
  <2> QED
    BY <1>0, <2>1 DEF Readable, P
<1>2. CASE Bad # {}
  <2> DEFINE R == {ss \in Nat \X Nat : ss[1] < ss[2]}
  <2>1. IsWellFoundedOn(R, Nat)
    BY NatLessThanWellFounded DEF OpToRel
  <2>2. PICK b \in Bad : \A c \in Bad : ~(c < b)
    <3>1. Bad \subseteq Nat
      BY <1>0
    <3>2. PICK b \in Bad : \A c \in Bad : ~(<<c, b>> \in R)
      <4> HIDE DEF Bad, R
      <4> QED
        BY <1>2, <2>1, <3>1, WFMin
    <3>3. \A c \in Bad : c < b => <<c, b>> \in R
      BY <3>1
    <3> QED
      BY <3>2, <3>3
  <2>3. P(b - 1) /\ b - 1 \in 0..Len(log)
    BY <1>0, <2>2
  <2> HIDE DEF P
  <2> QED
    BY <2>3 DEF Readable, P
<1> QED
  BY <1>1, <1>2

-----------------------------------------------------------------------------
(* The file system the writer is correct on: fdatasync of a new file makes  *)
(* its name durable, truncate_file works, and no payload is so large that   *)
(* the scan refuses the record that append() took.                          *)
Honest == LinkOnDataSync /\ ~TruncateMayFail /\ Large = {}

(* On such a disk only the torn tail is lost: a scan reads every record.    *)
LEMMA ReadsAll == ASSUME Honest, TypeOK, DiskInv PROVE Readable = Len(log)
<1>1. /\ Readable \in 0..Len(log)
      /\ Readable < Len(log) => ~Decodable(Readable + 1)
  BY ReadableType DEF TypeOK
<1>2. Len(log) \in Nat /\ \A i \in 1..Len(log) : Decodable(i)
  BY LenProperties DEF Honest, TypeOK, DiskInv, Decodable, NoTear
<1> QED
  BY <1>1, <1>2

-----------------------------------------------------------------------------
(* Type correctness.                                                        *)

(* Every action keeps every variable in its type.  Types alone are not      *)
(* inductive: a batch is fulfilled from lsns, which must be as long as the  *)
(* batch, and a power loss cuts the log at split.                           *)
LEMMA TypeStep == Honest /\ WalInv /\ [Next]_vars => TypeOK'
<1> SUFFICES ASSUME Honest, TypeOK, DiskInv, LsnsMatch, [Next]_vars PROVE TypeOK'
  BY DEF WalInv, BatchInv
<1> USE DEF TypeOK, worker, files, disk, caller, WorkerFrame
<1>0. /\ Readable \in 0..Len(log)
      /\ Len(log) \in Nat /\ Len(batch) \in Nat /\ Len(lsns) \in Nat
  BY ReadableType, LenProperties
<1>1. ASSUME NEW t \in Ticket, AppendOk(t) PROVE TypeOK'
  <2>1. queue' \in Seq(Ticket) /\ admitted' \in Seq(Ticket)
    BY <1>1, AppendProperties DEF AppendOk
  <2> QED
    BY <1>1, <2>1 DEF AppendOk
<1>2. ASSUME NEW t \in Ticket, AppendRefused(t) PROVE TypeOK'
  BY <1>2 DEF AppendRefused
<1>3. CASE Shutdown
  BY <1>3 DEF Shutdown
<1>4. CASE TakeOne
  <2>1. batch' \in Seq(Ticket) /\ queue' \in Seq(Ticket)
    BY <1>4, HeadTailProperties, AppendProperties DEF TakeOne
  <2> QED
    BY <1>4, <2>1 DEF TakeOne
<1>5. CASE CloseBatch
  BY <1>5 DEF CloseBatch
<1>6. CASE WorkerExit
  <2>1. synced' \in Nat /\ stable' \in BOOLEAN /\ renamed' \in Nat
    BY <1>0, <1>6 DEF WorkerExit
  <2> QED
    BY <1>6, <2>1 DEF WorkerExit
<1>7. CASE CreateSegment
  BY <1>7 DEF CreateSegment
<1>8. CASE WriteHeader
  BY <1>8 DEF WriteHeader
<1>9. CASE RotateSync
  BY <1>0, <1>9 DEF RotateSync
<1>10. CASE RotateRename
  BY <1>0, <1>10 DEF RotateRename
<1>11. CASE RotateSyncDir
  BY <1>11 DEF RotateSyncDir
<1>12. CASE WriteRecord
  <2>1. batch[Len(lsns) + 1] \in Ticket
    BY <1>0, <1>12, ElementOfSeq DEF WriteRecord, MoreToWrite
  <2>2. log' \in Seq(Record) /\ lsns' \in Seq(Nat)
    BY <1>12, <2>1, AppendProperties DEF WriteRecord, Record
  <2> QED
    BY <1>12, <2>2 DEF WriteRecord, MoreToWrite
<1>13. CASE EndWrites
  BY <1>13 DEF EndWrites
<1>14. CASE SyncBatch
  BY <1>0, <1>14 DEF SyncBatch
<1>15. CASE IoError
  BY <1>0, <1>15 DEF IoError
<1>16. CASE Fulfil
  <2>1. batch[done + 1] \in Ticket /\ lsns[done + 1] \in Nat
    BY <1>0, <1>16, ElementOfSeq, SMTT(60) DEF Fulfil, LsnsMatch
  <2> QED
    BY <1>16, <2>1, SMTT(60) DEF Fulfil, AdmissionStatus
<1>17. CASE FinishBatch
  <2>1. Durables # {} => lsns[Len(lsns)] \in Nat
    BY <1>0, <1>17, ElementOfSeq, SMTT(60) DEF FinishBatch, Durables, LsnsMatch
  <2> QED
    BY <1>17, <2>1 DEF FinishBatch
<1>18. CASE FailBatch
  BY <1>18 DEF FailBatch, FailTickets
<1>19. CASE SetFault
  BY <1>19 DEF SetFault
<1>20. CASE DrainQueue
  <2>1. outcome' \in [Ticket -> {"new", "pending", "durable", "relaxed", "failed",
                                 "refused", "lost"}]
    BY <1>20 DEF DrainQueue, FailTickets
  <2> QED
    BY <1>20, <2>1, EmptySeq DEF DrainQueue
<1>21. CASE Crash
  <2>1. ASSUME MemoryLost,
               log' \in Seq(Record), split' \in Nat, csynced' \in Nat, synced' \in Nat,
               activeName' \in Nat, renamed' \in Nat, tornAt' \in Nat \cup {NoTear},
               header' \in BOOLEAN, stable' \in BOOLEAN
        PROVE  TypeOK'
    <3>1. outcome' \in [Ticket -> {"new", "pending", "durable", "relaxed", "failed",
                                   "refused", "lost"}]
      BY <2>1 DEF MemoryLost
    <3>2. queue' \in Seq(Ticket) /\ batch' \in Seq(Ticket) /\ lsns' \in Seq(Nat)
      BY <2>1, EmptySeq DEF MemoryLost
    <3>3. pc' = "down" /\ got' \in [Ticket -> Nat] /\ admitted' \in Seq(Ticket)
      BY <2>1 DEF MemoryLost
    <3>4. /\ crashes' \in Nat /\ done' \in Nat /\ nextLsn' \in Nat
          /\ lastDurable' \in Nat
      BY <2>1 DEF MemoryLost
    <3>5. /\ fault' \in BOOLEAN /\ exhausted' \in BOOLEAN /\ stopping' \in BOOLEAN
          /\ hasFile' \in BOOLEAN /\ unsynced' \in BOOLEAN
      BY <2>1 DEF MemoryLost
    <3> QED
      BY <2>1, <3>1, <3>2, <3>3, <3>4, <3>5
  <2>2. CASE KilledProcess
    BY <1>0, <2>1, <2>2 DEF KilledProcess
  <2>3. \A n \in 0..Len(log) : SubSeq(log, 1, n) \in Seq(Record)
    BY Prefix
  <2>4. StableCount \in Nat /\ split \in 0..Len(log) /\ csynced \in Nat
    BY <1>0 DEF StableCount, DiskInv
  <2>5. CASE PowerLoss
    <3>1. PICK n \in StableCount..Len(log), h \in {header, header /\ stable} :
            /\ log' = SubSeq(log, 1, n) /\ synced' = n /\ csynced' = Least(csynced, n)
            /\ header' = h /\ tornAt' \in IF activeName = 0 THEN {NoTear} ELSE {NoTear, n}
      BY <2>5 DEF PowerLoss
    <3>2. MemoryLost /\ stable' = (activeName # 0) /\ renamed' = 0 /\ UNCHANGED <<split, activeName>>
      BY <2>5 DEF PowerLoss
    <3>3. n \in 0..Len(log) /\ Least(csynced, n) \in Nat
      BY <1>0, <2>4 DEF Least
    <3>4. log' \in Seq(Record) /\ synced' \in Nat /\ csynced' \in Nat /\ tornAt' \in Nat \cup {NoTear}
      BY <2>3, <3>1, <3>3
    <3>5. header' \in BOOLEAN /\ stable' \in BOOLEAN
      BY <1>0, <3>1, <3>2
    <3>6. split' \in Nat /\ activeName' \in Nat /\ renamed' \in Nat
      BY <1>0, <3>2
    <3> QED
      BY <2>1, <3>2, <3>4, <3>5, <3>6
  <2>6. CASE PowerLossNoFile
    <3>1. \A n \in Least(StableCount, split)..split : n \in 0..Len(log)
      BY <1>0, <2>4 DEF Least
    <3>2. /\ MemoryLost /\ log' \in Seq(Record) /\ split' \in Nat
          /\ synced' \in Nat /\ csynced' \in Nat
      BY <1>0, <2>3, <2>4, <2>6, <3>1 DEF PowerLossNoFile, Least
    <3>3. /\ activeName' \in Nat /\ renamed' \in Nat /\ tornAt' \in Nat \cup {NoTear}
          /\ header' \in BOOLEAN /\ stable' \in BOOLEAN
      BY <2>6 DEF PowerLossNoFile
    <3> QED
      BY <2>1, <3>2, <3>3
  <2>7. CASE PowerLossUndoRename
    BY <1>0, <2>1, <2>3, <2>4, <2>7, SMTT(60) DEF PowerLossUndoRename
  <2> QED
    BY <1>21, <2>2, <2>5, <2>6, <2>7 DEF Crash
<1>22. CASE StartRefused
  BY <1>22 DEF StartRefused
<1>23. CASE Start
  BY <1>0, <1>23 DEF Start, Least, NextAfterScan
<1>24. CASE UNCHANGED vars
  BY <1>24 DEF vars
<1> QED
  BY <1>1, <1>2, <1>3, <1>4, <1>5, <1>6, <1>7, <1>8, <1>9, <1>10, <1>11, <1>12,
     <1>13, <1>14, <1>15, <1>16, <1>17, <1>18, <1>19, <1>20, <1>21, <1>22, <1>23,
     <1>24 DEF Next, CallerStep, WorkerStep

-----------------------------------------------------------------------------
(* The disk.                                                                *)

(* Whatever the worker, a crash or a restart does, only the tail of the     *)
(* active segment is unsynced and every record is at the place of its LSN.  *)
LEMMA DiskStep == Honest /\ WalInv /\ [Next]_vars => DiskInv'
<1> SUFFICES ASSUME Honest, TypeOK, DiskInv, WriterInv, [Next]_vars PROVE DiskInv'
  BY DEF WalInv
<1> USE DEF files, disk, WorkerFrame, NoTear
<1>0. /\ Readable = Len(log) /\ Len(log) \in Nat /\ MaxLsn \in Nat \ {0}
      /\ split \in Nat /\ synced \in Nat /\ csynced \in Nat /\ activeName \in Nat
      /\ renamed \in Nat /\ header \in BOOLEAN /\ stable \in BOOLEAN
      /\ hasFile \in BOOLEAN
  BY ReadsAll, LenProperties, WalConstants DEF TypeOK
<1>1. CASE UNCHANGED disk
  BY <1>1 DEF DiskInv
<1>2. CASE WorkerExit
  BY <1>0, <1>2 DEF WorkerExit, DiskInv, WriterInv, Working
<1>3. CASE CreateSegment
  BY <1>0, <1>3 DEF CreateSegment, MoreToWrite, DiskInv, WriterInv, Working, InBatch, Least
<1>4. CASE WriteHeader
  BY <1>0, <1>4 DEF WriteHeader, DiskInv, WriterInv
<1>5. CASE RotateSync
  BY <1>0, <1>5 DEF RotateSync, MoreToWrite, DiskInv, WriterInv, Working, InBatch
<1>6. CASE RotateRename
  BY <1>0, <1>6 DEF RotateRename, DiskInv, WriterInv
<1>7. CASE RotateSyncDir
  BY <1>0, <1>7 DEF RotateSyncDir, DiskInv
<1>8. CASE WriteRecord
  <2>1. batch[Len(lsns) + 1] \in Ticket
    BY <1>8, ElementOfSeq, LenProperties DEF WriteRecord, MoreToWrite, TypeOK
  <2>2. /\ Len(log') = Len(log) + 1
        /\ \A i \in 1..Len(log) : log'[i] = log[i]
        /\ log'[Len(log) + 1].lsn = nextLsn
    BY <1>0, <1>8, <2>1, AppendProperties DEF WriteRecord, TypeOK, Record
  <2>3. /\ tornAt = NoTear /\ header
        /\ nextLsn = Least(Len(log) + 1, MaxLsn)
    BY <1>8 DEF WriteRecord, MoreToWrite, WriterInv, Working, InBatch
  <2>4. \A i \in 1..Len(log') : i <= MaxLsn => log'[i].lsn = i
    BY <1>0, <2>2, <2>3, SMTT(60) DEF DiskInv, Least
  <2> QED
    BY <1>0, <1>8, <2>2, <2>3, <2>4 DEF WriteRecord, DiskInv
<1>9. CASE SyncBatch
  BY <1>0, <1>9 DEF SyncBatch, DiskInv, WriterInv, Working, InBatch
<1>10. CASE IoError \/ KilledProcess
  BY <1>0, <1>10 DEF IoError, KilledProcess, DiskInv
<1>11. ASSUME NEW n \in 0..Len(log), log' = SubSeq(log, 1, n)
       PROVE  /\ Len(log') = n
              /\ \A i \in 1..Len(log') : i <= MaxLsn => log'[i].lsn = i
  <2>1. log \in Seq(Record)
    BY DEF TypeOK
  <2>2. \A i \in 1..Len(log) : i <= MaxLsn => log[i].lsn = i
    BY DEF DiskInv
  <2> HIDE DEF files, disk, WorkerFrame, NoTear
  <2>3. Len(SubSeq(log, 1, n)) = n /\ \A i \in 1..n : SubSeq(log, 1, n)[i] = log[i]
    BY <2>1, Prefix
  <2>4. \A i \in 1..n : i \in 1..Len(log)
    BY <1>0
  <2> QED
    BY <1>11, <2>2, <2>3, <2>4
<1>12. CASE PowerLoss
  BY <1>0, <1>11, <1>12 DEF PowerLoss, StableCount, Least, DiskInv
<1>13. CASE PowerLossNoFile
  BY <1>0, <1>11, <1>13 DEF PowerLossNoFile, StableCount, Least, DiskInv, Honest
<1>14. CASE PowerLossUndoRename
  BY <1>0, <1>11, <1>14 DEF PowerLossUndoRename, DiskInv
<1>15. CASE Start
  BY <1>0, <1>11, <1>15 DEF Start, Least, DiskInv, Honest
<1>16. ASSUME NEW t \in Ticket, AppendOk(t) \/ AppendRefused(t) PROVE UNCHANGED disk
  BY <1>16 DEF AppendOk, AppendRefused
<1>17. Shutdown \/ TakeOne \/ CloseBatch \/ EndWrites => UNCHANGED disk
  BY DEF Shutdown, TakeOne, CloseBatch, EndWrites
<1>18. Fulfil \/ FinishBatch \/ FailBatch \/ SetFault => UNCHANGED disk
  BY DEF Fulfil, FinishBatch, FailBatch, SetFault
<1>19. DrainQueue \/ StartRefused \/ UNCHANGED vars => UNCHANGED disk
  BY DEF DrainQueue, StartRefused, vars
<1> QED
  BY <1>1, <1>2, <1>3, <1>4, <1>5, <1>6, <1>7, <1>8, <1>9, <1>10, <1>12, <1>13, <1>14,
     <1>15, <1>16, <1>17, <1>18, <1>19 DEF Next, CallerStep, WorkerStep, Crash

-----------------------------------------------------------------------------
(* The worker.                                                              *)

(* The worker never works behind a damaged tail, takes LSNs in log order    *)
(* and knows whether the active file is there.                              *)
LEMMA WriterStep == Honest /\ WalInv /\ [Next]_vars => WriterInv'
<1> SUFFICES ASSUME Honest, TypeOK, DiskInv, WriterInv, [Next]_vars PROVE WriterInv'
  BY DEF WalInv
<1> USE DEF worker, files, disk, caller, WorkerFrame, NoTear, Working, InBatch, LsnsLeft
<1>0. /\ Readable = Len(log) /\ Len(log) \in Nat /\ MaxLsn \in Nat \ {0}
      /\ split \in Nat /\ synced \in Nat /\ activeName \in Nat
      /\ header \in BOOLEAN /\ stable \in BOOLEAN /\ hasFile \in BOOLEAN
      /\ fault \in BOOLEAN
  BY ReadsAll, LenProperties, WalConstants DEF TypeOK
<1>1. ASSUME NEW t \in Ticket, AppendOk(t) \/ AppendRefused(t) PROVE WriterInv'
  BY <1>1 DEF AppendOk, AppendRefused, WriterInv
<1>2. CASE Shutdown
  BY <1>2 DEF Shutdown, WriterInv
<1>3. CASE TakeOne
  BY <1>3 DEF TakeOne, WriterInv
<1>4. CASE CloseBatch
  BY <1>4 DEF CloseBatch, WriterInv
<1>5. CASE WorkerExit
  BY <1>5 DEF WorkerExit, WriterInv
<1>6. CASE CreateSegment
  BY <1>0, <1>6 DEF CreateSegment, MoreToWrite, WriterInv, Least
<1>7. CASE WriteHeader
  BY <1>7 DEF WriteHeader, WriterInv
<1>8. CASE RotateSync
  BY <1>0, <1>8 DEF RotateSync, MoreToWrite, WriterInv
<1>9. CASE RotateRename
  BY <1>9 DEF RotateRename, WriterInv
<1>10. CASE RotateSyncDir
  BY <1>0, <1>10 DEF RotateSyncDir, WriterInv
<1>11. CASE WriteRecord
  <2>1. Len(log') = Len(log) + 1
    <3>1. batch[Len(lsns) + 1] \in Ticket
      BY <1>11, ElementOfSeq, LenProperties DEF WriteRecord, MoreToWrite, TypeOK
    <3> QED
      BY <1>11, <3>1, AppendProperties DEF WriteRecord, TypeOK, Record
  <2>2. nextLsn = Least(Len(log) + 1, MaxLsn)
    BY <1>11 DEF WriteRecord, MoreToWrite, WriterInv
  <2>3. nextLsn' = Least(Len(log') + 1, MaxLsn)
    BY <1>0, <1>11, <2>1, <2>2 DEF WriteRecord, Least
  <2> QED
    BY <1>0, <1>11, <2>3 DEF WriteRecord, MoreToWrite, WriterInv
<1>12. CASE EndWrites
  BY <1>12 DEF EndWrites, WriterInv
<1>13. CASE SyncBatch
  BY <1>13 DEF SyncBatch, WriterInv
<1>14. CASE IoError
  BY <1>14 DEF IoError, WriterInv
<1>15. CASE Fulfil
  BY <1>15 DEF Fulfil, WriterInv
<1>16. CASE FinishBatch
  BY <1>16 DEF FinishBatch, WriterInv
<1>17. CASE FailBatch \/ SetFault
  BY <1>17 DEF FailBatch, SetFault, WriterInv
<1>18. CASE DrainQueue
  BY <1>18 DEF DrainQueue, WriterInv
<1>19. CASE Crash
  BY <1>19 DEF Crash, KilledProcess, PowerLoss, PowerLossNoFile, PowerLossUndoRename,
               MemoryLost, WriterInv
<1>20. CASE StartRefused
  <2>1. \/ \E i \in 1..Len(log) : log[i].lsn # i \/ i = MaxLsn
        \/ activeName # 0 /\ header /\ activeName # split + 1
    BY <1>0, <1>20 DEF StartRefused, ScanFails, DiskInv
  <2>2. ~LsnsLeft
    BY <1>0, <2>1 DEF DiskInv
  <2> QED
    BY <1>20, <2>2 DEF StartRefused, WriterInv
<1>21. CASE Start
  <2>1. log' = log /\ tornAt' = NoTear
    <3>1. log' = SubSeq(log, 1, Len(log)) /\ tornAt' = NoTear
      BY <1>0, <1>21 DEF Start, Honest
    <3> QED
      BY <3>1, SubSeqFull DEF TypeOK
  <2>2. nextLsn' = Least(Len(log) + 1, MaxLsn)
    BY <1>0, <1>21 DEF Start, NextAfterScan, ScanFails, Least
  <2>3. hasFile' = header'
    BY <1>0, <1>21 DEF Start, Honest
  <2> QED
    BY <1>21, <2>1, <2>2, <2>3 DEF Start, WriterInv
<1>22. CASE UNCHANGED vars
  BY <1>22 DEF vars, WriterInv
<1> QED
  BY <1>1, <1>2, <1>3, <1>4, <1>5, <1>6, <1>7, <1>8, <1>9, <1>10, <1>11, <1>12,
     <1>13, <1>14, <1>15, <1>16, <1>17, <1>18, <1>19, <1>20, <1>21, <1>22
     DEF Next, CallerStep, WorkerStep

-----------------------------------------------------------------------------
(* The batch and the promises.                                              *)

(* Until its tickets are fulfilled, the records of the batch stay at their  *)
(* LSNs, and a batch with a durable ticket is fulfilled only once synced.   *)
LEMMA BatchStep == Honest /\ WalInv /\ [Next]_vars => BatchInv'
<1> SUFFICES ASSUME Honest, TypeOK, DiskInv, WriterInv, BatchInv, [Next]_vars
             PROVE  BatchInv'
  BY DEF WalInv
<1> USE DEF worker, files, disk, caller, WorkerFrame, InBatch, LsnsMatch
<1>0. /\ Len(log) \in Nat /\ Len(batch) \in Nat /\ Len(lsns) \in Nat /\ done \in Nat
      /\ MaxLsn \in Nat \ {0} /\ batch \in Seq(Ticket) /\ lsns \in Seq(Nat)
  BY LenProperties, WalConstants DEF TypeOK
<1>1. CASE UNCHANGED <<pc, batch, lsns, done, log, synced>>
  BY <1>1 DEF BatchInv, Durables
<1>2. ASSUME pc' \notin {"write", "header", "rename", "dirsync", "sync", "fulfil"},
             lsns' = <<>> \/ UNCHANGED <<pc, lsns>>, done' = 0
      PROVE  BatchInv'
  BY <1>2 DEF BatchInv
<1>3. CASE TakeOne \/ WorkerExit
  BY <1>2, <1>3 DEF TakeOne, WorkerExit, BatchInv
<1>4. CASE CloseBatch
  <2>1. lsns = <<>> /\ done = 0
    BY <1>4 DEF CloseBatch, BatchInv
  <2> QED
    BY <1>0, <1>4, <2>1 DEF CloseBatch, BatchInv
<1>5. CASE CreateSegment \/ WriteHeader \/ RotateSync \/ RotateRename \/ RotateSyncDir
  <2>1. /\ UNCHANGED <<batch, lsns, done, log>>
        /\ pc' \in {"header", "write", "rename", "dirsync"}
        /\ pc \in {"header", "write", "rename", "dirsync"}
    BY <1>5 DEF CreateSegment, WriteHeader, RotateSync, RotateRename, RotateSyncDir,
                MoreToWrite
  <2> QED
    BY <2>1 DEF BatchInv
<1>6. CASE WriteRecord
  <2> DEFINE next == Len(lsns) + 1
  <2>1. batch[next] \in Ticket /\ next \in 1..Len(batch) /\ pc = "write" /\ pc' = "write"
    BY <1>0, <1>6, ElementOfSeq DEF WriteRecord, MoreToWrite, BatchInv
  <2>2. /\ Len(log') = Len(log) + 1
        /\ \A i \in 1..Len(log) : log'[i] = log[i]
        /\ log'[Len(log) + 1].ticket = batch[next]
    BY <1>0, <1>6, <2>1, AppendProperties DEF WriteRecord, TypeOK, Record
  <2>3. /\ Len(lsns') = next
        /\ \A i \in 1..Len(lsns) : lsns'[i] = lsns[i]
        /\ lsns'[next] = nextLsn
    BY <1>0, <1>6, AppendProperties DEF WriteRecord, TypeOK
  <2>4. nextLsn = Least(Len(log) + 1, MaxLsn)
    BY <2>1 DEF WriterInv, Working
  <2>5. ASSUME NEW i \in 1..Len(lsns')
        PROVE  /\ lsns'[i] \in 1..Len(log')
               /\ lsns'[i] < MaxLsn => log'[lsns'[i]].ticket = batch[i]
    <3>1. CASE i = next
      BY <1>0, <2>2, <2>3, <2>4, <3>1 DEF Least
    <3>2. CASE i # next
      <4>1. i \in 1..Len(lsns) /\ lsns'[i] = lsns[i]
        BY <1>0, <2>3, <3>2
      <4>2. lsns[i] \in 1..Len(log) /\ (lsns[i] < MaxLsn => log[lsns[i]].ticket = batch[i])
        BY <2>1, <4>1 DEF BatchInv
      <4> QED
        BY <1>0, <2>2, <4>1, <4>2, SMTT(60)
    <3> QED
      BY <3>1, <3>2
  <2> QED
    BY <1>6, <2>1, <2>3, <2>5 DEF WriteRecord, BatchInv
<1>7. CASE EndWrites
  BY <1>0, <1>7 DEF EndWrites, BatchInv, Durables
<1>8. CASE SyncBatch
  BY <1>0, <1>8 DEF SyncBatch, BatchInv, Durables
<1>9. CASE IoError
  BY <1>9 DEF IoError, MoreToWrite, BatchInv
<1>10. CASE Fulfil
  BY <1>0, <1>10 DEF Fulfil, BatchInv, Durables
<1>11. CASE FinishBatch \/ FailBatch \/ SetFault \/ DrainQueue
  BY <1>2, <1>11 DEF FinishBatch, FailBatch, SetFault, DrainQueue, BatchInv
<1>12. CASE Crash
  BY <1>2, <1>12 DEF Crash, KilledProcess, PowerLoss, PowerLossNoFile,
                     PowerLossUndoRename, MemoryLost, BatchInv
<1>13. CASE Start \/ StartRefused
  BY <1>2, <1>13 DEF Start, StartRefused, BatchInv
<1>14. ASSUME NEW t \in Ticket, AppendOk(t) \/ AppendRefused(t) PROVE BatchInv'
  BY <1>1, <1>14 DEF AppendOk, AppendRefused
<1>15. CASE Shutdown \/ UNCHANGED vars
  BY <1>1, <1>15 DEF Shutdown, vars
<1> QED
  BY <1>3, <1>4, <1>5, <1>6, <1>7, <1>8, <1>9, <1>10, <1>11, <1>12, <1>13, <1>14,
     <1>15 DEF Next, CallerStep, WorkerStep

(* What a caller was promised stays on stable storage.                      *)
LEMMA PromiseStep == Honest /\ WalInv /\ [Next]_vars => PromiseInv'
<1> SUFFICES ASSUME Honest, TypeOK, DiskInv, WriterInv, BatchInv, PromiseInv, [Next]_vars
             PROVE  PromiseInv'
  BY DEF WalInv
<1> USE DEF worker, files, disk, caller, WorkerFrame
<1>0. /\ Readable = Len(log) /\ Len(log) \in Nat /\ synced \in Nat /\ split \in Nat
      /\ synced <= Len(log) /\ MaxLsn \in Nat \ {0}
  BY ReadsAll, LenProperties, WalConstants DEF TypeOK, DiskInv
(* A step that promises nothing new and keeps the stable records.           *)
<1>1. ASSUME \A t \in Ticket : outcome'[t] = "durable" => outcome[t] = "durable",
             got' = got, synced' \in Nat, synced <= synced',
             \A i \in 1..synced : log'[i] = log[i]
      PROVE  PromiseInv'
  BY <1>0, <1>1 DEF PromiseInv
<1>2. CASE UNCHANGED <<outcome, got, log>> /\ synced' \in {synced, Len(log)}
  BY <1>0, <1>1, <1>2
<1>3. WorkerExit \/ CreateSegment \/ WriteHeader \/ RotateSync \/ RotateRename
        => UNCHANGED <<outcome, got, log>> /\ synced' \in {synced, Len(log)}
  BY DEF WorkerExit, CreateSegment, WriteHeader, RotateSync, RotateRename
<1>4. RotateSyncDir \/ EndWrites \/ SyncBatch \/ IoError \/ CloseBatch \/ TakeOne
        => UNCHANGED <<outcome, got, log>> /\ synced' \in {synced, Len(log)}
  BY DEF RotateSyncDir, EndWrites, SyncBatch, IoError, CloseBatch, TakeOne
<1>5. FinishBatch \/ SetFault \/ Shutdown \/ StartRefused \/ UNCHANGED vars
        => UNCHANGED <<outcome, got, log>> /\ synced' \in {synced, Len(log)}
  BY DEF FinishBatch, SetFault, Shutdown, StartRefused, vars
<1>6. ASSUME NEW t \in Ticket, AppendOk(t) \/ AppendRefused(t) PROVE PromiseInv'
  <2>1. outcome'[t] # "durable" /\ \A u \in Ticket : u # t => outcome'[u] = outcome[u]
    BY <1>6 DEF AppendOk, AppendRefused, TypeOK
  <2>2. UNCHANGED <<got, log, synced>>
    BY <1>6 DEF AppendOk, AppendRefused
  <2> QED
    BY <1>0, <1>1, <2>1, <2>2
<1>7. CASE WriteRecord
  <2>1. batch[Len(lsns) + 1] \in Ticket
    BY <1>7, ElementOfSeq, LenProperties DEF WriteRecord, MoreToWrite, TypeOK
  <2>2. \A i \in 1..Len(log) : log'[i] = log[i]
    BY <1>7, <2>1, AppendProperties DEF WriteRecord, TypeOK, Record
  <2> QED
    BY <1>0, <1>1, <1>7, <2>2 DEF WriteRecord
<1>8. CASE Fulfil
  <2> DEFINE b == batch[done + 1]
             l == lsns[done + 1]
  <2>1. /\ pc = "fulfil" /\ done + 1 \in 1..Len(lsns) /\ done + 1 \in 1..Len(batch)
        /\ UNCHANGED <<log, synced>>
    BY <1>8, LenProperties DEF Fulfil, BatchInv, LsnsMatch, TypeOK
  <2>2. l \in 1..Len(log) /\ (l < MaxLsn => log[l].ticket = b)
    BY <2>1 DEF BatchInv, InBatch
  <2>3. b \notin Relaxed => synced = Len(log)
    BY <2>1 DEF BatchInv, Durables
  <2>4. ASSUME NEW t \in Ticket, outcome'[t] = "durable"
        PROVE  /\ got'[t] \in 1..synced
               /\ got'[t] < MaxLsn => log[got'[t]].ticket = t
    <3>1. CASE t = b
      <4>1. b \notin Relaxed /\ got'[t] = l
        BY <1>8, <2>4, <3>1 DEF Fulfil, AdmissionStatus, TypeOK
      <4> QED
        BY <2>2, <2>3, <3>1, <4>1
    <3>2. CASE t # b
      <4>1. outcome[t] = "durable" /\ got'[t] = got[t]
        BY <1>8, <2>4, <3>2 DEF Fulfil, TypeOK
      <4> QED
        BY <4>1 DEF PromiseInv
    <3> QED
      BY <3>1, <3>2
  <2> QED
    BY <2>1, <2>4 DEF PromiseInv
<1>9. CASE FailBatch \/ DrainQueue
  <2>1. \A t \in Ticket : outcome'[t] = "durable" => outcome[t] = "durable"
    BY <1>9 DEF FailBatch, DrainQueue, FailTickets
  <2> QED
    BY <1>0, <1>1, <1>9, <2>1 DEF FailBatch, DrainQueue
<1>10. CASE Crash
  <2>1. /\ \A t \in Ticket : outcome'[t] = "durable" => outcome[t] = "durable"
        /\ got' = got
    BY <1>10 DEF Crash, KilledProcess, PowerLoss, PowerLossNoFile, PowerLossUndoRename,
                 MemoryLost
  <2>2. ASSUME NEW n \in synced..Len(log), log' = SubSeq(log, 1, n), synced' = n
        PROVE  PromiseInv'
    <3>1. \A i \in 1..n : log'[i] = log[i]
      BY <1>0, <2>2, Prefix DEF TypeOK
    <3> QED
      BY <1>0, <1>1, <2>1, <2>2, <3>1
  <2>3. CASE KilledProcess
    BY <1>0, <1>1, <2>1, <2>3 DEF KilledProcess
  <2>4. CASE PowerLoss
    BY <1>0, <2>2, <2>4 DEF PowerLoss, StableCount, DiskInv
  <2>5. CASE PowerLossNoFile
    BY <1>0, <2>2, <2>5 DEF PowerLossNoFile, StableCount, Least, DiskInv, Honest
  <2>6. CASE PowerLossUndoRename
    BY <1>0, <2>2, <2>6 DEF PowerLossUndoRename, DiskInv
  <2> QED
    BY <1>10, <2>3, <2>4, <2>5, <2>6 DEF Crash
<1>11. CASE Start
  <2>1. log' = log /\ synced' = synced /\ UNCHANGED <<outcome, got>>
    BY <1>0, <1>11, SubSeqFull DEF Start, Least, Honest, TypeOK
  <2> QED
    BY <1>2, <2>1
<1> QED
  BY <1>2, <1>3, <1>4, <1>5, <1>6, <1>7, <1>8, <1>9, <1>10, <1>11
     DEF Next, CallerStep, WorkerStep

-----------------------------------------------------------------------------
(* Theorems.                                                                *)

(* A new directory satisfies the invariant.                                 *)
LEMMA InitInv == Honest /\ Init => WalInv
<1> SUFFICES ASSUME Honest, Init PROVE WalInv
  OBVIOUS
<1>1. <<>> \in Seq(Ticket) /\ <<>> \in Seq(Nat) /\ <<>> \in Seq(Record)
  BY EmptySeq
<1>2. TypeOK
  BY <1>1 DEF Init, TypeOK
<1>3. DiskInv /\ WriterInv
  BY DEF Init, DiskInv, WriterInv, Working, InBatch, NoTear
<1>4. BatchInv /\ PromiseInv
  BY DEF Init, BatchInv, PromiseInv, LsnsMatch, InBatch
<1> QED
  BY <1>2, <1>3, <1>4 DEF WalInv

(* The inductive invariant holds for any number of callers, any queue,      *)
(* batch and segment size and any number of crashes.                        *)
THEOREM WalInvariant == ASSUME Honest PROVE Spec => []WalInv
<1>1. WalInv /\ [Next]_vars => WalInv'
  BY TypeStep, DiskStep, WriterStep, BatchStep, PromiseStep DEF WalInv
<1>2. Init => WalInv
  BY InitInv
<1> QED
  BY <1>1, <1>2, PTL DEF Spec

(* Every variable keeps its type.                                           *)
THEOREM TypeCorrect == ASSUME Honest PROVE Spec => []TypeOK
BY WalInvariant, PTL DEF WalInv

(* durable_accepted is kept: through kills, power losses, failed writes,    *)
(* rotations and restarts the record stays at the LSN its caller was given. *)
THEOREM DurableRecordsStay == ASSUME Honest PROVE Spec => []DurableStays
<1>1. WalInv => DurableStays
  <2> SUFFICES ASSUME WalInv PROVE DurableStays
    OBVIOUS
  <2>1. Readable = Len(log) /\ Len(log) \in Nat /\ synced \in Nat /\ MaxLsn \in Nat
    BY ReadsAll, LenProperties, WalConstants DEF WalInv, TypeOK
  <2> QED
    BY <2>1 DEF DurableStays, LsnsLeft, WalInv, PromiseInv, DiskInv
<1> QED
  BY <1>1, WalInvariant, PTL

(* start() accepts the directory any crash leaves behind.                   *)
THEOREM RestartIsAccepted == ASSUME Honest PROVE Spec => []RestartAccepts
<1>1. WalInv => RestartAccepts
  BY DEF WalInv, WriterInv, RestartAccepts
<1> QED
  BY <1>1, WalInvariant, PTL

-----------------------------------------------------------------------------
(* The order of the calls.                                                  *)

(* What waits for the worker is the end of what was accepted, in order.     *)
LEMMA QueueStep == Honest /\ OrderInv /\ [Next]_vars => QueueInv'
<1> SUFFICES ASSUME Honest, TypeOK, BatchInv, QueueInv, LogInv, [Next]_vars PROVE QueueInv'
  BY DEF OrderInv, WalInv
<1> USE DEF worker, files, disk, caller, WorkerFrame
<1> DEFINE A == Len(admitted)
           B == Len(batch)
           Q == Len(queue)
<1>s. /\ admitted \in Seq(Ticket) /\ queue \in Seq(Ticket)
      /\ batch \in Seq(Ticket) /\ lsns \in Seq(Nat)
  BY DEF TypeOK
<1>n. /\ A \in Nat /\ B \in Nat /\ Q \in Nat /\ done \in Nat /\ Past \in Nat
      /\ A = Past + B + Q /\ done <= B
      /\ Past' = Len(admitted') - Len(batch') - Len(queue')
      /\ Len(<<>>) = 0 /\ (B = 0 <=> batch = <<>>)
  BY <1>s, LenProperties, EmptySeq DEF TypeOK, Past, QueueInv, BatchInv
<1>e. \A i \in 1..A : admitted[i] \in Ticket
  BY <1>s, ElementOfSeq
<1>b. \A i \in 1..B : batch[i] = admitted[Past + i]
  BY DEF QueueInv
<1>q. \A i \in 1..Q : queue[i] = admitted[Past + B + i]
  BY DEF QueueInv
<1>u. \A i, j \in 1..A : admitted[i] = admitted[j] => i = j
  BY DEF QueueInv
<1>o. \A i \in 1..A : IF i <= Past + done THEN outcome[admitted[i]] \notin {"new", "pending"}
                                          ELSE outcome[admitted[i]] = "pending"
  BY DEF QueueInv
<1>i. ~InBatch /\ pc \notin {"collect", "fail"} => batch = <<>>
  BY DEF QueueInv
<1> HIDE DEF A, B, Q
<1>2. ASSUME NEW t \in Ticket, AppendOk(t) PROVE QueueInv'
  <2>1. /\ Len(admitted') = A + 1 /\ admitted'[A + 1] = t
        /\ \A i \in 1..A : admitted'[i] = admitted[i]
        /\ Len(queue') = Q + 1 /\ queue'[Q + 1] = t
        /\ \A i \in 1..Q : queue'[i] = queue[i]
    BY <1>s, <1>2, AppendProperties DEF AppendOk, A, Q
  <2>2. /\ UNCHANGED <<pc, batch, done>> /\ Len(batch') = B
        /\ outcome' = [outcome EXCEPT ![t] = "pending"] /\ outcome[t] = "new"
    BY <1>2 DEF AppendOk, B
  <2>3. \A i \in 1..A : admitted[i] # t
    BY <1>o, <2>2
  <2>4. \A i \in 1..A : outcome'[admitted[i]] = outcome[admitted[i]]
    BY <1>e, <2>2, <2>3 DEF TypeOK
  <2>5. outcome'[t] = "pending"
    BY <2>2 DEF TypeOK
  <2>6. Past' = Past
    BY <1>n, <2>1, <2>2
  <2>7. ASSUME NEW i \in 1..(A + 1)
        PROVE  IF i <= Past + done THEN outcome'[admitted'[i]] \notin {"new", "pending"}
                                   ELSE outcome'[admitted'[i]] = "pending"
    <3>1. CASE i = A + 1
      BY <1>n, <2>1, <2>5, <3>1
    <3>2. CASE i # A + 1
      <4>1. i \in 1..A /\ admitted'[i] = admitted[i]
        BY <1>n, <2>1, <3>2
      <4> QED
        BY <1>o, <2>4, <4>1
    <3> QED
      BY <3>1, <3>2
  <2>8. ASSUME NEW i \in 1..(A + 1), NEW j \in 1..(A + 1), admitted'[i] = admitted'[j]
        PROVE  i = j
    <3>1. \A k \in 1..(A + 1) : k = A + 1 \/ k \in 1..A
      BY <1>n
    <3> QED
      BY <1>u, <2>1, <2>3, <2>8, <3>1
  <2>9. ASSUME NEW i \in 1..(Q + 1) PROVE queue'[i] = admitted'[Past + B + i]
    <3>1. CASE i = Q + 1
      BY <1>n, <2>1, <3>1
    <3>2. CASE i # Q + 1
      <4>1. i \in 1..Q /\ Past + B + i \in 1..A
        BY <1>n, <3>2
      <4> QED
        BY <1>q, <2>1, <4>1
    <3> QED
      BY <3>1, <3>2
  <2>10. ASSUME NEW i \in 1..B PROVE batch'[i] = admitted'[Past + i]
    <3>1. Past + i \in 1..A
      BY <1>n
    <3> QED
      BY <1>b, <2>1, <2>2, <3>1
  <2> QED
    BY <1>n, <1>i, <2>1, <2>2, <2>6, <2>7, <2>8, <2>9, <2>10 DEF QueueInv, InBatch
<1>3. ASSUME NEW t \in Ticket, AppendRefused(t) PROVE QueueInv'
  <2>1. /\ UNCHANGED <<pc, batch, done, queue, admitted>>
        /\ outcome' = [outcome EXCEPT ![t] = "refused"] /\ outcome[t] = "new"
    BY <1>3 DEF AppendRefused
  <2>2. \A i \in 1..A : admitted[i] # t
    BY <1>o, <2>1
  <2>3. \A i \in 1..A : outcome'[admitted[i]] = outcome[admitted[i]]
    BY <1>e, <2>1, <2>2 DEF TypeOK
  <2>4. Past' = Past
    BY <2>1 DEF Past
  <2>5. \A i \in 1..A : IF i <= Past + done THEN outcome'[admitted[i]] \notin {"new", "pending"}
                                             ELSE outcome'[admitted[i]] = "pending"
    BY <1>o, <2>3
  <2>6. /\ ~InBatch' /\ pc' \notin {"collect", "fail"} => batch' = <<>>
        /\ \A i \in 1..Len(batch') : batch'[i] = admitted'[Past' + i]
        /\ \A i \in 1..Len(queue') : queue'[i] = admitted'[Past' + Len(batch') + i]
    BY <1>i, <1>b, <1>q, <2>1, <2>4 DEF InBatch, B, Q
  <2>7. /\ \A i, j \in 1..Len(admitted') : admitted'[i] = admitted'[j] => i = j
        /\ \A i \in 1..Len(admitted') :
              IF i <= Past' + done' THEN outcome'[admitted'[i]] \notin {"new", "pending"}
                                    ELSE outcome'[admitted'[i]] = "pending"
    BY <1>u, <2>1, <2>4, <2>5 DEF A
  <2> QED
    BY <1>n, <2>4, <2>6, <2>7 DEF QueueInv
<1>4. CASE TakeOne
  <2>1. /\ queue # <<>> /\ UNCHANGED <<admitted, outcome, done>> /\ pc' = "collect"
        /\ batch' = Append(batch, Head(queue)) /\ queue' = Tail(queue)
        /\ pc \in {"idle", "collect"}
    BY <1>4 DEF TakeOne
  <2>2. /\ Head(queue) \in Ticket /\ Head(queue) = queue[1] /\ Q # 0
        /\ Len(queue') = Q - 1 /\ \A i \in 1..(Q - 1) : queue'[i] = queue[i + 1]
    BY <1>s, <2>1, HeadTailProperties, EmptySeq DEF Q
  <2>3. /\ Len(batch') = B + 1 /\ batch'[B + 1] = queue[1]
        /\ \A i \in 1..B : batch'[i] = batch[i]
    BY <1>s, <2>1, <2>2, AppendProperties DEF B
  <2>4. Past' = Past /\ done = 0
    BY <1>n, <2>1, <2>2, <2>3, SMTT(60) DEF A, BatchInv
  <2>5. ASSUME NEW i \in 1..(B + 1) PROVE batch'[i] = admitted[Past + i]
    <3>1. CASE i = B + 1
      <4>1. 1 \in 1..Q /\ Past + B + 1 = Past + i
        BY <1>n, <2>2, <3>1
      <4>2. queue[1] = admitted[Past + B + 1]
        BY <1>q, <4>1
      <4> QED
        BY <2>3, <3>1, <4>1, <4>2
    <3>2. CASE i # B + 1
      <4>1. i \in 1..B
        BY <1>n, <3>2
      <4> QED
        BY <1>b, <2>3, <4>1
    <3> QED
      BY <3>1, <3>2
  <2>6. ASSUME NEW i \in 1..(Q - 1) PROVE queue'[i] = admitted[Past + (B + 1) + i]
    <3>1. i + 1 \in 1..Q /\ Past + B + (i + 1) = Past + (B + 1) + i
      BY <1>n, <2>2
    <3>2. queue[i + 1] = admitted[Past + B + (i + 1)]
      BY <1>q, <3>1
    <3> QED
      BY <2>2, <3>1, <3>2
  <2>7. /\ ~InBatch' /\ pc' \notin {"collect", "fail"} => batch' = <<>>
        /\ \A i \in 1..Len(batch') : batch'[i] = admitted'[Past' + i]
        /\ \A i \in 1..Len(queue') : queue'[i] = admitted'[Past' + Len(batch') + i]
    BY <2>1, <2>2, <2>3, <2>4, <2>5, <2>6
  <2>8. /\ \A i, j \in 1..Len(admitted') : admitted'[i] = admitted'[j] => i = j
        /\ \A i \in 1..Len(admitted') :
              IF i <= Past' + done' THEN outcome'[admitted'[i]] \notin {"new", "pending"}
                                    ELSE outcome'[admitted'[i]] = "pending"
    BY <1>u, <1>o, <2>1, <2>4 DEF A
  <2> QED
    BY <1>n, <2>4, <2>7, <2>8 DEF QueueInv
<1>5. CASE CloseBatch \/ CreateSegment \/ WriteHeader \/ RotateSync \/ RotateRename
           \/ RotateSyncDir \/ WriteRecord \/ EndWrites \/ SyncBatch \/ IoError
  <2>1. /\ UNCHANGED <<queue, batch, admitted, done, outcome>>
        /\ InBatch' \/ pc' = "fail"
    BY <1>5 DEF CloseBatch, CreateSegment, WriteHeader, RotateSync, RotateRename,
                RotateSyncDir, WriteRecord, EndWrites, SyncBatch, IoError, MoreToWrite, InBatch
  <2>2. Past' = Past
    BY <2>1 DEF Past
  <2> QED
    BY <1>n, <1>b, <1>q, <1>u, <1>o, <2>1, <2>2, ZenonT(60) DEF QueueInv, A, B, Q
<1>6. CASE Shutdown \/ WorkerExit \/ SetFault \/ StartRefused \/ Start \/ UNCHANGED vars
  <2>1. /\ UNCHANGED <<queue, batch, admitted, done, outcome>>
        /\ pc' = pc \/ pc \in {"idle", "setfault", "down"}
    BY <1>6 DEF Shutdown, WorkerExit, SetFault, StartRefused, Start, vars
  <2>2. Past' = Past
    BY <2>1 DEF Past
  <2> QED
    BY <1>n, <1>i, <1>b, <1>q, <1>u, <1>o, <2>1, <2>2, ZenonT(60) DEF QueueInv, InBatch, A, B, Q
<1>7. CASE Fulfil
  <2> DEFINE t == batch[done + 1]
  <2>1. /\ pc = "fulfil" /\ UNCHANGED <<pc, queue, batch, admitted>> /\ done' = done + 1
        /\ outcome' = [outcome EXCEPT ![t] = AdmissionStatus(t)] /\ done < B
    BY <1>7 DEF Fulfil, B
  <2>2. done + 1 \in 1..B /\ Past + (done + 1) \in 1..A /\ Past + (done + 1) = Past + done + 1
    BY <1>n, <2>1
  <2>3. t = admitted[Past + (done + 1)] /\ t \in Ticket
    BY <1>b, <1>e, <2>2
  <2>4. outcome'[t] \in {"relaxed", "durable"}
    BY <2>1, <2>3 DEF AdmissionStatus, TypeOK
  <2>5. \A i \in 1..A : i # Past + (done + 1) => admitted[i] # t
    BY <1>u, <2>2, <2>3
  <2> HIDE DEF t
  <2>6. \A i \in 1..A :
           i # Past + (done + 1) => outcome'[admitted[i]] = outcome[admitted[i]]
    BY <1>e, <2>1, <2>5 DEF TypeOK
  <2>7. ASSUME NEW i \in 1..A
        PROVE  IF i <= Past + (done + 1) THEN outcome'[admitted[i]] \notin {"new", "pending"}
                                         ELSE outcome'[admitted[i]] = "pending"
    <3>1. CASE i = Past + (done + 1)
      BY <1>n, <2>2, <2>3, <2>4, <3>1
    <3>2. CASE i # Past + (done + 1)
      <4>1. i <= Past + (done + 1) <=> i <= Past + done
        BY <1>n, <3>2
      <4> QED
        BY <1>o, <2>6, <3>2, <4>1
    <3> QED
      BY <3>1, <3>2
  <2>8. Past' = Past
    BY <2>1 DEF Past
  <2> QED
    BY <1>n, <1>b, <1>q, <1>u, <1>i, <2>1, <2>7, <2>8, ZenonT(60) DEF QueueInv, InBatch, A, B, Q
<1>8. CASE FinishBatch
  <2>1. /\ UNCHANGED <<queue, admitted, outcome>> /\ batch' = <<>> /\ done' = 0
        /\ done = B /\ pc' = "idle"
    BY <1>8 DEF FinishBatch, B
  <2>2. Past' = Past + B /\ Past' \in Nat /\ Len(batch') = 0 /\ Past' + 0 = Past' /\ 1..0 = {}
    BY <1>n, <2>1 DEF A, Q
  <2>3. /\ \A i \in 1..Len(batch') : batch'[i] = admitted'[Past' + i]
        /\ \A i \in 1..Len(queue') : queue'[i] = admitted'[Past' + Len(batch') + i]
    BY <1>q, <2>1, <2>2 DEF Q
  <2>4. Past + done = Past' + done'
    <3>1. done = B /\ done' = 0
      BY <2>1
    <3> QED
      BY <2>2, <3>1
  <2>5. /\ \A i, j \in 1..Len(admitted') : admitted'[i] = admitted'[j] => i = j
        /\ \A i \in 1..Len(admitted') :
              IF i <= Past' + done' THEN outcome'[admitted'[i]] \notin {"new", "pending"}
                                    ELSE outcome'[admitted'[i]] = "pending"
    BY <1>u, <1>o, <2>1, <2>4 DEF A
  <2> QED
    BY <2>1, <2>2, <2>3, <2>5 DEF QueueInv
<1>9. CASE FailBatch
  <2>1. /\ UNCHANGED <<queue, admitted, done>> /\ batch' = <<>> /\ pc' = "setfault" /\ pc = "fail"
        /\ outcome' = [t \in Ticket |-> IF t \in Elements(batch) THEN "failed" ELSE outcome[t]]
    BY <1>9 DEF FailBatch, FailTickets
  <2>2. /\ Past' = Past + B /\ Past' \in Nat /\ done = 0 /\ Past + done = Past
        /\ Len(batch') = 0 /\ Past' + 0 = Past' /\ 1..0 = {}
    BY <1>n, <2>1 DEF BatchInv, A, Q
  <2>3. ASSUME NEW i \in 1..A
        PROVE  IF i <= Past + B THEN outcome'[admitted[i]] \notin {"new", "pending"}
                                ELSE outcome'[admitted[i]] = "pending"
    <3>0. outcome'[admitted[i]] = IF admitted[i] \in Elements(batch)
                                  THEN "failed" ELSE outcome[admitted[i]]
      BY <1>e, <2>1
    <3>1. CASE i <= Past
      BY <1>n, <1>o, <2>2, <3>0, <3>1
    <3>2. CASE i > Past /\ i <= Past + B
      <4>1. i - Past \in 1..B /\ Past + (i - Past) = i
        BY <1>n, <3>2
      <4>2. batch[i - Past] = admitted[i]
        BY <1>b, <4>1
      <4>3. admitted[i] \in Elements(batch)
        BY <4>1, <4>2 DEF Elements, B
      <4> QED
        BY <3>0, <3>2, <4>3
    <3>3. CASE i > Past + B
      <4>1. ASSUME NEW k \in 1..B PROVE batch[k] # admitted[i]
        <5>1. Past + k \in 1..A /\ Past + k # i
          BY <1>n, <3>3
        <5> QED
          BY <1>b, <1>u, <5>1
      <4>2. admitted[i] \notin Elements(batch)
        BY <4>1 DEF Elements, B
      <4>3. ~(i <= Past + done) /\ ~(i <= Past + B)
        BY <1>n, <2>2, <3>3
      <4> QED
        BY <1>o, <3>0, <4>2, <4>3
    <3> QED
      BY <1>n, <3>1, <3>2, <3>3
  <2>4. Past' + done' = Past + B
    <3>1. done' = 0
      BY <2>1, <2>2
    <3> QED
      BY <2>2, <3>1
  <2> QED
    BY <1>n, <1>q, <1>u, <2>1, <2>2, <2>3, <2>4 DEF QueueInv, A, Q
<1>10. CASE DrainQueue
  <2>1. /\ UNCHANGED <<batch, admitted, done>> /\ queue' = <<>> /\ pc = "drain" /\ pc' = "idle"
        /\ outcome' = [t \in Ticket |-> IF t \in Elements(queue) THEN "failed" ELSE outcome[t]]
    BY <1>10 DEF DrainQueue, FailTickets
  <2>2. batch = <<>> /\ B = 0 /\ done = 0
    BY <1>i, <1>n, <2>1 DEF InBatch
  <2>3. /\ Past' = A /\ Past = A - Q /\ Past + done = Past /\ Past' + done' = A
        /\ Len(queue') = 0 /\ 1..0 = {}
    BY <1>n, <2>1, <2>2 DEF A, B
  <2>4. ASSUME NEW i \in 1..A
        PROVE  outcome'[admitted[i]] \notin {"new", "pending"}
    <3>0. outcome'[admitted[i]] = IF admitted[i] \in Elements(queue)
                                  THEN "failed" ELSE outcome[admitted[i]]
      BY <1>e, <2>1
    <3>1. CASE i <= Past
      BY <1>o, <2>3, <3>0, <3>1
    <3>2. CASE i > Past
      <4>1. i - Past \in 1..Q /\ Past + B + (i - Past) = i
        BY <1>n, <2>2, <2>3, <3>2
      <4>2. queue[i - Past] = admitted[i]
        BY <1>q, <4>1
      <4>3. admitted[i] \in Elements(queue)
        BY <4>1, <4>2 DEF Elements, Q
      <4> QED
        BY <3>0, <4>3
    <3> QED
      BY <1>n, <3>1, <3>2
  <2>5. Len(batch') = 0 /\ Past' \in Nat /\ \A i \in 1..A : i <= A
    BY <1>n, <2>1, <2>2, <2>3
  <2> QED
    BY <1>u, <2>1, <2>2, <2>3, <2>4, <2>5 DEF QueueInv, A
<1>11. CASE Crash
  <2>1. /\ UNCHANGED admitted /\ queue' = <<>> /\ batch' = <<>> /\ done' = 0 /\ pc' = "down"
        /\ outcome' = [t \in Ticket |-> IF outcome[t] = "pending" THEN "lost" ELSE outcome[t]]
    BY <1>11 DEF Crash, KilledProcess, PowerLoss, PowerLossNoFile, PowerLossUndoRename,
                 MemoryLost
  <2>2. /\ Past' = A /\ Past' \in Nat /\ Past' + done' = A
        /\ Len(batch') = 0 /\ Len(queue') = 0 /\ 1..0 = {}
    BY <1>n, <2>1 DEF A
  <2>3. \A i \in 1..A : outcome'[admitted[i]] \notin {"new", "pending"}
    BY <1>e, <1>o, <2>1
  <2>5. \A i \in 1..A : i <= A
    BY <1>n
  <2> QED
    BY <1>u, <2>1, <2>2, <2>3, <2>5 DEF QueueInv, A
<1> QED
  BY <1>2, <1>3, <1>4, <1>5, <1>6, <1>7, <1>8, <1>9, <1>10, <1>11
     DEF Next, CallerStep, WorkerStep

(* What a step does to the answers the callers hold: only Fulfil promises.  *)
LEMMA AnswerStep ==
    ASSUME TypeOK, [Next]_vars, NEW x \in Ticket
    PROVE  /\ outcome[x] # "new" => outcome'[x] # "new"
           /\ outcome'[x] = "durable" =>
                 \/ outcome[x] = "durable" /\ got'[x] = got[x]
                 \/ Fulfil /\ x = batch[done + 1]
<1> USE DEF worker, files, disk, caller, WorkerFrame
<1>1. ASSUME NEW t \in Ticket, AppendOk(t) \/ AppendRefused(t)
      PROVE  /\ UNCHANGED got
             /\ outcome'[x] # outcome[x] => outcome'[x] \in {"pending", "refused"}
  BY <1>1 DEF AppendOk, AppendRefused, TypeOK
<1>2. CASE Shutdown \/ TakeOne \/ CloseBatch \/ WorkerExit \/ CreateSegment \/ WriteHeader
           \/ WriteRecord \/ EndWrites \/ SyncBatch \/ RotateSync \/ RotateRename
           \/ RotateSyncDir \/ IoError \/ FinishBatch \/ SetFault \/ Start \/ StartRefused
           \/ UNCHANGED vars
  BY <1>2 DEF Shutdown, TakeOne, CloseBatch, WorkerExit, CreateSegment, WriteHeader,
              WriteRecord, EndWrites, SyncBatch, RotateSync, RotateRename, RotateSyncDir,
              IoError, FinishBatch, SetFault, Start, StartRefused, vars
<1>3. CASE Fulfil
  <2>1. /\ outcome' = [outcome EXCEPT ![batch[done + 1]] = AdmissionStatus(batch[done + 1])]
        /\ got' = [got EXCEPT ![batch[done + 1]] = lsns[done + 1]]
    BY <1>3 DEF Fulfil
  <2>2. CASE x = batch[done + 1]
    BY <1>3, <2>1, <2>2 DEF AdmissionStatus, TypeOK
  <2>3. CASE x # batch[done + 1]
    BY <2>1, <2>3 DEF TypeOK
  <2> QED
    BY <2>2, <2>3
<1>4. CASE FailBatch \/ DrainQueue \/ Crash
  <2>1. /\ UNCHANGED got
        /\ outcome'[x] # outcome[x] => outcome'[x] \in {"failed", "lost"}
    BY <1>4 DEF FailBatch, DrainQueue, FailTickets, Crash, KilledProcess, PowerLoss,
                PowerLossNoFile, PowerLossUndoRename, MemoryLost
  <2> QED
    BY <2>1
<1> QED
  BY <1>1, <1>2, <1>3, <1>4 DEF Next, CallerStep, WorkerStep

(* The log grows by one record at a time; a crash may cut it back.          *)
LEMMA LogShape ==
    ASSUME Honest, TypeOK, DiskInv, [Next]_vars
    PROVE  \/ WriteRecord
           \/ Start /\ log' = log
           \/ Crash /\ Len(log') \in 0..Len(log) /\ \A i \in 1..Len(log') : log'[i] = log[i]
           \/ ~Start /\ ~Crash /\ log' = log
<1> USE DEF worker, files, disk, caller, WorkerFrame
<1>0. log \in Seq(Record) /\ Len(log) \in Nat /\ synced \in Nat /\ split \in Nat /\ csynced \in Nat
  BY LenProperties DEF TypeOK
<1>1. CASE Start
  <2>1. Readable = Len(log)
    BY ReadsAll
  <2>2. SubSeq(log, 1, Len(log)) = log
    BY <1>0, Prefix
  <2> QED
    BY <1>1, <2>1, <2>2 DEF Start
<1>2. CASE KilledProcess
  BY <1>0, <1>2 DEF KilledProcess, Crash
<1>3. CASE PowerLoss
  <2>1. PICK n \in StableCount..Len(log) : log' = SubSeq(log, 1, n)
    BY <1>3 DEF PowerLoss
  <2>2. n \in 0..Len(log)
    BY <1>0, <2>1 DEF StableCount
  <2> QED
    BY <1>0, <1>3, <2>1, <2>2, Prefix DEF Crash
<1>4. CASE PowerLossNoFile
  <2>1. PICK n \in Least(StableCount, split)..split : log' = SubSeq(log, 1, n)
    BY <1>4 DEF PowerLossNoFile
  <2>2. n \in 0..Len(log)
    BY <1>0, <2>1 DEF StableCount, Least, DiskInv
  <2> QED
    BY <1>0, <1>4, <2>1, <2>2, Prefix DEF Crash
<1>5. CASE PowerLossUndoRename
  <2>1. log' = SubSeq(log, 1, split) /\ split \in 0..Len(log)
    BY <1>0, <1>5 DEF PowerLossUndoRename, DiskInv
  <2> QED
    BY <1>0, <1>5, <2>1, Prefix DEF Crash
<1>6. ASSUME ~Start, ~Crash, ~WriteRecord PROVE log' = log
  BY <1>6 DEF Next, CallerStep, WorkerStep, AppendOk, AppendRefused, Shutdown, TakeOne, CloseBatch,
              WorkerExit, CreateSegment, WriteHeader, EndWrites, SyncBatch, RotateSync,
              RotateRename, RotateSyncDir, IoError, FinishBatch, SetFault, StartRefused,
              Fulfil, FailBatch, DrainQueue, vars
<1> QED
  BY <1>1, <1>2, <1>3, <1>4, <1>5, <1>6 DEF Crash

(* The calls whose records have been written, or will never be.             *)
Reach == Past + Len(lsns)

(* A step only moves the written calls forward, and only append() admits    *)
(* one.                                                                     *)
LEMMA ReachStep ==
    ASSUME TypeOK, QueueInv, LogInv, [Next]_vars
    PROVE  /\ Reach \in Nat /\ Reach' \in Nat /\ Reach <= Reach'
           /\ Len(lsns') <= Len(batch')
           /\ UNCHANGED admitted \/ \E t \in Ticket : AppendOk(t)
<1> USE DEF worker, files, disk, caller, WorkerFrame
<1> DEFINE A == Len(admitted)
           B == Len(batch)
           Q == Len(queue)
           L == Len(lsns)
<1>s. /\ admitted \in Seq(Ticket) /\ queue \in Seq(Ticket)
      /\ batch \in Seq(Ticket) /\ lsns \in Seq(Nat)
  BY DEF TypeOK
<1>n. /\ A \in Nat /\ B \in Nat /\ Q \in Nat /\ L \in Nat /\ Past \in Nat
      /\ A = Past + B + Q /\ L <= B /\ Reach = Past + L
      /\ Past' = Len(admitted') - Len(batch') - Len(queue')
      /\ Reach' = Past' + Len(lsns')
      /\ Len(<<>>) = 0
  BY <1>s, LenProperties, EmptySeq DEF TypeOK, Past, QueueInv, LogInv, Reach
<1> HIDE DEF A, B, Q, L
<1>1. ASSUME NEW t \in Ticket, AppendOk(t)
      PROVE  Reach' \in Nat /\ Reach <= Reach' /\ Len(lsns') <= Len(batch')
  <2>1. /\ Len(admitted') = A + 1 /\ Len(queue') = Q + 1 /\ Len(batch') = B /\ Len(lsns') = L
    BY <1>s, <1>1, AppendProperties DEF AppendOk, A, Q, B, L
  <2> QED
    BY <1>n, <2>1
<1>2. ASSUME UNCHANGED <<admitted, batch, queue, lsns>>
      PROVE  Reach' \in Nat /\ Reach <= Reach' /\ Len(lsns') <= Len(batch')
  BY <1>2, <1>n DEF A, B, Q, L
<1>3. CASE TakeOne
  <2>1. /\ UNCHANGED <<admitted, lsns>> /\ queue # <<>>
        /\ batch' = Append(batch, Head(queue)) /\ queue' = Tail(queue)
    BY <1>3 DEF TakeOne
  <2>2. Len(queue') = Q - 1 /\ Len(batch') = B + 1 /\ Len(admitted') = A /\ Len(lsns') = L
    BY <1>s, <2>1, HeadTailProperties, AppendProperties DEF A, B, Q, L
  <2> QED
    BY <1>n, <2>1, <2>2
<1>4. CASE WriteRecord
  <2>1. /\ UNCHANGED <<admitted, batch, queue>> /\ lsns' = Append(lsns, nextLsn) /\ L < B
        /\ nextLsn \in Nat
    BY <1>4 DEF WriteRecord, MoreToWrite, L, B, TypeOK
  <2>2. Len(lsns') = L + 1 /\ Len(admitted') = A /\ Len(batch') = B /\ Len(queue') = Q
    BY <1>s, <2>1, AppendProperties DEF A, B, Q, L
  <2> QED
    BY <1>n, <2>1, <2>2
<1>5. CASE FinishBatch \/ FailBatch
  <2>1. UNCHANGED <<admitted, queue>> /\ batch' = <<>> /\ lsns' = <<>>
    BY <1>5 DEF FinishBatch, FailBatch
  <2> QED
    BY <1>n, <2>1 DEF A, Q
<1>6. CASE DrainQueue
  <2>1. UNCHANGED <<admitted, batch, lsns>> /\ queue' = <<>>
    BY <1>6 DEF DrainQueue
  <2> QED
    BY <1>n, <2>1 DEF A, B, L
<1>7. CASE Crash
  <2>1. UNCHANGED admitted /\ batch' = <<>> /\ lsns' = <<>> /\ queue' = <<>>
    BY <1>7 DEF Crash, KilledProcess, PowerLoss, PowerLossNoFile, PowerLossUndoRename,
                MemoryLost
  <2> QED
    BY <1>n, <2>1 DEF A
<1>8. \/ UNCHANGED <<admitted, batch, queue, lsns>>
      \/ \E t \in Ticket : AppendOk(t)
      \/ TakeOne \/ WriteRecord \/ FinishBatch \/ FailBatch \/ DrainQueue \/ Crash
  BY DEF Next, CallerStep, WorkerStep, AppendRefused, Shutdown, CloseBatch, WorkerExit,
         CreateSegment, WriteHeader, EndWrites, SyncBatch, RotateSync, RotateRename,
         RotateSyncDir, IoError, SetFault, StartRefused, Start, Fulfil, vars
<1>9. UNCHANGED admitted \/ \E t \in Ticket : AppendOk(t)
  BY <1>8 DEF TakeOne, WriteRecord, FinishBatch, FailBatch, DrainQueue, Crash, KilledProcess,
              PowerLoss, PowerLossNoFile, PowerLossUndoRename, MemoryLost
<1> QED
  BY <1>1, <1>2, <1>3, <1>4, <1>5, <1>6, <1>7, <1>8, <1>9, <1>n

(* No call is written twice, and none before its turn.                      *)
LEMMA LogStep == Honest /\ OrderInv /\ [Next]_vars => LogInv'
<1> SUFFICES ASSUME Honest, TypeOK, DiskInv, BatchInv, QueueInv, LogInv, [Next]_vars PROVE LogInv'
  BY DEF OrderInv, WalInv
<1> USE DEF worker, files, disk, caller, WorkerFrame
<1> DEFINE A == Len(admitted)
           B == Len(batch)
           L == Len(lsns)
           N == Len(log)
<1>r. /\ Reach \in Nat /\ Reach' \in Nat /\ Reach <= Reach'
      /\ Len(lsns') <= Len(batch')
      /\ UNCHANGED admitted \/ \E t \in Ticket : AppendOk(t)
  BY ReachStep
<1>s. /\ admitted \in Seq(Ticket) /\ log \in Seq(Record) /\ batch \in Seq(Ticket)
      /\ N \in Nat /\ A \in Nat /\ L \in Nat /\ B \in Nat
  BY LenProperties DEF TypeOK
<1>t. \A i \in 1..N : log[i].ticket \in Ticket
  <2>1. \A i \in 1..N : log[i] \in Record
    BY <1>s, ElementOfSeq
  <2> QED
    BY <2>1 DEF Record
<1>b. \A i \in 1..N : outcome[log[i].ticket] # "new"
  BY DEF LogInv
<1>c. \A i, j \in 1..N : log[i].ticket = log[j].ticket => i = j
  BY DEF LogInv
<1>d. \A i \in 1..N, j \in 1..A : j > Reach => log[i].ticket # admitted[j]
  BY DEF LogInv, Reach
<1>l. LogInv' <=> /\ Len(lsns') <= Len(batch')
                  /\ \A i \in 1..Len(log') : outcome'[log'[i].ticket] # "new"
                  /\ \A i, j \in 1..Len(log') : log'[i].ticket = log'[j].ticket => i = j
                  /\ \A i \in 1..Len(log'), j \in 1..Len(admitted') :
                        j > Reach' => log'[i].ticket # admitted'[j]
  BY DEF LogInv, Reach
<1> HIDE DEF A, B, L, N
<1>a. ASSUME NEW i \in 1..N, NEW j \in 1..Len(admitted'), j > Reach'
      PROVE  log[i].ticket # admitted'[j]
  <2>1. CASE UNCHANGED admitted
    <3>1. j \in 1..A /\ j > Reach
      BY <1>r, <1>a, <2>1 DEF A
    <3> QED
      BY <1>d, <2>1, <3>1
  <2>2. ASSUME NEW t \in Ticket, AppendOk(t) PROVE log[i].ticket # admitted'[j]
    <3>1. /\ Len(admitted') = A + 1 /\ admitted'[A + 1] = t /\ outcome[t] = "new"
          /\ \A k \in 1..A : admitted'[k] = admitted[k]
      BY <1>s, <2>2, AppendProperties DEF AppendOk, A
    <3>2. CASE j = A + 1
      BY <1>b, <3>1, <3>2
    <3>3. CASE j # A + 1
      <4>1. j \in 1..A /\ j > Reach
        BY <1>r, <1>a, <1>s, <3>1, <3>3
      <4> QED
        BY <1>d, <3>1, <4>1
    <3> QED
      BY <3>2, <3>3
  <2> QED
    BY <1>r, <2>1, <2>2
<1>o. \A i \in 1..N : outcome'[log[i].ticket] # "new"
  BY <1>b, <1>t, AnswerStep
<1>1. ASSUME Len(log') \in 0..N, \A i \in 1..Len(log') : log'[i] = log[i] PROVE LogInv'
  <2>1. \A i \in 1..Len(log') : i \in 1..N
    BY <1>1, <1>s
  <2> QED
    BY <1>1, <1>r, <1>l, <1>a, <1>o, <1>c, <2>1, SMTT(60)
<1>2. CASE WriteRecord
  <2> DEFINE t == batch[L + 1]
  <2>1. /\ L < B /\ UNCHANGED <<admitted, batch, queue, outcome>>
        /\ lsns' = Append(lsns, nextLsn) /\ nextLsn \in Nat /\ lsns \in Seq(Nat)
        /\ log' = Append(log, [lsn |-> nextLsn, ticket |-> t])
    BY <1>2 DEF WriteRecord, MoreToWrite, L, B, TypeOK
  <2>2. /\ Past \in Nat /\ Past + B <= A /\ t = admitted[Past + (L + 1)]
        /\ Reach = Past + L /\ Past' = Past /\ t \in Ticket
    <3>1. L + 1 \in 1..B
      BY <1>s, <2>1
    <3>2. t = admitted[Past + (L + 1)]
      BY <3>1 DEF QueueInv, B
    <3>3. Past \in Nat /\ Past + B <= A
      BY <1>s, LenProperties DEF QueueInv, Past, A, B, TypeOK
    <3>4. t \in Ticket
      BY <1>s, <3>1, ElementOfSeq DEF B
    <3>5. Past' = Past
      BY <2>1 DEF Past
    <3> QED
      BY <3>2, <3>3, <3>4, <3>5 DEF Reach, L
  <2>3. Len(lsns') = L + 1 /\ Reach' = Past + (L + 1) /\ Reach' \in 1..A /\ Reach' > Reach
    BY <1>s, <2>1, <2>2, AppendProperties, SMTT(60) DEF L, Reach
  <2> HIDE DEF t
  <2>4. [lsn |-> nextLsn, ticket |-> t] \in Record
    BY <2>1, <2>2 DEF Record
  <2>5. /\ Len(log') = N + 1 /\ log'[N + 1].ticket = t
        /\ \A i \in 1..N : log'[i] = log[i]
    BY <1>s, <2>1, <2>4, AppendProperties DEF N
  <2>6. t = admitted[Reach']
    BY <2>2, <2>3
  <2>7. \A i \in 1..N : log[i].ticket # t
    BY <1>d, <2>3, <2>6
  <2>8. \A i \in 1..A : outcome[admitted[i]] # "new"
    BY DEF QueueInv, A
  <2>9. outcome'[t] # "new"
    BY <2>1, <2>3, <2>6, <2>8
  <2>10. \A i \in 1..(N + 1) : i = N + 1 \/ i \in 1..N
    BY <1>s
  <2>11. \A i \in 1..Len(log') : outcome'[log'[i].ticket] # "new"
    BY <1>o, <2>5, <2>9, <2>10
  <2>12. \A i, j \in 1..Len(log') : log'[i].ticket = log'[j].ticket => i = j
    BY <1>c, <2>5, <2>7, <2>10
  <2>13. ASSUME NEW i \in 1..Len(log'), NEW j \in 1..Len(admitted'), j > Reach'
         PROVE  log'[i].ticket # admitted'[j]
    <3>1. CASE i \in 1..N
      BY <1>a, <2>5, <2>13, <3>1
    <3>2. CASE i = N + 1
      <4>1. j \in 1..A /\ j # Reach' /\ admitted' = admitted
        BY <2>1, <2>3, <2>13 DEF A
      <4>2. admitted[j] # admitted[Reach']
        BY <2>3, <4>1 DEF QueueInv, A
      <4> QED
        BY <2>5, <2>6, <3>2, <4>1, <4>2
    <3> QED
      BY <2>5, <2>10, <3>1, <3>2
  <2> QED
    BY <1>l, <1>r, <2>11, <2>12, <2>13
<1>3. WriteRecord \/ (Len(log') \in 0..N /\ \A i \in 1..Len(log') : log'[i] = log[i])
  BY LogShape, <1>s DEF N
<1> QED
  BY <1>1, <1>2, <1>3

(* LSNs rise along the batch, and lie above every LSN promised before it.   *)
LEMMA OrderStep == Honest /\ OrderInv /\ [Next]_vars => PromiseOrder'
<1> SUFFICES ASSUME Honest, TypeOK, DiskInv, WriterInv, BatchInv, PromiseInv, QueueInv,
                    LogInv, PromiseOrder, [Next]_vars
             PROVE  PromiseOrder'
  BY DEF OrderInv, WalInv
<1> USE DEF worker, files, disk, caller, WorkerFrame
<1> DEFINE A == Len(admitted)
           B == Len(batch)
           L == Len(lsns)
           N == Len(log)
<1>s. /\ admitted \in Seq(Ticket) /\ log \in Seq(Record) /\ batch \in Seq(Ticket)
      /\ lsns \in Seq(Nat)
  BY DEF TypeOK
<1>n. /\ A \in Nat /\ B \in Nat /\ L \in Nat /\ N \in Nat /\ done \in Nat /\ Past \in Nat
      /\ Past + B <= A /\ L <= B /\ done <= B /\ MaxLsn \in Nat /\ synced <= N /\ synced \in Nat
      /\ (pc = "fulfil" => L = B) /\ (pc # "fulfil" => done = 0)
      /\ (~InBatch /\ pc # "fail" => lsns = <<>>) /\ Len(<<>>) = 0
      /\ Written = N - L
  BY <1>s, LenProperties, EmptySeq, WalConstants, SMTT(60)
     DEF TypeOK, QueueInv, LogInv, BatchInv, Past, DiskInv, LsnsMatch, Written
<1>e. \A i \in 1..A : admitted[i] \in Ticket
  BY <1>s, ElementOfSeq
<1>g. \A x \in Ticket : outcome[x] = "durable" => got[x] \in 1..synced
  BY DEF PromiseInv
<1>k. \A x \in Ticket : got[x] \in Nat
  BY DEF TypeOK
<1>b. \A i \in 1..B : batch[i] = admitted[Past + i]
  BY DEF QueueInv
<1>u. \A i, j \in 1..A : admitted[i] = admitted[j] => i = j
  BY DEF QueueInv
<1>o. \A i \in 1..A : IF i <= Past + done THEN outcome[admitted[i]] \notin {"new", "pending"}
                                          ELSE outcome[admitted[i]] = "pending"
  BY DEF QueueInv
<1>p. InBatch =>
        /\ Written \in Nat
        /\ \A i \in 1..L : lsns[i] = Least(Written + i, MaxLsn) /\ log[Written + i].ticket = batch[i]
        /\ \A i \in 1..Past : outcome[admitted[i]] = "durable" => got[admitted[i]] <= Written
        /\ \A i \in 1..done : outcome[batch[i]] = "durable" => got[batch[i]] = lsns[i]
  BY DEF PromiseOrder
<1>q. \A i, j \in 1..A :
         /\ i < j /\ got[admitted[j]] < MaxLsn
         /\ outcome[admitted[i]] = "durable" /\ outcome[admitted[j]] = "durable"
         => got[admitted[i]] < got[admitted[j]]
  BY DEF PromiseOrder
<1>h. ASSUME NEW x \in Ticket
      PROVE  outcome'[x] = "durable" =>
                \/ outcome[x] = "durable" /\ got'[x] = got[x]
                \/ Fulfil /\ x = batch[done + 1]
  BY AnswerStep
<1> HIDE DEF A, B, L, N
<1>1. ASSUME ~Fulfil
      PROVE  \A i, j \in 1..Len(admitted') :
                /\ i < j /\ got'[admitted'[j]] < MaxLsn
                /\ outcome'[admitted'[i]] = "durable" /\ outcome'[admitted'[j]] = "durable"
                => got'[admitted'[i]] < got'[admitted'[j]]
  <2>1. CASE UNCHANGED admitted
    BY <1>1, <1>e, <1>h, <1>q, <2>1 DEF A
  <2>2. ASSUME NEW t \in Ticket, AppendOk(t)
        PROVE  \A i \in 1..Len(admitted') : outcome'[admitted'[i]] = "durable"
                  => i \in 1..A /\ admitted'[i] = admitted[i]
    <3>1. /\ Len(admitted') = A + 1 /\ admitted'[A + 1] = t /\ outcome'[t] = "pending"
          /\ \A k \in 1..A : admitted'[k] = admitted[k]
      BY <1>s, <2>2, AppendProperties DEF AppendOk, A, TypeOK
    <3>2. \A i \in 1..(A + 1) : i = A + 1 \/ i \in 1..A
      BY <1>n
    <3> QED
      BY <3>1, <3>2
  <2>3. ASSUME NEW t \in Ticket, AppendOk(t)
        PROVE  \A i, j \in 1..Len(admitted') :
                /\ i < j /\ got'[admitted'[j]] < MaxLsn
                /\ outcome'[admitted'[i]] = "durable" /\ outcome'[admitted'[j]] = "durable"
                => got'[admitted'[i]] < got'[admitted'[j]]
    BY <1>1, <1>e, <1>h, <1>q, <2>2, <2>3
  <2> QED
    BY <2>1, <2>3, ReachStep
<1>2. CASE InBatch /\ UNCHANGED <<pc, lsns, log, batch, done, got>> /\ ~Fulfil
           /\ Past' = Past /\ \A i \in 1..A : admitted'[i] = admitted[i]
  <2>1. Written' = Written /\ Len(lsns') = L
    BY <1>2 DEF Written, L
  <2>2. ASSUME NEW i \in 1..Past, outcome'[admitted'[i]] = "durable"
        PROVE  got'[admitted'[i]] <= Written
    <3>1. i \in 1..A
      BY <1>n
    <3> QED
      BY <1>2, <1>e, <1>h, <1>p, <2>2, <3>1
  <2>3. ASSUME NEW i \in 1..done, outcome'[batch[i]] = "durable"
        PROVE  got'[batch[i]] = lsns[i]
    <3>1. i \in 1..B
      BY <1>n
    <3>2. batch[i] \in Ticket
      BY <1>s, <3>1, ElementOfSeq DEF B
    <3> QED
      BY <1>2, <1>h, <1>p, <2>3, <3>2
  <2> QED
    BY <1>1, <1>2, <1>p, <2>1, <2>2, <2>3 DEF PromiseOrder, InBatch, L
<1>3. ASSUME NEW t \in Ticket, AppendOk(t) PROVE PromiseOrder'
  <2>1. /\ UNCHANGED <<pc, lsns, log, batch, done, got>> /\ ~Fulfil
        /\ Len(admitted') = A + 1 /\ \A k \in 1..A : admitted'[k] = admitted[k]
        /\ Len(queue') = Len(queue) + 1
    <3>1. queue \in Seq(Ticket)
      BY DEF TypeOK
    <3> QED
      BY <1>s, <1>3, <3>1, AppendProperties DEF AppendOk, A, Fulfil, TypeOK
  <2>2. Past' = Past
    <3>1. Len(queue) \in Nat
      BY LenProperties DEF TypeOK
    <3>2. Past = A - B - Len(queue) /\ Past' = (A + 1) - B - (Len(queue) + 1)
      BY <2>1 DEF Past, A, B
    <3> QED
      BY <1>n, <3>1, <3>2
  <2>3. CASE InBatch
    BY <1>2, <2>1, <2>2, <2>3
  <2>4. CASE ~InBatch
    BY <1>1, <2>1, <2>4 DEF PromiseOrder, InBatch
  <2> QED
    BY <2>3, <2>4
<1>4. CASE Shutdown \/ CreateSegment \/ WriteHeader \/ RotateSync \/ RotateRename \/ RotateSyncDir
           \/ EndWrites \/ SyncBatch \/ UNCHANGED vars
           \/ \E t \in Ticket : AppendRefused(t)
  <2>1. UNCHANGED <<lsns, log, batch, done, got, admitted, queue>>
    BY <1>4 DEF AppendRefused, Shutdown, CreateSegment, WriteHeader, RotateSync, RotateRename,
                RotateSyncDir, EndWrites, SyncBatch, vars
  <2>2. InBatch <=> InBatch'
    BY <1>4 DEF AppendRefused, Shutdown, CreateSegment, WriteHeader, RotateSync, RotateRename,
                RotateSyncDir, EndWrites, SyncBatch, vars, InBatch, MoreToWrite
  <2>3. ~Fulfil
    BY <1>n, <2>1 DEF Fulfil
  <2>4. Past' = Past /\ Written' = Written
    BY <2>1 DEF Past, Written
  <2>5. ASSUME InBatch
        PROVE  /\ \A i \in 1..Past : outcome'[admitted[i]] = "durable" => got[admitted[i]] <= Written
               /\ \A i \in 1..done : outcome'[batch[i]] = "durable" => got[batch[i]] = lsns[i]
    <3>1. /\ \A i \in 1..Past : admitted[i] \in Ticket
          /\ \A i \in 1..done : batch[i] \in Ticket
      <4>1. (\A i \in 1..Past : i \in 1..A) /\ (\A i \in 1..done : i \in 1..B)
        BY <1>n
      <4> QED
        BY <1>e, <1>s, <4>1, ElementOfSeq DEF B
    <3> QED
      BY <1>h, <1>p, <2>3, <2>5, <3>1
  <2> QED
    BY <1>1, <1>p, <2>1, <2>2, <2>3, <2>4, <2>5 DEF PromiseOrder, L
<1>5. CASE CloseBatch
  <2>1. /\ UNCHANGED <<lsns, log, batch, done, got, admitted, queue, outcome>> /\ pc = "collect"
    BY <1>5 DEF CloseBatch
  <2>2. L = 0 /\ done = 0 /\ Written = N /\ ~Fulfil /\ 1..0 = {}
    BY <1>n, <2>1 DEF InBatch, L, Fulfil
  <2>3. Past' = Past /\ Written' = Written
    BY <2>1 DEF Past, Written
  <2>4. ASSUME NEW i \in 1..Past, outcome[admitted[i]] = "durable" PROVE got[admitted[i]] <= N
    <3>1. i \in 1..A
      BY <1>n
    <3>2. got[admitted[i]] \in 1..synced
      BY <1>g, <1>e, <2>4, <3>1
    <3> QED
      BY <1>n, <3>2, SMTT(60)
  <2> QED
    BY <1>1, <1>n, <2>1, <2>2, <2>3, <2>4 DEF PromiseOrder, L
<1>6. CASE TakeOne \/ WorkerExit \/ IoError \/ FinishBatch \/ FailBatch \/ SetFault \/ DrainQueue
           \/ Crash \/ Start \/ StartRefused
  <2>1. ~InBatch' /\ ~Fulfil
    BY <1>6 DEF TakeOne, WorkerExit, IoError, FinishBatch, FailBatch, SetFault, DrainQueue, Crash,
                KilledProcess, PowerLoss, PowerLossNoFile, PowerLossUndoRename, MemoryLost,
                Start, StartRefused, Fulfil, InBatch
  <2> QED
    BY <1>1, <2>1 DEF PromiseOrder
<1>7. CASE WriteRecord
  <2> DEFINE t == batch[L + 1]
  <2>1. /\ L < B /\ UNCHANGED <<pc, admitted, batch, queue, outcome, done, got>> /\ pc = "write"
        /\ lsns' = Append(lsns, nextLsn) /\ nextLsn \in Nat
        /\ log' = Append(log, [lsn |-> nextLsn, ticket |-> t])
    BY <1>7 DEF WriteRecord, MoreToWrite, L, B, TypeOK
  <2>2. InBatch /\ ~Fulfil /\ done = 0 /\ InBatch' /\ L + 1 \in 1..B
    BY <1>n, <2>1 DEF InBatch, Fulfil
  <2>3. nextLsn = Least(N + 1, MaxLsn)
    BY <2>1, <2>2 DEF WriterInv, Working, N
  <2>4. [lsn |-> nextLsn, ticket |-> t] \in Record
    BY <1>s, <2>1, <2>2, ElementOfSeq DEF Record, B
  <2> HIDE DEF t
  <2>5. /\ Len(log') = N + 1 /\ log'[N + 1].ticket = t /\ \A i \in 1..N : log'[i] = log[i]
        /\ Len(lsns') = L + 1 /\ lsns'[L + 1] = nextLsn /\ \A i \in 1..L : lsns'[i] = lsns[i]
    BY <1>s, <2>1, <2>4, AppendProperties DEF N, L
  <2>6. /\ Past' = Past /\ Written' = Written /\ Written \in Nat /\ Written + L = N
        /\ Written + (L + 1) = N + 1
    <3>1. Past' = Past
      BY <2>1 DEF Past
    <3>2. Written' = Len(log') - Len(lsns')
      BY DEF Written
    <3> QED
      BY <1>n, <1>p, <2>2, <2>5, <3>1, <3>2, SMTT(60)
  <2>7. ASSUME NEW i \in 1..(L + 1)
        PROVE  lsns'[i] = Least(Written + i, MaxLsn) /\ log'[Written + i].ticket = batch[i]
    <3>1. CASE i = L + 1
      BY <2>3, <2>5, <2>6, <3>1 DEF t
    <3>2. CASE i # L + 1
      <4>1. i \in 1..L /\ Written + i \in 1..N
        BY <1>n, <2>6, <3>2
      <4> QED
        BY <1>p, <2>2, <2>5, <4>1
    <3> QED
      BY <3>1, <3>2
  <2>8. 1..0 = {}
    OBVIOUS
  <2> QED
    BY <1>1, <1>p, <2>1, <2>2, <2>5, <2>6, <2>7, <2>8 DEF PromiseOrder
<1>8. CASE Fulfil
  <2> DEFINE t == batch[done + 1]
             l == lsns[done + 1]
             d == Past + (done + 1)
  <2>1. /\ pc = "fulfil" /\ UNCHANGED <<pc, queue, batch, admitted, lsns, log>> /\ done' = done + 1
        /\ got' = [got EXCEPT ![t] = l] /\ done < B
    BY <1>8 DEF Fulfil, B
  <2>2. InBatch /\ InBatch' /\ L = B /\ Past' = Past /\ Written' = Written
    BY <1>n, <2>1 DEF InBatch, Past, Written
  <2>3. done + 1 \in 1..B /\ d \in 1..A
    BY <1>n, <2>1
  <2>4. t = admitted[d] /\ t \in Ticket
    BY <1>b, <1>e, <2>3
  <2>5. l = Least(Written + (done + 1), MaxLsn) /\ Written \in Nat
    BY <1>p, <2>2, <2>3
  <2>6. got'[t] = l
    BY <2>1, <2>4 DEF TypeOK
  <2>7. \A i \in 1..A : i # d => admitted[i] # t
    BY <1>u, <2>3, <2>4
  <2> HIDE DEF t, l, d
  <2>8. \A i \in 1..A : i # d /\ outcome'[admitted[i]] = "durable" =>
           outcome[admitted[i]] = "durable" /\ got'[admitted[i]] = got[admitted[i]]
    BY <1>e, <1>h, <2>7 DEF t
  <2>9. ASSUME NEW i \in 1..Past, outcome'[admitted[i]] = "durable"
        PROVE  got'[admitted[i]] <= Written
    <3>1. i \in 1..A /\ i # d
      BY <1>n DEF d
    <3> QED
      BY <1>p, <2>2, <2>8, <2>9, <3>1
  <2>10. ASSUME NEW i \in 1..(done + 1), outcome'[batch[i]] = "durable"
         PROVE  got'[batch[i]] = lsns[i]
    <3>1. CASE i = done + 1
      BY <2>6, <3>1 DEF t, l
    <3>2. CASE i # done + 1
      <4>1. i \in 1..done /\ Past + i \in 1..A /\ Past + i # d /\ i \in 1..B
        BY <1>n, <3>2 DEF d
      <4>2. batch[i] = admitted[Past + i]
        BY <1>b, <4>1
      <4> QED
        BY <1>p, <2>2, <2>8, <2>10, <4>1, <4>2
    <3> QED
      BY <3>1, <3>2
  <2>11. ASSUME NEW i \in 1..A, NEW j \in 1..A, i < j, got'[admitted[j]] < MaxLsn,
                outcome'[admitted[i]] = "durable", outcome'[admitted[j]] = "durable"
         PROVE  got'[admitted[i]] < got'[admitted[j]]
    <3>1. CASE j # d /\ i # d
      BY <1>q, <2>8, <2>11, <3>1
    <3>2. CASE i = d
      <4>1. j # d /\ ~(j <= Past + done)
        BY <1>n, <2>11, <3>2 DEF d
      <4> QED
        BY <1>o, <2>8, <2>11, <4>1
    <3>3. CASE j = d
      <4>1. got'[admitted[j]] = Written + (done + 1)
        BY <2>3, <2>4, <2>5, <2>6, <2>11, <3>3 DEF Least
      <4>2. i # d /\ (i \in 1..Past \/ i - Past \in 1..done)
        BY <1>n, <2>11, <3>3 DEF d
      <4>3. CASE i \in 1..Past
        <5>1. got'[admitted[i]] <= Written /\ got'[admitted[i]] \in Nat
          BY <1>k, <1>e, <2>8, <2>9, <2>11, <4>2, <4>3
        <5> QED
          BY <1>n, <2>5, <4>1, <5>1
      <4>4. CASE i - Past \in 1..done
        <5>1. /\ i - Past \in 1..B /\ Past + (i - Past) = i
              /\ i - Past \in 1..L /\ i - Past \in 1..(done + 1)
          BY <1>n, <2>2, <4>4
        <5>2. batch[i - Past] = admitted[i]
          BY <1>b, <5>1
        <5>3. got'[admitted[i]] = lsns[i - Past] /\ lsns[i - Past] = Least(Written + (i - Past), MaxLsn)
          BY <1>p, <2>2, <2>10, <2>11, <5>1, <5>2
        <5>4. Least(Written + (i - Past), MaxLsn) <= Written + (i - Past)
          BY <1>n, <2>5, <4>4 DEF Least
        <5> QED
          BY <1>n, <2>5, <4>1, <4>4, <5>3, <5>4 DEF Least
      <4> QED
        BY <4>2, <4>3, <4>4
    <3> QED
      BY <3>1, <3>2, <3>3
  <2>12. \A i \in 1..L : lsns[i] = Least(Written + i, MaxLsn) /\ log[Written + i].ticket = batch[i]
    BY <1>p, <2>2
  <2>13. /\ \A i \in 1..Len(lsns') : /\ lsns'[i] = Least(Written' + i, MaxLsn)
                                     /\ log'[Written' + i].ticket = batch'[i]
         /\ \A i \in 1..Past' : outcome'[admitted'[i]] = "durable" => got'[admitted'[i]] <= Written'
         /\ \A i \in 1..done' : outcome'[batch'[i]] = "durable" => got'[batch'[i]] = lsns'[i]
         /\ Written' \in Nat
    BY <2>1, <2>2, <2>5, <2>9, <2>10, <2>12 DEF L
  <2> QED
    BY <2>1, <2>11, <2>13 DEF PromiseOrder, A
<1> QED
  BY <1>3, <1>4, <1>5, <1>6, <1>7, <1>8 DEF Next, CallerStep, WorkerStep

(* A new writer has nothing to put in order.                                *)
LEMMA InitOrder == Honest /\ Init => OrderInv
<1> SUFFICES ASSUME Honest, Init PROVE OrderInv
  OBVIOUS
<1>1. Len(<<>>) = 0 /\ 1..0 = {}
  BY EmptySeq
<1>2. Past = 0
  <2>1. Len(admitted) = 0 /\ Len(batch) = 0 /\ Len(queue) = 0
    BY <1>1 DEF Init
  <2> QED
    BY <2>1 DEF Past
<1>3. QueueInv /\ LogInv /\ PromiseOrder
  BY <1>1, <1>2 DEF Init, QueueInv, LogInv, PromiseOrder, InBatch
<1> QED
  BY <1>3, InitInv DEF OrderInv

(* What waits in the queue, what is in the log and what is promised are in *)
(* the order in which append() admitted them.                              *)
THEOREM OrderInvariant == ASSUME Honest PROVE Spec => []OrderInv
<1>1. OrderInv /\ [Next]_vars => OrderInv'
  <2>1. WalInv /\ [Next]_vars => WalInv'
    BY TypeStep, DiskStep, WriterStep, BatchStep, PromiseStep DEF WalInv
  <2> QED
    BY <2>1, QueueStep, LogStep, OrderStep DEF OrderInv
<1>2. Init => OrderInv
  BY InitOrder
<1> QED
  BY <1>1, <1>2, PTL DEF Spec

(* LSNs are promised in the order in which append() calls entered the       *)
(* queue: group commit, failures and restarts never reorder them.           *)
THEOREM PromisesFollowAdmission == ASSUME Honest PROVE Spec => []LsnsFollowAdmission
<1>1. OrderInv => LsnsFollowAdmission
  <2> SUFFICES ASSUME OrderInv, Len(log) < MaxLsn,
                      NEW i \in 1..Len(admitted), NEW j \in 1..Len(admitted), i < j,
                      outcome[admitted[i]] = "durable", outcome[admitted[j]] = "durable"
               PROVE  got[admitted[i]] < got[admitted[j]]
    BY DEF LsnsFollowAdmission, LsnsLeft
  <2>1. admitted[j] \in Ticket
    BY ElementOfSeq DEF OrderInv, WalInv, TypeOK
  <2>2. got[admitted[j]] \in 1..synced
    BY <2>1 DEF OrderInv, WalInv, PromiseInv
  <2>3. synced <= Len(log) /\ synced \in Nat /\ Len(log) \in Nat /\ MaxLsn \in Nat
    BY LenProperties, WalConstants DEF OrderInv, WalInv, DiskInv, TypeOK
  <2>4. got[admitted[j]] < MaxLsn
    BY <2>2, <2>3
  <2> QED
    BY <2>4 DEF OrderInv, PromiseOrder
<1> QED
  BY <1>1, OrderInvariant, PTL

-----------------------------------------------------------------------------
(* The writer implements DurableLog.                                        *)

(* No log outlives its LSN space: there are not more calls than LSNs.       *)
EnoughLsns == IsFiniteSet(Ticket) /\ Cardinality(Ticket) <= MaxLsn

(* As no call is written twice, the records of the log then fit.            *)
LEMMA LogFits == ASSUME EnoughLsns, TypeOK, LogInv PROVE Len(log) <= MaxLsn
<1> DEFINE N == Len(log)
           f == [i \in 1..N |-> log[i].ticket]
<1>1. N \in Nat /\ \A i \in 1..N : log[i] \in Record
  BY LenProperties, ElementOfSeq DEF TypeOK
<1>2. \A i \in 1..N : log[i].ticket \in Ticket
  BY <1>1 DEF Record
<1>3. f \in Injection(1..N, Ticket)
  BY <1>2 DEF Injection, IsInjective, LogInv
<1> HIDE DEF f, N
<1>4. Cardinality(1..N) <= Cardinality(Ticket)
  BY <1>3, FS_Injection DEF EnoughLsns
<1>5. Cardinality(1..N) = N
  BY <1>1, FS_Interval
<1>6. MaxLsn \in Nat /\ Cardinality(Ticket) \in Nat
  BY WalConstants, FS_CardinalityType DEF EnoughLsns
<1> QED
  BY <1>1, <1>4, <1>5, <1>6 DEF EnoughLsns, N

(* What a reader sees is what is in the log.                                *)
ContentIsLog ==
    /\ Content \in Seq(Ticket) /\ Len(Content) = Len(log) /\ Len(log) \in Nat
    /\ \A i \in 1..Len(log) : Content[i] = log[i].ticket

(* Under the order of the queue, a read returns what was written.           *)
LEMMA ReadersSeeTheLog == ASSUME Honest PROVE OrderInv => ContentIsLog
<1> SUFFICES ASSUME TypeOK, DiskInv PROVE ContentIsLog
  BY DEF OrderInv, WalInv
<1>1. Len(log) \in Nat /\ \A i \in 1..Len(log) : log[i] \in Record
  BY LenProperties, ElementOfSeq DEF TypeOK
<1>2. \A i \in 1..Len(log) : log[i].ticket \in Ticket
  BY <1>1 DEF Record
<1>3. Content = [i \in 1..Len(log) |-> log[i].ticket]
  BY ReadsAll DEF Content
<1>4. Content \in [1..Len(log) -> Ticket]
  BY <1>2, <1>3
<1>5. Content \in Seq(Ticket) /\ Len(Content) = Len(log)
  BY <1>1, <1>4, IsASeq, LenProperties
<1> QED
  BY <1>1, <1>3, <1>5 DEF ContentIsLog

(* A promise is not withdrawn.                                              *)
LEMMA DurableKept ==
    ASSUME TypeOK, BatchInv, QueueInv, [Next]_vars, NEW x \in Ticket, outcome[x] = "durable"
    PROVE  outcome'[x] = "durable" /\ got'[x] = got[x]
<1> USE DEF worker, files, disk, caller, WorkerFrame
<1> DEFINE A == Len(admitted)
           B == Len(batch)
           Q == Len(queue)
<1>n. /\ A \in Nat /\ B \in Nat /\ Q \in Nat /\ done \in Nat /\ Past \in Nat
      /\ A = Past + B + Q /\ done <= B /\ (pc # "fulfil" => done = 0)
  BY LenProperties, SMTT(60) DEF TypeOK, Past, QueueInv, BatchInv
<1>b. \A i \in 1..B : batch[i] = admitted[Past + i]
  BY DEF QueueInv
<1>q. \A i \in 1..Q : queue[i] = admitted[Past + B + i]
  BY DEF QueueInv
<1>o. \A i \in 1..A : IF i <= Past + done THEN outcome[admitted[i]] \notin {"new", "pending"}
                                          ELSE outcome[admitted[i]] = "pending"
  BY DEF QueueInv
<1> HIDE DEF A, B, Q
<1>1. \A i \in 1..B : i > done => batch[i] # x
  <2> SUFFICES ASSUME NEW i \in 1..B, i > done PROVE batch[i] # x
    OBVIOUS
  <2>1. Past + i \in 1..A /\ ~(Past + i <= Past + done)
    BY <1>n
  <2> QED
    BY <1>b, <1>o, <2>1
<1>2. \A i \in 1..Q : queue[i] # x
  <2> SUFFICES ASSUME NEW i \in 1..Q PROVE queue[i] # x
    OBVIOUS
  <2>1. Past + B + i \in 1..A /\ ~(Past + B + i <= Past + done)
    BY <1>n
  <2> QED
    BY <1>q, <1>o, <2>1
<1>3. ASSUME NEW t \in Ticket, AppendOk(t) \/ AppendRefused(t)
      PROVE  outcome'[x] = "durable" /\ got'[x] = got[x]
  BY <1>3 DEF AppendOk, AppendRefused, TypeOK
<1>4. CASE Fulfil
  <2>1. done + 1 \in 1..B /\ done + 1 > done
    BY <1>4, <1>n DEF Fulfil, B
  <2>2. batch[done + 1] # x
    BY <1>1, <2>1
  <2> QED
    BY <1>4, <2>2 DEF Fulfil, TypeOK
<1>5. CASE FailBatch
  <2>1. x \notin Elements(batch)
    <3>1. \A i \in 1..B : i > done
      BY <1>5, <1>n DEF FailBatch
    <3> QED
      BY <1>1, <3>1 DEF Elements, B
  <2> QED
    BY <1>5, <2>1 DEF FailBatch, FailTickets
<1>6. CASE DrainQueue
  <2>1. x \notin Elements(queue)
    BY <1>2 DEF Elements, Q
  <2> QED
    BY <1>6, <2>1 DEF DrainQueue, FailTickets
<1>7. CASE Crash
  BY <1>7 DEF Crash, KilledProcess, PowerLoss, PowerLossNoFile, PowerLossUndoRename, MemoryLost
<1>8. CASE Shutdown \/ TakeOne \/ CloseBatch \/ WorkerExit \/ CreateSegment \/ WriteHeader
           \/ WriteRecord \/ EndWrites \/ SyncBatch \/ RotateSync \/ RotateRename
           \/ RotateSyncDir \/ IoError \/ FinishBatch \/ SetFault \/ Start \/ StartRefused
           \/ UNCHANGED vars
  BY <1>8 DEF Shutdown, TakeOne, CloseBatch, WorkerExit, CreateSegment, WriteHeader,
              WriteRecord, EndWrites, SyncBatch, RotateSync, RotateRename, RotateSyncDir,
              IoError, FinishBatch, SetFault, Start, StartRefused, vars
<1> QED
  BY <1>3, <1>4, <1>5, <1>6, <1>7, <1>8 DEF Next, CallerStep, WorkerStep

(* A new, empty directory is an empty log without promises.                 *)
LEMMA InitRefines == ASSUME Honest, ContentIsLog, Init PROVE Abstract!Init
<1>1. Len(Content) = 0 /\ Content \in Seq(Ticket)
  BY EmptySeq DEF ContentIsLog, Init
<1>2. Content = <<>>
  BY <1>1, EmptySeq
<1> QED
  BY <1>2 DEF Init, Abstract!Init, Promised

(* Every step of the writer is a step of the log or none: a written record  *)
(* is a write, a ticket fulfilled as durable a promise, a crash the loss of *)
(* a tail without promises.                                                 *)
LEMMA StepRefines ==
    ASSUME Honest, EnoughLsns, OrderInv, OrderInv', ContentIsLog, ContentIsLog', [Next]_vars
    PROVE  [Abstract!Next]_(Abstract!vars)
<1> USE DEF worker, files, disk, caller, WorkerFrame
<1> DEFINE N == Len(log)
<1>0. TypeOK /\ DiskInv /\ BatchInv /\ QueueInv /\ LogInv /\ PromiseOrder
  BY DEF OrderInv, WalInv
<1>c. /\ Content \in Seq(Ticket) /\ Len(Content) = N /\ N \in Nat
      /\ \A i \in 1..N : Content[i] = log[i].ticket
  BY DEF ContentIsLog
<1>d. /\ Content' \in Seq(Ticket) /\ Len(Content') = Len(log')
      /\ \A i \in 1..Len(log') : Content'[i] = log'[i].ticket
  BY DEF ContentIsLog
<1> HIDE DEF N
<1>1. ASSUME ~Fulfil PROVE Promised' = Promised
  <2>1. ASSUME NEW x \in Ticket
        PROVE  (IF outcome'[x] = "durable" THEN got'[x] ELSE 0)
                  = (IF outcome[x] = "durable" THEN got[x] ELSE 0)
    <3>1. CASE outcome[x] = "durable"
      BY <1>0, <3>1, DurableKept
    <3>2. CASE outcome[x] # "durable"
      BY <1>0, <1>1, <3>2, AnswerStep
    <3> QED
      BY <3>1, <3>2
  <2> QED
    BY <2>1 DEF Promised
<1>2. ASSUME log' = log PROVE Content' = Content
  <2>1. Len(Content') = N /\ \A i \in 1..N : Content'[i] = Content[i]
    BY <1>2, <1>c, <1>d DEF N
  <2> QED
    BY <1>c, <1>d, <2>1, SeqEqual
<1>3. CASE WriteRecord
  <2>1. log' = Append(log, [lsn |-> nextLsn, ticket |-> batch[Len(lsns) + 1]])
        /\ Len(lsns) + 1 \in 1..Len(batch) /\ batch \in Seq(Ticket) /\ nextLsn \in Nat
    BY <1>0, <1>3, LenProperties DEF WriteRecord, MoreToWrite, TypeOK
  <2>2. PICK t \in Ticket : log' = Append(log, [lsn |-> nextLsn, ticket |-> t])
    BY <2>1, ElementOfSeq
  <2>3. [lsn |-> nextLsn, ticket |-> t] \in Record /\ log \in Seq(Record)
    BY <1>0, <2>1 DEF Record, TypeOK
  <2>4. /\ Len(log') = N + 1 /\ log'[N + 1].ticket = t
        /\ \A i \in 1..N : log'[i] = log[i]
    BY <2>2, <2>3, AppendProperties DEF N
  <2>5. /\ Append(Content, t) \in Seq(Ticket) /\ Len(Append(Content, t)) = N + 1
        /\ Append(Content, t)[N + 1] = t
        /\ \A i \in 1..N : Append(Content, t)[i] = Content[i]
    BY <1>c, AppendProperties
  <2>6. \A i \in 1..(N + 1) : Content'[i] = Append(Content, t)[i]
    <3>1. \A i \in 1..(N + 1) : i = N + 1 \/ i \in 1..N
      BY <1>c
    <3> QED
      BY <1>c, <1>d, <2>4, <2>5, <3>1
  <2>7. Content' = Append(Content, t)
    BY <1>d, <2>4, <2>5, <2>6, SeqEqual
  <2>8. Promised' = Promised
    BY <1>1, <1>3 DEF WriteRecord, MoreToWrite, Fulfil
  <2> QED
    BY <2>7, <2>8 DEF Abstract!Next, Abstract!Write
<1>4. ASSUME Crash, Len(log') \in 0..N, \A i \in 1..Len(log') : log'[i] = log[i]
      PROVE  Abstract!LoseTail
  <2> DEFINE n == Len(log')
  <2>1. ~Fulfil
    BY <1>4 DEF Crash, KilledProcess, PowerLoss, PowerLossNoFile, PowerLossUndoRename,
                MemoryLost, Fulfil
  <2>2. Promised' = Promised
    BY <1>1, <2>1
  <2>3. /\ SubSeq(Content, 1, n) \in Seq(Ticket) /\ Len(SubSeq(Content, 1, n)) = n
        /\ \A i \in 1..n : SubSeq(Content, 1, n)[i] = Content[i]
    BY <1>c, <1>4, Prefix
  <2>4. \A i \in 1..n : Content'[i] = Content[i]
    <3>1. \A i \in 1..n : i \in 1..N
      BY <1>c, <1>4
    <3> QED
      BY <1>c, <1>d, <1>4, <3>1
  <2>5. Content' = SubSeq(Content, 1, n)
    <3> HIDE DEF n
    <3>1. Len(Content') = n
      BY <1>d DEF n
    <3> QED
      BY <1>d, <2>3, <2>4, <3>1, SeqEqual
  <2>6. \A t \in Ticket : Promised'[t] <= n
    <3> SUFFICES ASSUME NEW t \in Ticket PROVE Promised'[t] <= n
      OBVIOUS
    <3>1. synced' <= n /\ synced' \in Nat /\ n \in Nat
      BY <1>c, <1>4 DEF OrderInv, WalInv, TypeOK, DiskInv
    <3>2. outcome'[t] = "durable" => got'[t] \in 1..synced'
      BY DEF OrderInv, WalInv, PromiseInv
    <3>3. Promised'[t] = IF outcome'[t] = "durable" THEN got'[t] ELSE 0
      BY DEF Promised
    <3> HIDE DEF n
    <3> QED
      BY <3>1, <3>2, <3>3
  <2>7. \A t \in Ticket : Promised[t] <= n
    BY <2>2, <2>6
  <2>8. n \in 0..Len(Content)
    BY <1>4, <1>c
  <2> HIDE DEF n
  <2> QED
    BY <2>2, <2>5, <2>7, <2>8 DEF Abstract!LoseTail
<1>5. CASE Fulfil
  <2> DEFINE t == batch[done + 1]
             l == lsns[done + 1]
             d == Past + (done + 1)
  <2>1. /\ pc = "fulfil" /\ log' = log /\ done < Len(batch) /\ done \in Nat
        /\ outcome' = [outcome EXCEPT ![t] = AdmissionStatus(t)]
        /\ got' = [got EXCEPT ![t] = l]
    BY <1>0, <1>5 DEF Fulfil, TypeOK
  <2>2. /\ Len(batch) \in Nat /\ Len(lsns) = Len(batch) /\ InBatch
        /\ done + 1 \in 1..Len(batch) /\ t \in Ticket
    <3>1. Len(batch) \in Nat /\ Len(lsns) = Len(batch) /\ InBatch
      BY <1>0, <2>1, LenProperties DEF TypeOK, BatchInv, LsnsMatch, InBatch
    <3>2. done + 1 \in 1..Len(batch)
      BY <2>1, <3>1
    <3> QED
      BY <1>0, <3>1, <3>2, ElementOfSeq DEF TypeOK
  <2>3. outcome[t] = "pending"
    <3>1. t = admitted[d]
      BY <1>0, <2>2 DEF QueueInv
    <3>2. d \in 1..Len(admitted) /\ ~(d <= Past + done)
      <4>1. /\ Past \in Nat /\ Len(admitted) = Past + Len(batch) + Len(queue)
            /\ Len(queue) \in Nat /\ Len(admitted) \in Nat
        BY <1>0, <2>2, LenProperties DEF Past, QueueInv, TypeOK
      <4> QED
        BY <2>1, <2>2, <4>1
    <3> QED
      BY <1>0, <3>1, <3>2 DEF QueueInv
  <2>4. /\ Written \in Nat /\ Written = N - Len(lsns)
        /\ l = Least(Written + (done + 1), MaxLsn)
        /\ log[Written + (done + 1)].ticket = t
    BY <1>0, <2>2 DEF PromiseOrder, Written, N
  <2>5. l \in 1..N /\ log[l].ticket = t
    <3>1. N <= MaxLsn /\ MaxLsn \in Nat
      BY <1>0, LogFits, WalConstants DEF N
    <3>2. Written + (done + 1) \in 1..N
      <4>1. N \in Nat /\ Written = N - Len(batch)
        BY <1>c, <2>2, <2>4
      <4>2. Len(batch) \in Nat /\ Written \in Nat /\ done \in Nat /\ done < Len(batch)
        BY <2>1, <2>2, <2>4
      <4> QED
        BY <4>1, <4>2
    <3>3. l = Written + (done + 1)
      BY <1>c, <2>4, <3>1, <3>2 DEF Least
    <3> QED
      BY <2>4, <3>2, <3>3
  <2> HIDE DEF t, l, d
  <2>6. Content' = Content /\ l \in 1..Len(Content) /\ Content[l] = t
    BY <1>2, <1>c, <2>1, <2>5
  <2>7. CASE t \in Relaxed
    <3>1. Promised' = Promised
      <4>1. ASSUME NEW x \in Ticket
            PROVE  (IF outcome'[x] = "durable" THEN got'[x] ELSE 0)
                      = (IF outcome[x] = "durable" THEN got[x] ELSE 0)
        BY <1>0, <2>1, <2>2, <2>3, <2>7 DEF TypeOK, AdmissionStatus
      <4> QED
        BY <4>1 DEF Promised
    <3> QED
      BY <2>6, <3>1 DEF Abstract!vars
  <2>8. CASE t \notin Relaxed
    <3>1. Promised' = [Promised EXCEPT ![t] = l]
      <4>1. ASSUME NEW x \in Ticket
            PROVE  (IF outcome'[x] = "durable" THEN got'[x] ELSE 0)
                      = (IF x = t THEN l ELSE IF outcome[x] = "durable" THEN got[x] ELSE 0)
        BY <1>0, <2>1, <2>2, <2>3, <2>8 DEF TypeOK, AdmissionStatus
      <4> QED
        BY <4>1, <2>2 DEF Promised
    <3>2. Promised[t] = 0
      BY <2>2, <2>3 DEF Promised
    <3> QED
      BY <2>2, <2>6, <3>1, <3>2 DEF Abstract!Next, Abstract!Promise
  <2> QED
    BY <2>7, <2>8
<1>6. ASSUME log' = log, ~Fulfil PROVE UNCHANGED Abstract!vars
  BY <1>1, <1>2, <1>6 DEF Abstract!vars
<1> QED
  <2>1. Start => ~Fulfil
    BY DEF Start, Fulfil
  <2> QED
    BY <1>0, <1>3, <1>4, <1>5, <1>6, <2>1, LogShape DEF Abstract!Next, N

(* Whatever the threads, the disk and the crashes do, callers see a log     *)
(* whose promised records stay.                                             *)
THEOREM WriterImplementsLog == ASSUME Honest, EnoughLsns PROVE Spec => ImplementsDurableLog
<1>1. OrderInv => ContentIsLog
  BY ReadersSeeTheLog
<1>2. ContentIsLog /\ Init => Abstract!Init
  BY InitRefines
<1>3. OrderInv /\ OrderInv' /\ ContentIsLog /\ ContentIsLog' /\ [Next]_vars
         => [Abstract!Next]_(Abstract!vars)
  BY StepRefines
<1> QED
  BY <1>1, <1>2, <1>3, OrderInvariant, PTL DEF Spec, ImplementsDurableLog, Abstract!Spec

-----------------------------------------------------------------------------
(* The handles of the runtime.                                             *)

(* What is active is finite.                                               *)
LEMMA ActiveIsFinite ==
    ASSUME EntityInv
    PROVE  IsFiniteSet(Active) /\ Active \subseteq Wid
<1>1. ecs.slot \in Seq(Slots)
  BY DEF EntityInv, FreeInv
<1>2. DOMAIN ecs.slot = 1 .. Len(ecs.slot) /\ Len(ecs.slot) \in Nat
  BY <1>1
<1> DEFINE D == DOMAIN ecs.slot
           T == {ecs.slot[i].wid : i \in D}
<1>3. IsFiniteSet(D)
  BY <1>2, FS_Interval
<1>4. IsFiniteSet(T)
  <2> DEFINE f == [i \in D |-> ecs.slot[i].wid]
  <2>1. f \in Surjection(D, T)
    BY DEF Surjection
  <2> HIDE DEF D, f, T
  <2> QED
    BY <1>3, <2>1, FS_Surjection
<1> QED
  BY <1>4, FS_Subset DEF Active

(* The entities a start makes again.                                       *)
LEMMA MadeAgainIsFree ==
    ASSUME NEW S, IsFiniteSet(S), S \subseteq Wid
    PROVE  /\ MadeAgain(S).slot \in Seq(Slots) /\ MadeAgain(S).free = <<>>
           /\ DOMAIN MadeAgain(S) = {"slot", "free"}
<1> DEFINE n     == Cardinality(S)
           order == SetToSeq(S)
<1>1. n \in Nat /\ ExistsBijection(1 .. n, S)
  BY FS_CardinalityType
<1>2. \E f \in [1 .. n -> S] : IsInjective(f)
  <2>1. PICK f \in Bijection(1 .. n, S) : TRUE
    BY <1>1 DEF ExistsBijection
  <2> HIDE DEF n
  <2>2. f \in [1 .. n -> S] /\ IsInjective(f)
    BY <2>1 DEF Bijection, Injection, IsInjective
  <2> QED
    BY <2>2
<1>3. order \in [1 .. n -> S]
  BY <1>2 DEF SetToSeq
<1> HIDE DEF n, order
<1>4. DOMAIN order = 1 .. n /\ \A k \in 1 .. n : Filled(order[k], 1, 0) \in Slots
  BY <1>3 DEF Filled, Slots
<1> DEFINE slots == [k \in DOMAIN order |-> Filled(order[k], 1, 0)]
<1>5. slots \in Seq(Slots)
  <2> HIDE DEF Slots, Filled
  <2> QED
    BY <1>1, <1>4
<1>6. MadeAgain(S) = [slot |-> slots, free |-> <<>>]
  BY DEF MadeAgain, order
<1> HIDE DEF slots
<1> QED
  BY <1>5, <1>6

(* A slot is taken.                                                        *)
LEMMA ActivateKeeps ==
    ASSUME EntityInv, NEW w \in Wid, Activate(w)
    PROVE  EntityInv'
<1> DEFINE i  == SlotFor(ecs)
           n  == Cardinality(handles) + 1
           h0 == [slot |-> i, gen |-> ecs'.slot[i].gen, born |-> n]
<1>1. /\ ecs' = Occupied(ecs, w, n) /\ handles' = handles \cup {h0}
      /\ up /\ up' = up /\ frozen' = frozen /\ image' = image
  BY DEF Activate
<1>2. /\ ecs.slot \in Seq(Slots) /\ ecs.free \in Seq(Nat)
      /\ DOMAIN ecs = {"slot", "free"}
      /\ \A k \in DOMAIN ecs.free :
            /\ ecs.free[k] \in DOMAIN ecs.slot /\ ~ecs.slot[ecs.free[k]].used
            /\ \A j \in DOMAIN ecs.free : j # k => ecs.free[j] # ecs.free[k]
  BY DEF EntityInv, FreeInv
<1>3. IsFiniteSet(handles) /\ n \in Nat
  BY FS_CardinalityType DEF EntityInv, HandleInv
<1>4. IsFiniteSet(handles')
  <2> HIDE DEF h0
  <2> QED
    BY <1>1, <1>3, FS_AddElement
<1> HIDE DEF n
<1>5. ASSUME ecs.free = <<>>
      PROVE  /\ ecs'.slot = Append(ecs.slot, Filled(w, 1, n)) /\ ecs'.free = <<>>
             /\ DOMAIN ecs' = {"slot", "free"}
             /\ i = Len(ecs.slot) + 1
  BY <1>1, <1>2, <1>5 DEF Occupied, SlotFor
<1>6. ASSUME ecs.free # <<>>
      PROVE  /\ ecs'.slot = [ecs.slot EXCEPT ![i] = Filled(w, ecs.slot[i].gen, n)]
             /\ ecs'.free = Front(ecs.free)
             /\ DOMAIN ecs' = {"slot", "free"}
             /\ i = ecs.free[Len(ecs.free)]
  BY <1>1, <1>2, <1>6 DEF Occupied, SlotFor
<1> HIDE DEF i
<1>7. DOMAIN ecs' = {"slot", "free"}
  BY <1>5, <1>6
<1>8. \A g \in Nat : Filled(w, g, n) \in Slots
  BY <1>3 DEF Filled, Slots
<1>9. \A g : Filled(w, g, n).used /\ Filled(w, g, n).born = n /\ Filled(w, g, n).gen = g
  BY DEF Filled
<1>10. CASE ecs.free = <<>>
  <2>1. /\ ecs'.slot \in Seq(Slots) /\ DOMAIN ecs'.slot = 1 .. i /\ i \in 1 .. i
        /\ DOMAIN ecs.slot \subseteq DOMAIN ecs'.slot
        /\ ecs'.slot[i] = Filled(w, 1, n)
        /\ \A k \in DOMAIN ecs.slot : ecs'.slot[k] = ecs.slot[k]
    <3> HIDE DEF Slots, Filled
    <3> QED
      BY <1>2, <1>5, <1>8, <1>10
  <2>2. FreeInv'
    <3>1. <<>> \in Seq(Nat) /\ DOMAIN <<>> = {}
      OBVIOUS
    <3>2. ecs'.free \in Seq(Nat) /\ DOMAIN ecs'.free = {}
      BY <1>5, <1>10, <3>1
    <3> QED
      BY <2>1, <3>2 DEF FreeInv
  <2>3. HandleInv'
    <3>1. ASSUME NEW h \in handles
          PROVE  /\ h.slot \in DOMAIN ecs'.slot /\ h.gen \in Nat
                 /\ ecs'.slot[h.slot] = ecs.slot[h.slot]
      BY <2>1 DEF EntityInv, HandleInv
    <3>2. h0.slot = i /\ h0.gen = 1 /\ h0.born = n
      BY <1>9, <2>1
    <3> HIDE DEF h0
    <3> QED
      BY <1>1, <1>4, <1>9, <2>1, <3>1, <3>2 DEF EntityInv, HandleInv
  <2> QED
    BY <1>1, <1>7, <2>2, <2>3 DEF EntityInv, ImageInv
<1>11. CASE ecs.free # <<>>
  <2> DEFINE l == Len(ecs.free)
             g == ecs.slot[i].gen
  <2>1. l \in Nat \ {0} /\ DOMAIN ecs.free = 1 .. l
    BY <1>2, <1>11
  <2>2. i \in DOMAIN ecs.slot /\ ~ecs.slot[i].used
    BY <1>2, <1>6, <1>11, <2>1, SMTT(60)
  <2>3. g \in Nat
    <3>1. ecs.slot[i] \in Slots
      BY <1>2, <2>2
    <3> QED
      BY <3>1 DEF Slots
  <2>4. /\ ecs'.slot \in Seq(Slots) /\ DOMAIN ecs'.slot = DOMAIN ecs.slot
        /\ ecs'.slot[i] = Filled(w, g, n)
        /\ \A k \in DOMAIN ecs.slot : k # i => ecs'.slot[k] = ecs.slot[k]
    <3>1. Filled(w, g, n) \in Slots
      BY <1>8, <2>3
    <3>2. ecs'.slot = [ecs.slot EXCEPT ![i] = Filled(w, g, n)]
      BY <1>6, <1>11
    <3>3. i \in 1 .. Len(ecs.slot) /\ DOMAIN ecs.slot = 1 .. Len(ecs.slot)
      BY <1>2, <2>2
    <3> HIDE DEF Slots, Filled, g
    <3>4. ecs'.slot \in Seq(Slots)
      BY <1>2, <3>1, <3>2, <3>3, ExceptSeq
    <3> QED
      BY <2>2, <3>2, <3>4
  <2>5. /\ ecs'.free \in Seq(Nat) /\ DOMAIN ecs'.free = 1 .. l - 1
        /\ \A k \in 1 .. l - 1 : ecs'.free[k] = ecs.free[k] /\ k \in DOMAIN ecs.free /\ k # l
    <3>1. ecs'.free = SubSeq(ecs.free, 1, l - 1)
      BY <1>6, <1>11 DEF Front
    <3>2. \A k \in 1 .. l - 1 : ecs.free[k] \in Nat
      BY <1>2, <2>1
    <3>3. ecs'.free \in Seq(Nat) /\ Len(ecs'.free) = l - 1
          /\ \A k \in 1 .. l - 1 : ecs'.free[k] = ecs.free[k]
      <4>1. l - 1 \in Nat /\ 1 \in Int /\ l - 1 \in Int
        BY <2>1
      <4> DEFINE k == l - 1
                 p == ecs.free
      <4> HIDE DEF k, p, l
      <4>2. SubSeq(p, 1, k) \in Seq(Nat) /\ Len(SubSeq(p, 1, k)) = k
            /\ \A j \in 1 .. k - 1 + 1 : SubSeq(p, 1, k)[j] = p[1 + j - 1]
        <5>1. \A j \in 1 .. k : p[j] \in Nat
          BY <3>2 DEF k, p
        <5> QED
          BY <4>1, <5>1, SubSeqProperties DEF k
      <4>3. \A j \in 1 .. k : j \in 1 .. k - 1 + 1 /\ 1 + j - 1 = j
        BY <4>1 DEF k
      <4> QED
        BY <3>1, <4>2, <4>3 DEF k, p
    <3> QED
      BY <2>1, <3>3
  <2>6. FreeInv'
    <3>1. ASSUME NEW k \in DOMAIN ecs'.free
          PROVE  /\ ecs'.free[k] \in DOMAIN ecs'.slot /\ ~ecs'.slot[ecs'.free[k]].used
                 /\ \A j \in DOMAIN ecs'.free : j # k => ecs'.free[j] # ecs'.free[k]
      <4>1. ecs.free[k] # i /\ k \in DOMAIN ecs.free /\ ecs'.free[k] = ecs.free[k]
        <5>1. k \in DOMAIN ecs.free /\ ecs'.free[k] = ecs.free[k] /\ k # l
          BY <2>5
        <5>2. l \in DOMAIN ecs.free /\ i = ecs.free[l]
          BY <1>6, <1>11, <2>1
        <5> HIDE DEF l
        <5> QED
          BY <1>2, <5>1, <5>2
      <4>2. ecs.free[k] \in DOMAIN ecs.slot /\ ~ecs.slot[ecs.free[k]].used
        BY <1>2, <4>1
      <4> QED
        BY <1>2, <2>4, <2>5, <4>1, <4>2
    <3> QED
      BY <2>4, <2>5, <3>1 DEF FreeInv
  <2>7. HandleInv'
    <3>1. ASSUME NEW h \in handles
          PROVE  /\ h.slot \in DOMAIN ecs'.slot /\ h.gen \in Nat
                 /\ LET s == ecs'.slot[h.slot]
                    IN  /\ h.gen <= s.gen /\ (~s.used => h.gen < s.gen)
                        /\ (s.used /\ s.gen = h.gen => s.born = h.born)
      <4>0. /\ h.slot \in DOMAIN ecs.slot /\ h.gen \in Nat
            /\ LET s == ecs.slot[h.slot]
               IN  /\ h.gen <= s.gen /\ (~s.used => h.gen < s.gen)
                   /\ (s.used /\ s.gen = h.gen => s.born = h.born)
        BY DEF EntityInv, HandleInv
      <4>1. CASE h.slot # i
        BY <2>4, <4>0, <4>1
      <4>2. CASE h.slot = i
        <5>1. h.gen < g
          BY <2>2, <4>0, <4>2
        <5>2. ecs'.slot[h.slot].gen = g /\ ecs'.slot[h.slot].used
          BY <1>9, <2>4, <4>2
        <5> HIDE DEF g
        <5> QED
          BY <2>3, <2>4, <4>0, <5>1, <5>2
      <4> QED
        BY <4>1, <4>2
    <3>2. h0.slot = i /\ h0.gen = g /\ h0.born = n
      BY <1>9, <2>4
    <3> HIDE DEF h0, g
    <3>3. /\ h0.slot \in DOMAIN ecs'.slot /\ h0.gen \in Nat
          /\ ecs'.slot[h0.slot].gen = h0.gen /\ ecs'.slot[h0.slot].used
          /\ ecs'.slot[h0.slot].born = h0.born
      BY <1>9, <2>2, <2>3, <2>4, <3>2
    <3> QED
      BY <1>1, <1>4, <3>1, <3>3 DEF HandleInv
  <2> QED
    BY <1>1, <1>7, <2>6, <2>7 DEF EntityInv, ImageInv
<1> QED
  BY <1>10, <1>11

(* A slot is left: its next generation is named by nobody.                 *)
LEMMA DeactivateKeeps ==
    ASSUME EntityInv, NEW h \in handles, Deactivate(h)
    PROVE  EntityInv'
<1> DEFINE i == h.slot
           g == ecs.slot[i].gen
<1>1. /\ up /\ Names(h) /\ g < GenMax /\ ecs' = Destroy(ecs, i)
      /\ handles' = handles /\ up' = up /\ frozen' = frozen /\ image' = image
  BY DEF Deactivate
<1>2. /\ ecs.slot \in Seq(Slots) /\ ecs.free \in Seq(Nat)
      /\ \A k \in DOMAIN ecs.free :
            /\ ecs.free[k] \in DOMAIN ecs.slot /\ ~ecs.slot[ecs.free[k]].used
            /\ \A j \in DOMAIN ecs.free : j # k => ecs.free[j] # ecs.free[k]
  BY DEF EntityInv, FreeInv
<1>3. i \in DOMAIN ecs.slot /\ ecs.slot[i].used /\ DOMAIN ecs.slot = 1 .. Len(ecs.slot)
  BY <1>1, <1>2 DEF EntityInv, HandleInv, Names
<1>4. ecs.slot[i] \in Slots
  BY <1>2, <1>3
<1>5. g \in Nat /\ GenMax \in Nat
  BY <1>4, RuntimeConstants DEF Slots
<1> DEFINE e == [ecs.slot[i] EXCEPT !.used = FALSE, !.gen = g + 1]
<1>6. e \in Slots /\ e.gen = g + 1 /\ ~e.used
  <2>1. \A x \in Slots, n \in Nat :
           LET y == [x EXCEPT !.used = FALSE, !.gen = n]
           IN  y \in Slots /\ y.gen = n /\ ~y.used
    BY DEF Slots
  <2>2. g + 1 \in Nat
    BY <1>5
  <2> HIDE DEF g, Slots
  <2> QED
    BY <1>4, <2>1, <2>2
<1>7. ecs' = [slot |-> [ecs.slot EXCEPT ![i] = e], free |-> Append(ecs.free, i)]
  <2>1. g # GenMax
    BY <1>1, <1>5
  <2> DEFINE d == [ecs.slot EXCEPT ![i].used = FALSE, ![i].gen = IF @ = GenMax THEN 1 ELSE @ + 1]
  <2>2. d = [ecs.slot EXCEPT ![i] = e]
    <3>1. ecs.slot[i] = [wid |-> ecs.slot[i].wid, gen |-> g, used |-> TRUE, born |-> ecs.slot[i].born]
      BY <1>3, <1>4 DEF Slots
    <3> QED
      BY <1>2, <1>3, <2>1, <3>1
  <2>3. ecs' = [slot |-> d, free |-> Append(ecs.free, i)]
    BY <1>1 DEF Destroy
  <2> QED
    BY <2>2, <2>3
<1> HIDE DEF e, g
<1>8. /\ ecs'.slot \in Seq(Slots) /\ DOMAIN ecs'.slot = DOMAIN ecs.slot /\ ecs'.slot[i] = e
      /\ \A k \in DOMAIN ecs.slot : k # i => ecs'.slot[k] = ecs.slot[k]
      /\ DOMAIN ecs' = {"slot", "free"}
  <2>1. ecs'.slot = [ecs.slot EXCEPT ![i] = e]
    BY <1>7
  <2> HIDE DEF Slots
  <2>2. ecs'.slot \in Seq(Slots)
    BY <1>2, <1>3, <1>6, <2>1, ExceptSeq
  <2> QED
    BY <1>3, <1>7, <2>1, <2>2
<1>9. FreeInv'
  <2> DEFINE l == Len(ecs.free)
             q == ecs'.free
  <2>1. /\ q \in Seq(Nat) /\ DOMAIN q = 1 .. l + 1 /\ DOMAIN ecs.free = 1 .. l /\ l \in Nat
        /\ q[l + 1] = i /\ \A k \in 1 .. l : q[k] = ecs.free[k]
    <3>1. q = Append(ecs.free, i) /\ i \in Nat
      BY <1>2, <1>3, <1>7
    <3> HIDE DEF q
    <3> QED
      BY <1>2, <3>1
  <2>2. \A k \in 1 .. l : ecs.free[k] # i
    BY <1>2, <1>3, <2>1
  <2> HIDE DEF l, q
  <2>3. \A k \in DOMAIN q : (k \in DOMAIN ecs.free /\ q[k] = ecs.free[k]) \/ (k = l + 1 /\ q[k] = i)
    BY <2>1
  <2>4. ASSUME NEW k \in DOMAIN q
        PROVE  q[k] \in DOMAIN ecs'.slot /\ ~ecs'.slot[q[k]].used
    <3>1. CASE k \in DOMAIN ecs.free /\ q[k] = ecs.free[k]
      BY <1>2, <1>8, <2>1, <2>2, <3>1, SMTT(60)
    <3>2. CASE q[k] = i
      BY <1>3, <1>6, <1>8, <3>2
    <3> QED
      BY <2>3, <3>1, <3>2
  <2>5. ASSUME NEW k \in DOMAIN q, NEW j \in DOMAIN q, j # k
        PROVE  q[j] # q[k]
    <3>1. CASE k \in DOMAIN ecs.free /\ j \in DOMAIN ecs.free
      BY <1>2, <2>1, <2>5, <3>1
    <3>2. CASE k \in DOMAIN ecs.free /\ j = l + 1
      BY <2>1, <2>2, <3>2
    <3>3. CASE k = l + 1 /\ j \in DOMAIN ecs.free
      BY <2>1, <2>2, <3>3
    <3> QED
      BY <2>3, <2>5, <3>1, <3>2, <3>3
  <2> QED
    BY <1>8, <2>1, <2>4, <2>5 DEF FreeInv, q
<1>10. HandleInv'
  <2>1. ASSUME NEW x \in handles
        PROVE  /\ x.slot \in DOMAIN ecs'.slot /\ x.gen \in Nat
               /\ LET s == ecs'.slot[x.slot]
                  IN  /\ x.gen <= s.gen /\ (~s.used => x.gen < s.gen)
                      /\ (s.used /\ s.gen = x.gen => s.born = x.born)
    <3>0. /\ x.slot \in DOMAIN ecs.slot /\ x.gen \in Nat
          /\ LET s == ecs.slot[x.slot]
             IN  /\ x.gen <= s.gen /\ (~s.used => x.gen < s.gen)
                 /\ (s.used /\ s.gen = x.gen => s.born = x.born)
      BY DEF EntityInv, HandleInv
    <3>1. CASE x.slot # i
      BY <1>8, <3>0, <3>1
    <3>2. CASE x.slot = i
      <4>1. x.gen <= g
        BY <3>0, <3>2 DEF g
      <4>2. ecs'.slot[x.slot].gen = g + 1 /\ ~ecs'.slot[x.slot].used
        BY <1>6, <1>8, <3>2
      <4> QED
        BY <1>5, <1>8, <3>0, <4>1, <4>2
    <3> QED
      BY <3>1, <3>2
  <2> QED
    BY <1>1, <2>1 DEF EntityInv, HandleInv
<1> QED
  BY <1>1, <1>8, <1>9, <1>10 DEF EntityInv, ImageInv

(* Every action of the runtime keeps the pool of entities in order.         *)
LEMMA EntityStep ==
    ASSUME EntityInv, [RuntimeNext]_runtimeVars
    PROVE  EntityInv'
<1>1. ASSUME NEW op \in Commands, NEW due \in 0 .. MaxTick, Submit(op, due)
      PROVE  EntityInv'
  <2>1. up' = up /\ ecs' = ecs /\ handles' = handles /\ frozen' = frozen /\ image' = image
    BY <1>1 DEF Submit
  <2> QED
    BY <2>1 DEF EntityInv, FreeInv, HandleInv, ImageInv
<1>2. ASSUME NEW w \in Wid, Activate(w)
      PROVE  EntityInv'
  BY <1>2, ActivateKeeps
<1>3. ASSUME NEW h \in handles, Deactivate(h)
      PROVE  EntityInv'
  BY <1>3, DeactivateKeeps
<1>4. ASSUME NEW save \in BOOLEAN, Step(save)
      PROVE  EntityInv'
  <2>1. up' = up /\ ecs' = ecs /\ handles' = handles /\ image' = image
    BY <1>4 DEF Step
  <2>2. frozen' = frozen \/ frozen'.ecs_active_set = Active
    BY <1>4 DEF Step, Capture
  <2>3. ImageInv'
    BY <2>1, <2>2, ActiveIsFinite DEF EntityInv, ImageInv
  <2> QED
    BY <2>1, <2>3 DEF EntityInv, FreeInv, HandleInv
<1>5. Nothing.ecs_active_set = {} /\ IsFiniteSet({})
  BY FS_EmptySet DEF Nothing
<1>6. ASSUME NEW ok \in BOOLEAN, Publish(ok)
      PROVE  EntityInv'
  <2>1. up' = up /\ ecs' = ecs /\ handles' = handles /\ frozen' = Nothing
        /\ (image' = image \/ image' = frozen)
    BY <1>6 DEF Publish
  <2>2. ImageInv'
    BY <1>5, <2>1 DEF EntityInv, ImageInv
  <2> QED
    BY <2>1, <2>2 DEF EntityInv, FreeInv, HandleInv
<1>7. <<>> \in Seq(Nat) /\ <<>> \in Seq(Slots) /\ DOMAIN <<>> = {}
  <2> HIDE DEF Slots
  <2> QED
    OBVIOUS
<1>8. CASE RuntimeCrash
  <2>1. up' = FALSE /\ frozen' = Nothing /\ ecs' = NoEntities /\ handles' = {} /\ image' = image
    BY <1>8 DEF RuntimeCrash
  <2>2. ImageInv'
    BY <1>5, <2>1 DEF EntityInv, ImageInv
  <2>3. ecs'.slot = <<>> /\ ecs'.free = <<>> /\ DOMAIN ecs' = {"slot", "free"}
    BY <2>1 DEF NoEntities
  <2>4. FreeInv'
    BY <1>7, <2>3 DEF FreeInv
  <2>5. HandleInv'
    BY <1>5, <2>1 DEF HandleInv
  <2> QED
    BY <2>2, <2>3, <2>4, <2>5 DEF EntityInv
<1>9. CASE Restart
  <2>1. ~up /\ handles' = handles /\ frozen' = frozen /\ image' = image
        /\ (ecs' = ecs \/ ecs' = MadeAgain(image.ecs_active_set))
    BY <1>9 DEF Restart
  <2>2. handles = {} /\ handles' = {}
    BY <2>1 DEF EntityInv, HandleInv
  <2>3. ImageInv' /\ HandleInv'
    BY <1>5, <2>1, <2>2 DEF EntityInv, ImageInv, HandleInv
  <2>4. CASE ecs' = ecs
    BY <2>3, <2>4 DEF EntityInv, FreeInv
  <2>5. CASE ecs' = MadeAgain(image.ecs_active_set)
    <3>1. IsFiniteSet(image.ecs_active_set) /\ image.ecs_active_set \subseteq Wid
      BY DEF EntityInv, ImageInv
    <3>2. ecs'.slot \in Seq(Slots) /\ ecs'.free = <<>> /\ DOMAIN ecs' = {"slot", "free"}
      BY <2>5, <3>1, MadeAgainIsFree
    <3>3. <<>> \in Seq(Nat) /\ DOMAIN <<>> = {}
      OBVIOUS
    <3>4. ecs'.free \in Seq(Nat) /\ DOMAIN ecs'.free = {}
      BY <3>2, <3>3
    <3>5. FreeInv'
      BY <3>2, <3>4 DEF FreeInv
    <3> QED
      BY <2>3, <3>2, <3>5 DEF EntityInv
  <2> QED
    BY <2>1, <2>4, <2>5
<1>10. ASSUME NEW l \in open, Enqueue(l)
       PROVE  EntityInv'
  <2>1. up' = up /\ ecs' = ecs /\ handles' = handles /\ frozen' = frozen /\ image' = image
    BY <1>10 DEF Enqueue
  <2> QED
    BY <2>1 DEF EntityInv, FreeInv, HandleInv, ImageInv
<1>11. CASE UNCHANGED runtimeVars
  BY <1>11 DEF runtimeVars, EntityInv, FreeInv, HandleInv, ImageInv
<1> QED
  BY <1>1, <1>2, <1>3, <1>4, <1>6, <1>8, <1>9, <1>10, <1>11 DEF RuntimeNext

(* The free list and the generations of ecs::Runtime agree with the        *)
(* handles that were given out, across every restart.                      *)
THEOREM EntityInvariant == RuntimeSpec => []EntityInv
<1>1. RuntimeInit => EntityInv
  <2> SUFFICES ASSUME RuntimeInit PROVE EntityInv
    OBVIOUS
  <2>1. /\ up = TRUE /\ ecs.slot = <<>> /\ ecs.free = <<>> /\ DOMAIN ecs = {"slot", "free"}
        /\ handles = {} /\ frozen = Nothing /\ image = Nothing
    BY DEF RuntimeInit, NoEntities
  <2>2. <<>> \in Seq(Nat) /\ <<>> \in Seq(Slots) /\ DOMAIN <<>> = {}
    <3> HIDE DEF Slots
    <3> QED
      OBVIOUS
  <2>3. FreeInv
    BY <2>1, <2>2 DEF FreeInv
  <2>4. HandleInv /\ ImageInv
    BY <2>1, FS_EmptySet DEF HandleInv, ImageInv, Nothing
  <2> QED
    BY <2>1, <2>3, <2>4 DEF EntityInv
<1>2. EntityInv /\ [RuntimeNext]_runtimeVars => EntityInv'
  BY EntityStep
<1> QED
  BY <1>1, <1>2, PTL DEF RuntimeSpec

(* A RuntimeId that is still valid names the activation it was handed out  *)
(* for, however often its slot was left and taken again                    *)
(* (ecs::Runtime::valid, activate and destroy).                            *)
THEOREM HandlesNameTheirEntities == RuntimeSpec => []HandleNamesItsEntity
<1>1. EntityInv => HandleNamesItsEntity
  BY DEF EntityInv, HandleInv, HandleNamesItsEntity, Names
<1> QED
  BY <1>1, EntityInvariant, PTL

-----------------------------------------------------------------------------
(* The state of the runtime as a function of the log.  Loops over commands, *)
(* records and ticks are functions of how often they went round; a fact     *)
(* about all of their values is the set of the numbers it holds for, which  *)
(* has 0 and every successor.                                               *)

(* Every inhabited set of numbers has a least element.                      *)
LEMMA LeastNumber ==
    \A T \in SUBSET Nat : T # {} => \E x \in T : \A y \in T : x <= y
<1>1. IsWellFoundedOn(OpToRel(<, Nat), Nat)
  BY NatLessThanWellFounded
<1> DEFINE R == {ss \in Nat \X Nat : ss[1] < ss[2]}
<1>2. OpToRel(<, Nat) = R
  BY DEF OpToRel
<1>3. IsWellFoundedOn(R, Nat)
  BY <1>1, <1>2
<1> HIDE DEF R
<1>4. ASSUME NEW T \in SUBSET Nat, T # {}
      PROVE  \E x \in T : \A y \in T : ~(<<y, x>> \in R)
  BY <1>3, <1>4, WFMin
<1>5. \A x, y \in Nat : ~(<<y, x>> \in R) => x <= y
  BY DEF R
<1> QED
  BY <1>4, <1>5

(* A set with 0 and with every successor of its numbers has every number.   *)
LEMMA EveryNumber ==
    ASSUME NEW S \in SUBSET Nat, 0 \in S, \A n \in S : n + 1 \in S
    PROVE  S = Nat
<1> SUFFICES ASSUME Nat \ S # {}
             PROVE  FALSE
  OBVIOUS
<1>1. PICK x \in Nat \ S : \A y \in Nat \ S : x <= y
  BY LeastNumber
<1>2. x # 0 /\ x - 1 \in Nat
  BY <1>1
<1>3. x - 1 \in S
  BY <1>1, <1>2
<1> QED
  BY <1>1, <1>3

(* What holds first and is kept by every step holds after all of them.      *)
LEMMA AfterEveryStep ==
    ASSUME NEW b, NEW X, b[0] \in X, \A n \in Nat : b[n] \in X => b[n + 1] \in X
    PROVE  \A n \in Nat : b[n] \in X
<1> DEFINE S == {n \in Nat : b[n] \in X}
<1>1. 0 \in S
  OBVIOUS
<1>2. \A n \in S : n + 1 \in S
  OBVIOUS
<1>3. S \in SUBSET Nat
  OBVIOUS
<1> HIDE DEF S
<1>4. S = Nat
  BY <1>1, <1>2, <1>3, EveryNumber
<1> QED
  BY <1>4 DEF S

(* What is defined by a first value and a step exists.                      *)
Follows(f, X, s, g) ==
    f \in [Nat -> X] /\ f[0] = s /\ \A n \in Nat : f[n + 1] = g[n + 1][f[n]]

(* What is defined by a first value and a step exists as a function on the  *)
(* numbers.                                                                 *)
LEMMA Steps ==
    ASSUME NEW X, NEW s \in X, NEW g \in [Nat -> [X -> X]]
    PROVE  \E f : Follows(f, X, s, g)
<1> DEFINE Upto(f, n) == f[0] = s /\ \A k \in 0 .. n - 1 : f[k + 1] = g[k + 1][f[k]]
           F(n) == {f \in [0 .. n -> X] : Upto(f, n)}
           S == {n \in Nat : F(n) # {}}
<1>1. 0 \in S
  <2>1. [k \in 0 .. 0 |-> s] \in F(0)
    OBVIOUS
  <2> QED
    BY <2>1
<1>2. ASSUME NEW n \in S PROVE n + 1 \in S
  <2>1. PICK f : f \in F(n)
    BY <1>2
  <2> DEFINE h == [k \in 0 .. n + 1 |-> IF k = n + 1 THEN g[n + 1][f[n]] ELSE f[k]]
  <2>2. \A k \in 0 .. n : f[k] \in X
    BY <2>1
  <2>3. g[n + 1][f[n]] \in X
    BY <2>2
  <2>4. h \in [0 .. n + 1 -> X]
    BY <2>2, <2>3
  <2>5. h[0] = s
    BY <2>1
  <2>6. ASSUME NEW k \in 0 .. (n + 1) - 1 PROVE h[k + 1] = g[k + 1][h[k]]
    <3>1. h[k] = f[k]
      OBVIOUS
    <3>2. CASE k = n
      BY <3>1, <3>2
    <3>3. CASE k # n
      <4>1. k \in 0 .. n - 1 /\ k + 1 \in 0 .. n
        BY <3>3
      <4>2. h[k + 1] = f[k + 1]
        BY <4>1
      <4>3. f[k + 1] = g[k + 1][f[k]]
        BY <2>1, <4>1
      <4> HIDE DEF h
      <4> QED
        BY <3>1, <4>2, <4>3
    <3> QED
      BY <3>2, <3>3
  <2> HIDE DEF h
  <2>7. h \in F(n + 1)
    BY <2>4, <2>5, <2>6
  <2> QED
    BY <2>7
<1>3. \A n \in Nat : F(n) # {}
  <2> HIDE DEF F
  <2>1. S \in SUBSET Nat
    OBVIOUS
  <2> HIDE DEF S
  <2>2. S = Nat
    BY <2>1, <1>1, <1>2, EveryNumber
  <2> QED
    BY <2>2 DEF S
<1>4. ASSUME NEW m \in Nat, NEW n \in Nat, m <= n, NEW f \in F(m), NEW h \in F(n)
      PROVE  f[m] = h[m]
  <2> DEFINE T == {k \in Nat : k <= m => f[k] = h[k]}
  <2>1. 0 \in T
    OBVIOUS
  <2>2. ASSUME NEW k \in T PROVE k + 1 \in T
    <3> SUFFICES ASSUME k + 1 <= m PROVE f[k + 1] = h[k + 1]
      OBVIOUS
    <3>1. k \in 0 .. m - 1 /\ k \in 0 .. n - 1
      BY <1>4
    <3>2. f[k] = h[k]
      BY <2>2, <3>1
    <3> QED
      BY <3>1, <3>2
  <2>3. T \in SUBSET Nat
    OBVIOUS
  <2> HIDE DEF T
  <2>4. T = Nat
    BY <2>1, <2>2, <2>3, EveryNumber
  <2>5. m \in T
    BY <2>4
  <2> HIDE DEF F
  <2> QED
    BY <2>5 DEF T
<1> DEFINE a(n) == CHOOSE f : f \in F(n)
           r == [n \in Nat |-> a(n)[n]]
<1>5. ASSUME NEW n \in Nat PROVE a(n) \in F(n)
  <2> HIDE DEF F
  <2> QED
    BY <1>3
<1> HIDE DEF a
<1>6. ASSUME NEW n \in Nat PROVE r[n] \in X
  <2>1. a(n) \in F(n)
    BY <1>5
  <2> QED
    BY <2>1
<1>7. r[0] = s
  <2>1. a(0) \in F(0)
    BY <1>5
  <2> QED
    BY <2>1
<1>8. ASSUME NEW n \in Nat PROVE r[n + 1] = g[n + 1][r[n]]
  <2>1. a(n + 1) \in F(n + 1) /\ a(n) \in F(n)
    BY <1>5
  <2>2. a(n + 1)[n + 1] = g[n + 1][a(n + 1)[n]]
    <3>1. n \in 0 .. (n + 1) - 1
      OBVIOUS
    <3> QED
      BY <2>1, <3>1
  <2>3. a(n)[n] = a(n + 1)[n]
    <3>1. n <= n + 1 /\ n + 1 \in Nat
      OBVIOUS
    <3> HIDE DEF F
    <3> QED
      BY <1>4, <2>1, <3>1
  <2>4. r[n + 1] = a(n + 1)[n + 1] /\ r[n] = a(n)[n]
    OBVIOUS
  <2> HIDE DEF r
  <2> QED
    BY <2>2, <2>3, <2>4
<1> HIDE DEF r
<1>9. r \in [Nat -> X]
  BY <1>6 DEF r
<1> QED
  BY <1>7, <1>8, <1>9 DEF Follows

(* Commands in the order of their numbers.                                  *)
-----------------------------------------------------------------------------
(* The loops of the model, each as its first value and its step.            *)

LEMMA ExecutedTurns ==
    ASSUME NEW due, NEW s, NEW X, s \in X,
           \A x \in X, k \in Nat : ExecutedAt(x, due, k) \in X
    PROVE  /\ ExecutedTo(s, due, 0) = s
           /\ \A n \in Nat : /\ ExecutedTo(s, due, n) \in X
                             /\ ExecutedTo(s, due, n + 1) = ExecutedAt(ExecutedTo(s, due, n), due, n + 1)
<1> DEFINE op(x, k) == ExecutedAt(x, due, k)
           g == [k \in Nat |-> [x \in X |-> op(x, k)]]
           Q(a) == a = [k \in Nat |-> IF k = 0 THEN s ELSE op(a[k - 1], k)]
           b == CHOOSE a : Q(a)
<1>1. \A x \in X, k \in Nat : op(x, k) \in X
  OBVIOUS
<1>2. \A n \in Nat : ExecutedTo(s, due, n) = b[n]
  BY DEF ExecutedTo, InTurn
<1> HIDE DEF op
<1>3. g \in [Nat -> [X -> X]] /\ \A n \in Nat, x \in X : g[n][x] = op(x, n)
  BY <1>1
<1> HIDE DEF g
<1>4. \E a : Q(a)
  <2>1. PICK f : Follows(f, X, s, g)
    <3>1. g \in [Nat -> [X -> X]]
      BY <1>3
    <3> QED
      BY <3>1, Steps
  <2>2. f \in [Nat -> X] /\ f[0] = s /\ \A n \in Nat : f[n + 1] = g[n + 1][f[n]]
    BY <2>1 DEF Follows
  <2>3. \A k \in Nat : k # 0 => k - 1 \in Nat /\ (k - 1) + 1 = k
    OBVIOUS
  <2>4. ASSUME NEW k \in Nat, k # 0 PROVE f[k] = op(f[k - 1], k)
    <3>1. f[k] = g[k][f[k - 1]]
      BY <2>2, <2>3, <2>4
    <3> QED
      BY <1>3, <2>2, <2>3, <2>4, <3>1
  <2>5. \A k \in Nat : f[k] = IF k = 0 THEN s ELSE op(f[k - 1], k)
    BY <2>2, <2>4
  <2>6. f = [k \in Nat |-> f[k]]
    BY <2>2
  <2>7. f = [k \in Nat |-> IF k = 0 THEN s ELSE op(f[k - 1], k)]
    BY <2>5, <2>6
  <2> QED
    BY <2>7
<1>5. Q(b)
  <2> HIDE DEF Q
  <2> QED
    BY <1>4
<1> HIDE DEF b
<1>6. b[0] = s /\ \A n \in Nat : b[n + 1] = op(b[n], n + 1)
  <2>1. \A k \in Nat : b[k] = IF k = 0 THEN s ELSE op(b[k - 1], k)
    BY <1>5
  <2>2. \A n \in Nat : n + 1 \in Nat /\ n + 1 # 0 /\ (n + 1) - 1 = n
    OBVIOUS
  <2> HIDE DEF Q
  <2> QED
    BY <2>1, <2>2
<1>7. \A n \in Nat : b[n] \in X
  <2>1. ASSUME NEW n \in Nat, b[n] \in X PROVE b[n + 1] \in X
    <3>1. n + 1 \in Nat /\ b[n + 1] = op(b[n], n + 1)
      BY <1>6
    <3>2. op(b[n], n + 1) \in X
      BY ONLY <1>1, <2>1, <3>1
    <3> QED
      BY <3>1, <3>2
  <2> QED
    BY <1>6, <2>1, AfterEveryStep
<1>8. ASSUME NEW n \in Nat
      PROVE  ExecutedTo(s, due, n + 1) = ExecutedAt(ExecutedTo(s, due, n), due, n + 1)
  <2>1. n + 1 \in Nat /\ b[n + 1] = op(b[n], n + 1)
    BY <1>6
  <2> QED
    BY <1>2, <2>1 DEF op
<1> QED
  BY <1>2, <1>6, <1>7, <1>8

(* Events, one after the other.                                             *)
LEMMA HandledTurns ==
    ASSUME NEW s, NEW X, s \in X,
           \A x \in X, k \in Nat : FirstHandled(x) \in X
    PROVE  /\ HandledTo(s, 0) = s
           /\ \A n \in Nat : /\ HandledTo(s, n) \in X
                             /\ HandledTo(s, n + 1) = FirstHandled(HandledTo(s, n))
<1> DEFINE op(x, k) == FirstHandled(x)
           g == [k \in Nat |-> [x \in X |-> op(x, k)]]
           Q(a) == a = [k \in Nat |-> IF k = 0 THEN s ELSE op(a[k - 1], k)]
           b == CHOOSE a : Q(a)
<1>1. \A x \in X, k \in Nat : op(x, k) \in X
  OBVIOUS
<1>2. \A n \in Nat : HandledTo(s, n) = b[n]
  BY DEF HandledTo, InTurn
<1> HIDE DEF op
<1>3. g \in [Nat -> [X -> X]] /\ \A n \in Nat, x \in X : g[n][x] = op(x, n)
  BY <1>1
<1> HIDE DEF g
<1>4. \E a : Q(a)
  <2>1. PICK f : Follows(f, X, s, g)
    <3>1. g \in [Nat -> [X -> X]]
      BY <1>3
    <3> QED
      BY <3>1, Steps
  <2>2. f \in [Nat -> X] /\ f[0] = s /\ \A n \in Nat : f[n + 1] = g[n + 1][f[n]]
    BY <2>1 DEF Follows
  <2>3. \A k \in Nat : k # 0 => k - 1 \in Nat /\ (k - 1) + 1 = k
    OBVIOUS
  <2>4. ASSUME NEW k \in Nat, k # 0 PROVE f[k] = op(f[k - 1], k)
    <3>1. f[k] = g[k][f[k - 1]]
      BY <2>2, <2>3, <2>4
    <3> QED
      BY <1>3, <2>2, <2>3, <2>4, <3>1
  <2>5. \A k \in Nat : f[k] = IF k = 0 THEN s ELSE op(f[k - 1], k)
    BY <2>2, <2>4
  <2>6. f = [k \in Nat |-> f[k]]
    BY <2>2
  <2>7. f = [k \in Nat |-> IF k = 0 THEN s ELSE op(f[k - 1], k)]
    BY <2>5, <2>6
  <2> QED
    BY <2>7
<1>5. Q(b)
  <2> HIDE DEF Q
  <2> QED
    BY <1>4
<1> HIDE DEF b
<1>6. b[0] = s /\ \A n \in Nat : b[n + 1] = op(b[n], n + 1)
  <2>1. \A k \in Nat : b[k] = IF k = 0 THEN s ELSE op(b[k - 1], k)
    BY <1>5
  <2>2. \A n \in Nat : n + 1 \in Nat /\ n + 1 # 0 /\ (n + 1) - 1 = n
    OBVIOUS
  <2> HIDE DEF Q
  <2> QED
    BY <2>1, <2>2
<1>7. \A n \in Nat : b[n] \in X
  <2>1. ASSUME NEW n \in Nat, b[n] \in X PROVE b[n + 1] \in X
    <3>1. n + 1 \in Nat /\ b[n + 1] = op(b[n], n + 1)
      BY <1>6
    <3>2. op(b[n], n + 1) \in X
      BY ONLY <1>1, <2>1, <3>1
    <3> QED
      BY <3>1, <3>2
  <2> QED
    BY <1>6, <2>1, AfterEveryStep
<1>8. ASSUME NEW n \in Nat
      PROVE  HandledTo(s, n + 1) = FirstHandled(HandledTo(s, n))
  <2>1. n + 1 \in Nat /\ b[n + 1] = op(b[n], n + 1)
    BY <1>6
  <2> QED
    BY <1>2, <2>1 DEF op
<1> QED
  BY <1>2, <1>6, <1>7, <1>8

(* Intents in the order of their numbers.                                   *)
LEMMA ForwardedTurns ==
    ASSUME NEW due, NEW s, NEW X, s \in X,
           \A x \in X, k \in Nat : ForwardedAt(x, due, k) \in X
    PROVE  /\ ForwardedTo(s, due, 0) = s
           /\ \A n \in Nat : /\ ForwardedTo(s, due, n) \in X
                             /\ ForwardedTo(s, due, n + 1) = ForwardedAt(ForwardedTo(s, due, n), due, n + 1)
<1> DEFINE op(x, k) == ForwardedAt(x, due, k)
           g == [k \in Nat |-> [x \in X |-> op(x, k)]]
           Q(a) == a = [k \in Nat |-> IF k = 0 THEN s ELSE op(a[k - 1], k)]
           b == CHOOSE a : Q(a)
<1>1. \A x \in X, k \in Nat : op(x, k) \in X
  OBVIOUS
<1>2. \A n \in Nat : ForwardedTo(s, due, n) = b[n]
  BY DEF ForwardedTo, InTurn
<1> HIDE DEF op
<1>3. g \in [Nat -> [X -> X]] /\ \A n \in Nat, x \in X : g[n][x] = op(x, n)
  BY <1>1
<1> HIDE DEF g
<1>4. \E a : Q(a)
  <2>1. PICK f : Follows(f, X, s, g)
    <3>1. g \in [Nat -> [X -> X]]
      BY <1>3
    <3> QED
      BY <3>1, Steps
  <2>2. f \in [Nat -> X] /\ f[0] = s /\ \A n \in Nat : f[n + 1] = g[n + 1][f[n]]
    BY <2>1 DEF Follows
  <2>3. \A k \in Nat : k # 0 => k - 1 \in Nat /\ (k - 1) + 1 = k
    OBVIOUS
  <2>4. ASSUME NEW k \in Nat, k # 0 PROVE f[k] = op(f[k - 1], k)
    <3>1. f[k] = g[k][f[k - 1]]
      BY <2>2, <2>3, <2>4
    <3> QED
      BY <1>3, <2>2, <2>3, <2>4, <3>1
  <2>5. \A k \in Nat : f[k] = IF k = 0 THEN s ELSE op(f[k - 1], k)
    BY <2>2, <2>4
  <2>6. f = [k \in Nat |-> f[k]]
    BY <2>2
  <2>7. f = [k \in Nat |-> IF k = 0 THEN s ELSE op(f[k - 1], k)]
    BY <2>5, <2>6
  <2> QED
    BY <2>7
<1>5. Q(b)
  <2> HIDE DEF Q
  <2> QED
    BY <1>4
<1> HIDE DEF b
<1>6. b[0] = s /\ \A n \in Nat : b[n + 1] = op(b[n], n + 1)
  <2>1. \A k \in Nat : b[k] = IF k = 0 THEN s ELSE op(b[k - 1], k)
    BY <1>5
  <2>2. \A n \in Nat : n + 1 \in Nat /\ n + 1 # 0 /\ (n + 1) - 1 = n
    OBVIOUS
  <2> HIDE DEF Q
  <2> QED
    BY <2>1, <2>2
<1>7. \A n \in Nat : b[n] \in X
  <2>1. ASSUME NEW n \in Nat, b[n] \in X PROVE b[n + 1] \in X
    <3>1. n + 1 \in Nat /\ b[n + 1] = op(b[n], n + 1)
      BY <1>6
    <3>2. op(b[n], n + 1) \in X
      BY ONLY <1>1, <2>1, <3>1
    <3> QED
      BY <3>1, <3>2
  <2> QED
    BY <1>6, <2>1, AfterEveryStep
<1>8. ASSUME NEW n \in Nat
      PROVE  ForwardedTo(s, due, n + 1) = ForwardedAt(ForwardedTo(s, due, n), due, n + 1)
  <2>1. n + 1 \in Nat /\ b[n + 1] = op(b[n], n + 1)
    BY <1>6
  <2> QED
    BY <1>2, <2>1 DEF op
<1> QED
  BY <1>2, <1>6, <1>7, <1>8

(* The durable commands, enqueued one after the other.                      *)
LEMMA EnqueuedTurns ==
    ASSUME NEW s, NEW X, s \in X,
           \A x \in X, k \in Nat : EnqueuedAt(x, s.included, k) \in X
    PROVE  /\ EnqueuedTo(s, 0) = s
           /\ \A n \in Nat : /\ EnqueuedTo(s, n) \in X
                             /\ EnqueuedTo(s, n + 1) = EnqueuedAt(EnqueuedTo(s, n), s.included, n + 1)
<1> DEFINE op(x, k) == EnqueuedAt(x, s.included, k)
           g == [k \in Nat |-> [x \in X |-> op(x, k)]]
           Q(a) == a = [k \in Nat |-> IF k = 0 THEN s ELSE op(a[k - 1], k)]
           b == CHOOSE a : Q(a)
<1>1. \A x \in X, k \in Nat : op(x, k) \in X
  OBVIOUS
<1>2. \A n \in Nat : EnqueuedTo(s, n) = b[n]
  BY DEF EnqueuedTo, InTurn
<1> HIDE DEF op
<1>3. g \in [Nat -> [X -> X]] /\ \A n \in Nat, x \in X : g[n][x] = op(x, n)
  BY <1>1
<1> HIDE DEF g
<1>4. \E a : Q(a)
  <2>1. PICK f : Follows(f, X, s, g)
    <3>1. g \in [Nat -> [X -> X]]
      BY <1>3
    <3> QED
      BY <3>1, Steps
  <2>2. f \in [Nat -> X] /\ f[0] = s /\ \A n \in Nat : f[n + 1] = g[n + 1][f[n]]
    BY <2>1 DEF Follows
  <2>3. \A k \in Nat : k # 0 => k - 1 \in Nat /\ (k - 1) + 1 = k
    OBVIOUS
  <2>4. ASSUME NEW k \in Nat, k # 0 PROVE f[k] = op(f[k - 1], k)
    <3>1. f[k] = g[k][f[k - 1]]
      BY <2>2, <2>3, <2>4
    <3> QED
      BY <1>3, <2>2, <2>3, <2>4, <3>1
  <2>5. \A k \in Nat : f[k] = IF k = 0 THEN s ELSE op(f[k - 1], k)
    BY <2>2, <2>4
  <2>6. f = [k \in Nat |-> f[k]]
    BY <2>2
  <2>7. f = [k \in Nat |-> IF k = 0 THEN s ELSE op(f[k - 1], k)]
    BY <2>5, <2>6
  <2> QED
    BY <2>7
<1>5. Q(b)
  <2> HIDE DEF Q
  <2> QED
    BY <1>4
<1> HIDE DEF b
<1>6. b[0] = s /\ \A n \in Nat : b[n + 1] = op(b[n], n + 1)
  <2>1. \A k \in Nat : b[k] = IF k = 0 THEN s ELSE op(b[k - 1], k)
    BY <1>5
  <2>2. \A n \in Nat : n + 1 \in Nat /\ n + 1 # 0 /\ (n + 1) - 1 = n
    OBVIOUS
  <2> HIDE DEF Q
  <2> QED
    BY <2>1, <2>2
<1>7. \A n \in Nat : b[n] \in X
  <2>1. ASSUME NEW n \in Nat, b[n] \in X PROVE b[n + 1] \in X
    <3>1. n + 1 \in Nat /\ b[n + 1] = op(b[n], n + 1)
      BY <1>6
    <3>2. op(b[n], n + 1) \in X
      BY ONLY <1>1, <2>1, <3>1
    <3> QED
      BY <3>1, <3>2
  <2> QED
    BY <1>6, <2>1, AfterEveryStep
<1>8. ASSUME NEW n \in Nat
      PROVE  EnqueuedTo(s, n + 1) = EnqueuedAt(EnqueuedTo(s, n), s.included, n + 1)
  <2>1. n + 1 \in Nat /\ b[n + 1] = op(b[n], n + 1)
    BY <1>6
  <2> QED
    BY <1>2, <2>1 DEF op
<1> QED
  BY <1>2, <1>6, <1>7, <1>8

(* Ticks, one after the other.                                              *)
LEMMA RunTurns ==
    ASSUME NEW s, NEW X, [sim |-> s, ok |-> TRUE] \in X,
           \A x \in X, k \in Nat : Replays(x, k - 1, s.included) \in X
    PROVE  /\ RunTo(s, 0) = [sim |-> s, ok |-> TRUE]
           /\ \A n \in Nat : /\ RunTo(s, n) \in X
                             /\ RunTo(s, n + 1) = Replays(RunTo(s, n), n + 1 - 1, s.included)
<1> DEFINE op(x, k) == Replays(x, k - 1, s.included)
           g == [k \in Nat |-> [x \in X |-> op(x, k)]]
           Q(a) == a = [k \in Nat |-> IF k = 0 THEN [sim |-> s, ok |-> TRUE] ELSE op(a[k - 1], k)]
           b == CHOOSE a : Q(a)
<1>1. \A x \in X, k \in Nat : op(x, k) \in X
  OBVIOUS
<1>2. \A n \in Nat : RunTo(s, n) = b[n]
  BY DEF RunTo, InTurn
<1> HIDE DEF op
<1>3. g \in [Nat -> [X -> X]] /\ \A n \in Nat, x \in X : g[n][x] = op(x, n)
  BY <1>1
<1> HIDE DEF g
<1>4. \E a : Q(a)
  <2>1. PICK f : Follows(f, X, [sim |-> s, ok |-> TRUE], g)
    <3>1. g \in [Nat -> [X -> X]]
      BY <1>3
    <3> QED
      BY <3>1, Steps
  <2>2. f \in [Nat -> X] /\ f[0] = [sim |-> s, ok |-> TRUE] /\ \A n \in Nat : f[n + 1] = g[n + 1][f[n]]
    BY <2>1 DEF Follows
  <2>3. \A k \in Nat : k # 0 => k - 1 \in Nat /\ (k - 1) + 1 = k
    OBVIOUS
  <2>4. ASSUME NEW k \in Nat, k # 0 PROVE f[k] = op(f[k - 1], k)
    <3>1. f[k] = g[k][f[k - 1]]
      BY <2>2, <2>3, <2>4
    <3> QED
      BY <1>3, <2>2, <2>3, <2>4, <3>1
  <2>5. \A k \in Nat : f[k] = IF k = 0 THEN [sim |-> s, ok |-> TRUE] ELSE op(f[k - 1], k)
    BY <2>2, <2>4
  <2>6. f = [k \in Nat |-> f[k]]
    BY <2>2
  <2>7. f = [k \in Nat |-> IF k = 0 THEN [sim |-> s, ok |-> TRUE] ELSE op(f[k - 1], k)]
    BY <2>5, <2>6
  <2> QED
    BY <2>7
<1>5. Q(b)
  <2> HIDE DEF Q
  <2> QED
    BY <1>4
<1> HIDE DEF b
<1>6. b[0] = [sim |-> s, ok |-> TRUE] /\ \A n \in Nat : b[n + 1] = op(b[n], n + 1)
  <2>1. \A k \in Nat : b[k] = IF k = 0 THEN [sim |-> s, ok |-> TRUE] ELSE op(b[k - 1], k)
    BY <1>5
  <2>2. \A n \in Nat : n + 1 \in Nat /\ n + 1 # 0 /\ (n + 1) - 1 = n
    OBVIOUS
  <2> HIDE DEF Q
  <2> QED
    BY <2>1, <2>2
<1>7. \A n \in Nat : b[n] \in X
  <2>1. ASSUME NEW n \in Nat, b[n] \in X PROVE b[n + 1] \in X
    <3>1. n + 1 \in Nat /\ b[n + 1] = op(b[n], n + 1)
      BY <1>6
    <3>2. op(b[n], n + 1) \in X
      BY ONLY <1>1, <2>1, <3>1
    <3> QED
      BY <3>1, <3>2
  <2> QED
    BY <1>6, <2>1, AfterEveryStep
<1>8. ASSUME NEW n \in Nat
      PROVE  RunTo(s, n + 1) = Replays(RunTo(s, n), n + 1 - 1, s.included)
  <2>1. n + 1 \in Nat /\ b[n + 1] = op(b[n], n + 1)
    BY <1>6
  <2> QED
    BY <1>2, <2>1 DEF op
<1> QED
  BY <1>2, <1>6, <1>7, <1>8

(* Providers, one after the other, in the order of their names.             *)
LEMMA ListedTurns ==
    ASSUME NEW X, <<>> \in X,
           \A x \in X, k \in Nat : ListedWith(x, Provider[k]) \in X
    PROVE  /\ ListedTo(0) = <<>>
           /\ \A n \in Nat : /\ ListedTo(n) \in X
                             /\ ListedTo(n + 1) = ListedWith(ListedTo(n), Provider[n + 1])
<1> DEFINE op(x, k) == ListedWith(x, Provider[k])
           g == [k \in Nat |-> [x \in X |-> op(x, k)]]
           Q(a) == a = [k \in Nat |-> IF k = 0 THEN <<>> ELSE op(a[k - 1], k)]
           b == CHOOSE a : Q(a)
<1>1. \A x \in X, k \in Nat : op(x, k) \in X
  OBVIOUS
<1>2. \A n \in Nat : ListedTo(n) = b[n]
  BY DEF ListedTo, InTurn
<1> HIDE DEF op
<1>3. g \in [Nat -> [X -> X]] /\ \A n \in Nat, x \in X : g[n][x] = op(x, n)
  BY <1>1
<1> HIDE DEF g
<1>4. \E a : Q(a)
  <2>1. PICK f : Follows(f, X, <<>>, g)
    <3>1. g \in [Nat -> [X -> X]]
      BY <1>3
    <3> QED
      BY <3>1, Steps
  <2>2. f \in [Nat -> X] /\ f[0] = <<>> /\ \A n \in Nat : f[n + 1] = g[n + 1][f[n]]
    BY <2>1 DEF Follows
  <2>3. \A k \in Nat : k # 0 => k - 1 \in Nat /\ (k - 1) + 1 = k
    OBVIOUS
  <2>4. ASSUME NEW k \in Nat, k # 0 PROVE f[k] = op(f[k - 1], k)
    <3>1. f[k] = g[k][f[k - 1]]
      BY <2>2, <2>3, <2>4
    <3> QED
      BY <1>3, <2>2, <2>3, <2>4, <3>1
  <2>5. \A k \in Nat : f[k] = IF k = 0 THEN <<>> ELSE op(f[k - 1], k)
    BY <2>2, <2>4
  <2>6. f = [k \in Nat |-> f[k]]
    BY <2>2
  <2>7. f = [k \in Nat |-> IF k = 0 THEN <<>> ELSE op(f[k - 1], k)]
    BY <2>5, <2>6
  <2> QED
    BY <2>7
<1>5. Q(b)
  <2> HIDE DEF Q
  <2> QED
    BY <1>4
<1> HIDE DEF b
<1>6. b[0] = <<>> /\ \A n \in Nat : b[n + 1] = op(b[n], n + 1)
  <2>1. \A k \in Nat : b[k] = IF k = 0 THEN <<>> ELSE op(b[k - 1], k)
    BY <1>5
  <2>2. \A n \in Nat : n + 1 \in Nat /\ n + 1 # 0 /\ (n + 1) - 1 = n
    OBVIOUS
  <2> HIDE DEF Q
  <2> QED
    BY <2>1, <2>2
<1>7. \A n \in Nat : b[n] \in X
  <2>1. ASSUME NEW n \in Nat, b[n] \in X PROVE b[n + 1] \in X
    <3>1. n + 1 \in Nat /\ b[n + 1] = op(b[n], n + 1)
      BY <1>6
    <3>2. op(b[n], n + 1) \in X
      BY ONLY <1>1, <2>1, <3>1
    <3> QED
      BY <3>1, <3>2
  <2> QED
    BY <1>6, <2>1, AfterEveryStep
<1>8. ASSUME NEW n \in Nat
      PROVE  ListedTo(n + 1) = ListedWith(ListedTo(n), Provider[n + 1])
  <2>1. n + 1 \in Nat /\ b[n + 1] = op(b[n], n + 1)
    BY <1>6, SMTT(60)
  <2> QED
    BY <1>2, <2>1 DEF op
<1> QED
  BY <1>2, <1>6, <1>7, <1>8

(* Providers, one after the other, in the order of their restoration.       *)
LEMMA RestoredTurns ==
    ASSUME NEW i, NEW X, Fresh \in X,
           \A x \in X, k \in Nat : Restored(i, x, RestoreOrder[k]) \in X
    PROVE  /\ RestoredTo(i, 0) = Fresh
           /\ \A n \in Nat : /\ RestoredTo(i, n) \in X
                             /\ RestoredTo(i, n + 1) = Restored(i, RestoredTo(i, n), RestoreOrder[n + 1])
<1> DEFINE op(x, k) == Restored(i, x, RestoreOrder[k])
           g == [k \in Nat |-> [x \in X |-> op(x, k)]]
           Q(a) == a = [k \in Nat |-> IF k = 0 THEN Fresh ELSE op(a[k - 1], k)]
           b == CHOOSE a : Q(a)
<1>1. \A x \in X, k \in Nat : op(x, k) \in X
  OBVIOUS
<1>2. \A n \in Nat : RestoredTo(i, n) = b[n]
  BY DEF RestoredTo, InTurn
<1> HIDE DEF op
<1>3. g \in [Nat -> [X -> X]] /\ \A n \in Nat, x \in X : g[n][x] = op(x, n)
  BY <1>1
<1> HIDE DEF g
<1>4. \E a : Q(a)
  <2>1. PICK f : Follows(f, X, Fresh, g)
    <3>1. g \in [Nat -> [X -> X]]
      BY <1>3
    <3> QED
      BY <3>1, Steps
  <2>2. f \in [Nat -> X] /\ f[0] = Fresh /\ \A n \in Nat : f[n + 1] = g[n + 1][f[n]]
    BY <2>1 DEF Follows
  <2>3. \A k \in Nat : k # 0 => k - 1 \in Nat /\ (k - 1) + 1 = k
    OBVIOUS
  <2>4. ASSUME NEW k \in Nat, k # 0 PROVE f[k] = op(f[k - 1], k)
    <3>1. f[k] = g[k][f[k - 1]]
      BY <2>2, <2>3, <2>4
    <3> QED
      BY <1>3, <2>2, <2>3, <2>4, <3>1
  <2>5. \A k \in Nat : f[k] = IF k = 0 THEN Fresh ELSE op(f[k - 1], k)
    BY <2>2, <2>4
  <2>6. f = [k \in Nat |-> f[k]]
    BY <2>2
  <2>7. f = [k \in Nat |-> IF k = 0 THEN Fresh ELSE op(f[k - 1], k)]
    BY <2>5, <2>6
  <2> QED
    BY <2>7
<1>5. Q(b)
  <2> HIDE DEF Q
  <2> QED
    BY <1>4
<1> HIDE DEF b
<1>6. b[0] = Fresh /\ \A n \in Nat : b[n + 1] = op(b[n], n + 1)
  <2>1. \A k \in Nat : b[k] = IF k = 0 THEN Fresh ELSE op(b[k - 1], k)
    BY <1>5
  <2>2. \A n \in Nat : n + 1 \in Nat /\ n + 1 # 0 /\ (n + 1) - 1 = n
    OBVIOUS
  <2> HIDE DEF Q
  <2> QED
    BY <2>1, <2>2
<1>7. \A n \in Nat : b[n] \in X
  <2>1. ASSUME NEW n \in Nat, b[n] \in X PROVE b[n + 1] \in X
    <3>1. n + 1 \in Nat /\ b[n + 1] = op(b[n], n + 1)
      BY <1>6
    <3>2. op(b[n], n + 1) \in X
      BY ONLY <1>1, <2>1, <3>1
    <3> QED
      BY <3>1, <3>2
  <2> QED
    BY <1>6, <2>1, AfterEveryStep
<1>8. ASSUME NEW n \in Nat
      PROVE  RestoredTo(i, n + 1) = Restored(i, RestoredTo(i, n), RestoreOrder[n + 1])
  <2>1. n + 1 \in Nat /\ b[n + 1] = op(b[n], n + 1)
    BY <1>6
  <2> QED
    BY <1>2, <2>1 DEF op
<1> QED
  BY <1>2, <1>6, <1>7, <1>8

(* The commands of a log for one tick, one after the other.                 *)
LEMMA FromLogTurns ==
    ASSUME NEW A, NEW s, NEW X, s \in X,
           \A x \in X, k \in Nat : FromLogAt(A, s.tick, x, k) \in X
    PROVE  /\ FromLog(A, s, 0) = s
           /\ \A n \in Nat : /\ FromLog(A, s, n) \in X
                             /\ FromLog(A, s, n + 1) = FromLogAt(A, s.tick, FromLog(A, s, n), n + 1)
<1> DEFINE op(x, k) == FromLogAt(A, s.tick, x, k)
           g == [k \in Nat |-> [x \in X |-> op(x, k)]]
           Q(a) == a = [k \in Nat |-> IF k = 0 THEN s ELSE op(a[k - 1], k)]
           b == CHOOSE a : Q(a)
<1>1. \A x \in X, k \in Nat : op(x, k) \in X
  OBVIOUS
<1>2. \A n \in Nat : FromLog(A, s, n) = b[n]
  BY DEF FromLog, InTurn
<1> HIDE DEF op
<1>3. g \in [Nat -> [X -> X]] /\ \A n \in Nat, x \in X : g[n][x] = op(x, n)
  BY <1>1
<1> HIDE DEF g
<1>4. \E a : Q(a)
  <2>1. PICK f : Follows(f, X, s, g)
    <3>1. g \in [Nat -> [X -> X]]
      BY <1>3
    <3> QED
      BY <3>1, Steps
  <2>2. f \in [Nat -> X] /\ f[0] = s /\ \A n \in Nat : f[n + 1] = g[n + 1][f[n]]
    BY <2>1 DEF Follows
  <2>3. \A k \in Nat : k # 0 => k - 1 \in Nat /\ (k - 1) + 1 = k
    OBVIOUS
  <2>4. ASSUME NEW k \in Nat, k # 0 PROVE f[k] = op(f[k - 1], k)
    <3>1. f[k] = g[k][f[k - 1]]
      BY <2>2, <2>3, <2>4
    <3> QED
      BY <1>3, <2>2, <2>3, <2>4, <3>1
  <2>5. \A k \in Nat : f[k] = IF k = 0 THEN s ELSE op(f[k - 1], k)
    BY <2>2, <2>4
  <2>6. f = [k \in Nat |-> f[k]]
    BY <2>2
  <2>7. f = [k \in Nat |-> IF k = 0 THEN s ELSE op(f[k - 1], k)]
    BY <2>5, <2>6
  <2> QED
    BY <2>7
<1>5. Q(b)
  <2> HIDE DEF Q
  <2> QED
    BY <1>4
<1> HIDE DEF b
<1>6. b[0] = s /\ \A n \in Nat : b[n + 1] = op(b[n], n + 1)
  <2>1. \A k \in Nat : b[k] = IF k = 0 THEN s ELSE op(b[k - 1], k)
    BY <1>5
  <2>2. \A n \in Nat : n + 1 \in Nat /\ n + 1 # 0 /\ (n + 1) - 1 = n
    OBVIOUS
  <2> HIDE DEF Q
  <2> QED
    BY <2>1, <2>2
<1>7. \A n \in Nat : b[n] \in X
  <2>1. ASSUME NEW n \in Nat, b[n] \in X PROVE b[n + 1] \in X
    <3>1. n + 1 \in Nat /\ b[n + 1] = op(b[n], n + 1)
      BY <1>6
    <3>2. op(b[n], n + 1) \in X
      BY ONLY <1>1, <2>1, <3>1
    <3> QED
      BY <3>1, <3>2
  <2> QED
    BY <1>6, <2>1, AfterEveryStep
<1>8. ASSUME NEW n \in Nat
      PROVE  FromLog(A, s, n + 1) = FromLogAt(A, s.tick, FromLog(A, s, n), n + 1)
  <2>1. n + 1 \in Nat /\ b[n + 1] = op(b[n], n + 1)
    BY <1>6
  <2> QED
    BY <1>2, <2>1 DEF op
<1> QED
  BY <1>2, <1>6, <1>7, <1>8

(* The ticks of a log, one after the other.                                 *)
LEMMA HistoryTurns ==
    ASSUME NEW p, NEW A, NEW X, Begun(p) \in X,
           \A x \in X, k \in Nat : Later(Played(p, A, x)) \in X
    PROVE  /\ History(p, A, 0) = Begun(p)
           /\ \A n \in Nat : /\ History(p, A, n) \in X
                             /\ History(p, A, n + 1) = Later(Played(p, A, History(p, A, n)))
<1> DEFINE op(x, k) == Later(Played(p, A, x))
           g == [k \in Nat |-> [x \in X |-> op(x, k)]]
           Q(a) == a = [k \in Nat |-> IF k = 0 THEN Begun(p) ELSE op(a[k - 1], k)]
           b == CHOOSE a : Q(a)
<1>1. \A x \in X, k \in Nat : op(x, k) \in X
  OBVIOUS
<1>2. \A n \in Nat : History(p, A, n) = b[n]
  BY DEF History, InTurn
<1> HIDE DEF op
<1>3. g \in [Nat -> [X -> X]] /\ \A n \in Nat, x \in X : g[n][x] = op(x, n)
  BY <1>1
<1> HIDE DEF g
<1>4. \E a : Q(a)
  <2>1. PICK f : Follows(f, X, Begun(p), g)
    <3>1. g \in [Nat -> [X -> X]]
      BY <1>3
    <3> QED
      BY <3>1, Steps
  <2>2. f \in [Nat -> X] /\ f[0] = Begun(p) /\ \A n \in Nat : f[n + 1] = g[n + 1][f[n]]
    BY <2>1 DEF Follows
  <2>3. \A k \in Nat : k # 0 => k - 1 \in Nat /\ (k - 1) + 1 = k
    OBVIOUS
  <2>4. ASSUME NEW k \in Nat, k # 0 PROVE f[k] = op(f[k - 1], k)
    <3>1. f[k] = g[k][f[k - 1]]
      BY <2>2, <2>3, <2>4
    <3> QED
      BY <1>3, <2>2, <2>3, <2>4, <3>1
  <2>5. \A k \in Nat : f[k] = IF k = 0 THEN Begun(p) ELSE op(f[k - 1], k)
    BY <2>2, <2>4
  <2>6. f = [k \in Nat |-> f[k]]
    BY <2>2
  <2>7. f = [k \in Nat |-> IF k = 0 THEN Begun(p) ELSE op(f[k - 1], k)]
    BY <2>5, <2>6
  <2> QED
    BY <2>7
<1>5. Q(b)
  <2> HIDE DEF Q
  <2> QED
    BY <1>4
<1> HIDE DEF b
<1>6. b[0] = Begun(p) /\ \A n \in Nat : b[n + 1] = op(b[n], n + 1)
  <2>1. \A k \in Nat : b[k] = IF k = 0 THEN Begun(p) ELSE op(b[k - 1], k)
    BY <1>5
  <2>2. \A n \in Nat : n + 1 \in Nat /\ n + 1 # 0 /\ (n + 1) - 1 = n
    OBVIOUS
  <2> HIDE DEF Q
  <2> QED
    BY <2>1, <2>2
<1>7. \A n \in Nat : b[n] \in X
  <2>1. ASSUME NEW n \in Nat, b[n] \in X PROVE b[n + 1] \in X
    <3>1. n + 1 \in Nat /\ b[n + 1] = op(b[n], n + 1)
      BY <1>6
    <3>2. op(b[n], n + 1) \in X
      BY ONLY <1>1, <2>1, <3>1
    <3> QED
      BY <3>1, <3>2
  <2> QED
    BY <1>6, <2>1, AfterEveryStep
<1>8. ASSUME NEW n \in Nat
      PROVE  History(p, A, n + 1) = Later(Played(p, A, History(p, A, n)))
  <2>1. n + 1 \in Nat /\ b[n + 1] = op(b[n], n + 1)
    BY <1>6
  <2> QED
    BY <1>2, <2>1 DEF op
<1> QED
  BY <1>2, <1>6, <1>7, <1>8

-----------------------------------------------------------------------------

(* The state of a runtime, operation by operation: its type, and that       *)
(* nothing but the enqueueing of a command looks at the pending commands.   *)
LEMMA BootState == Boot \in State /\ Sound(Boot)
<1>1. {} \in Finite(Event) /\ Absent \in Object
  BY FS_EmptySet DEF Finite, Absent, Object, Val
<1>2. Boot \in State
  BY <1>1 DEF Boot, State
<1> QED
  BY <1>2 DEF Sound, Boot, Numbered, FrozenEvents, FrozenIntents, Absent

(* A state with other pending commands is a state, and differs in them      *)
(* only.                                                                    *)
LEMMA HoldingType ==
    ASSUME NEW s \in State, NEW c \in SUBSET Pending, NEW n \in Nat \ {0}, NEW i \in Nat
    PROVE  /\ Holding(s, c, n, i) \in State
           /\ Holding(s, c, n, i).cmds = c /\ Holding(s, c, n, i).nextSeq = n
           /\ Holding(s, c, n, i).included = i
           /\ \A f \in {"tick", "obj", "revision", "erased", "events", "nextEvent",
                        "intents", "nextIntent", "rng"} : Holding(s, c, n, i)[f] = s[f]
BY DEF Holding, State

(* The last pending commands given to a state count.                        *)
LEMMA HoldingTwice ==
    ASSUME NEW s \in State, NEW c, NEW n, NEW i, NEW d, NEW m, NEW j
    PROVE  Holding(Holding(s, c, n, i), d, m, j) = Holding(s, d, m, j)
BY DEF Holding, State

(* A state holds its own pending commands.                                  *)
LEMMA HoldingOwn ==
    ASSUME NEW s \in State
    PROVE  s = Holding(s, s.cmds, s.nextSeq, s.included)
BY DEF Holding, State

(* A state with another world is a state.                                   *)
LEMMA NewWorld ==
    ASSUME NEW s \in State, NEW o \in [Wid -> Object]
    PROVE  /\ [s EXCEPT !.obj = o, !.revision = @ + 1] \in State
           /\ [s EXCEPT !.obj = o, !.erased = @ + 1] \in State
<1>1. \A x \in State : [x EXCEPT !.obj = o] \in State
  BY DEF State
<1>2. [s EXCEPT !.revision = @ + 1] \in State /\ [s EXCEPT !.erased = @ + 1] \in State
  BY DEF State
<1>3. /\ [[s EXCEPT !.revision = @ + 1] EXCEPT !.obj = o] = [s EXCEPT !.obj = o, !.revision = @ + 1]
      /\ [[s EXCEPT !.erased = @ + 1] EXCEPT !.obj = o] = [s EXCEPT !.obj = o, !.erased = @ + 1]
  BY DEF State
<1> QED
  BY <1>1, <1>2, <1>3

(* Setting a property destroys nothing.                                     *)
LEMMA SetPropertyType ==
    ASSUME NEW s \in State, NEW w \in Wid, NEW v \in Val
    PROVE  /\ SetProperty(s, w, v) \in State
           /\ \A u \in Wid : s.obj[u] # Absent => SetProperty(s, w, v).obj[u] # Absent
<1> DEFINE o == [s.obj[w] EXCEPT !.val = v, !.ver = @ + 1]
<1>0. s.obj[w] \in Object
  BY DEF State
<1>1. o \in Object /\ o # Absent
  <2>1. ASSUME NEW x \in Object PROVE [x EXCEPT !.val = v, !.ver = @ + 1] \in Object
    <3>1. [x EXCEPT !.val = v] \in Object
      BY DEF Object
    <3>0. \A y \in Object : [y EXCEPT !.ver = @ + 1] \in Object
      BY DEF Object
    <3>2. [[x EXCEPT !.val = v] EXCEPT !.ver = @ + 1] \in Object
      BY <3>0, <3>1
    <3>3. [[x EXCEPT !.val = v] EXCEPT !.ver = @ + 1] = [x EXCEPT !.val = v, !.ver = @ + 1]
      BY DEF Object
    <3> QED
      BY <3>2, <3>3
  <2>2. \A x \in Object : [x EXCEPT !.val = v, !.ver = @ + 1].ver # 0
    BY DEF Object
  <2> QED
    BY <1>0, <2>1, <2>2 DEF Absent
<1>2. [s.obj EXCEPT ![w] = o] \in [Wid -> Object]
  BY <1>1 DEF State
<1>3. s.obj[w] # Absent => SetProperty(s, w, v) = [s EXCEPT !.obj = [s.obj EXCEPT ![w] = o]]
  BY DEF SetProperty, State, Object
<1> HIDE DEF o
<1>4. [s EXCEPT !.obj = [s.obj EXCEPT ![w] = o]] \in State
  BY <1>2 DEF State
<1>5. s.obj[w] = Absent => SetProperty(s, w, v) = s
  BY DEF SetProperty
<1>6. \A u \in Wid : s.obj[u] # Absent => [s.obj EXCEPT ![w] = o][u] # Absent
  BY <1>1 DEF State
<1>7. [s EXCEPT !.obj = [s.obj EXCEPT ![w] = o]].obj = [s.obj EXCEPT ![w] = o]
  BY DEF State
<1> QED
  BY <1>3, <1>4, <1>5, <1>6, <1>7

(* Setting a property does not look at the pending commands.                *)
LEMMA SetPropertyHolding ==
    ASSUME NEW s \in State, NEW w \in Wid, NEW v, NEW c, NEW n, NEW i
    PROVE  SetProperty(Holding(s, c, n, i), w, v) = Holding(SetProperty(s, w, v), c, n, i)
BY DEF SetProperty, State, Holding

(* Setting a property leaves a state that a checkpoint can hold.            *)
LEMMA SetPropertySound ==
    ASSUME NEW s \in State, Sound(s), NEW w \in Wid, NEW v \in Val
    PROVE  Sound(SetProperty(s, w, v))
<1> DEFINE x == SetProperty(s, w, v)
<1>1. x \in State
  BY SetPropertyType
<1>2. \A f \in DOMAIN s \ {"obj"} : x[f] = s[f]
  BY DEF SetProperty, State
<1>3. \A u \in Wid : x.obj[u].rev = s.obj[u].rev
  BY DEF SetProperty, State, Object
<1> QED
  BY <1>1, <1>2, <1>3 DEF Sound, FrozenEvents, FrozenIntents, Numbered, State

(* A command that may stand in a log.                                       *)
LEMMA ExecutedType ==
    ASSUME NEW s \in State, NEW c, c.op \in Ops
    PROVE  Executed(s, c) \in State
<1> DEFINE op == c.op
<1>1. /\ op.kind \in {"create", "destroy", "set"} /\ op.wid \in Wid /\ op.val \in Val
  BY RuntimeConstants DEF Ops, Seeding, Commands, Set, Val
<1> HIDE DEF op
<1>2. CASE op.kind = "create"
  <2> DEFINE o == [val |-> op.val, ver |-> 1, rev |-> s.revision + 1]
  <2>1. o \in Object
    BY <1>1 DEF Object, State
  <2>2. [s.obj EXCEPT ![op.wid] = o] \in [Wid -> Object]
    BY <2>1 DEF State
  <2>3. Executed(s, c) \in {[s EXCEPT !.obj = [s.obj EXCEPT ![op.wid] = o], !.revision = @ + 1],
                           [s EXCEPT !.revision = @ + 1]}
    BY <1>2 DEF Executed, op, State
  <2> HIDE DEF o
  <2>4. [s EXCEPT !.obj = [s.obj EXCEPT ![op.wid] = o], !.revision = @ + 1] \in State
    BY <2>2, NewWorld
  <2>5. [s EXCEPT !.revision = @ + 1] \in State
    BY DEF State
  <2> QED
    BY <2>3, <2>4, <2>5
<1>3. CASE op.kind = "destroy"
  <2>1. [s.obj EXCEPT ![op.wid] = Absent] \in [Wid -> Object]
    BY DEF State, Object, Absent, Val
  <2>2. Executed(s, c) \in {s, [s EXCEPT !.obj = [s.obj EXCEPT ![op.wid] = Absent], !.erased = @ + 1]}
    BY <1>3 DEF Executed, op, State
  <2>3. [s EXCEPT !.obj = [s.obj EXCEPT ![op.wid] = Absent], !.erased = @ + 1] \in State
    BY <2>1, NewWorld
  <2> QED
    BY <2>2, <2>3
<1>4. CASE op.kind = "set"
  <2>1. Executed(s, c) \in {s, SetProperty(s, op.wid, op.val)}
    BY <1>4 DEF Executed, op
  <2> QED
    BY <1>1, <2>1, SetPropertyType
<1> QED
  BY <1>1, <1>2, <1>3, <1>4

(* A command does not look at the pending commands.                         *)
LEMMA ExecutedHolding ==
    ASSUME NEW s \in State, NEW e, e.op \in Ops, NEW c, NEW n, NEW i
    PROVE  Executed(Holding(s, c, n, i), e) = Holding(Executed(s, e), c, n, i)
<1> DEFINE op == e.op
           h == Holding(s, c, n, i)
<1>1. op.kind \in {"create", "destroy", "set"} /\ op.wid \in Wid
  BY RuntimeConstants DEF Ops, Seeding, Commands, Set
<1>2. h.obj = s.obj /\ h.revision = s.revision /\ h.erased = s.erased
  BY DEF Holding, State
<1>3. CASE op.kind = "create"
  BY <1>3, ZenonT(60) DEF Executed, Holding, State
<1>4. CASE op.kind = "destroy"
  BY <1>4 DEF Executed, Holding, State
<1>5. CASE op.kind = "set"
  <2>1. \A x : Executed(x, e) = IF op.expect # 0 /\ x.obj[op.wid].ver # op.expect THEN x
                                ELSE SetProperty(x, op.wid, op.val)
    BY <1>5 DEF Executed
  <2> QED
    BY <1>1, <1>2, <2>1, SetPropertyHolding
<1> QED
  BY <1>1, <1>3, <1>4, <1>5

(* What a command leaves alone.                                             *)
LEMMA ExecutedElse ==
    ASSUME NEW s \in State, NEW c, c.op \in Ops
    PROVE  \A f \in {"tick", "cmds", "nextSeq", "included", "events", "nextEvent",
                     "intents", "nextIntent", "rng"} : Executed(s, c)[f] = s[f]
<1>1. c.op.kind \in {"create", "destroy", "set"}
  BY RuntimeConstants DEF Ops, Seeding, Commands, Set
<1> QED
  BY <1>1 DEF Executed, SetProperty, State

(* A command writes no revision above the world's, and destroys no lasting  *)
(* object.                                                                  *)
LEMMA ExecutedObjects ==
    ASSUME NEW s \in State, Sound(s), NEW c, c.op \in Ops
    PROVE  /\ \A w \in Wid : Executed(s, c).obj[w].rev <= Executed(s, c).revision
           /\ \A w \in Lasting : s.obj[w] # Absent => Executed(s, c).obj[w] # Absent
<1> DEFINE op == c.op
<1>1. /\ op.kind \in {"create", "destroy", "set"} /\ op.wid \in Wid /\ op.val \in Val
      /\ op.kind = "destroy" => op.wid \notin Lasting
  BY RuntimeConstants DEF Ops, Seeding, Commands, Set, Val
<1>2. s.revision \in Nat /\ \A w \in Wid : s.obj[w].rev \in Nat /\ s.obj[w].rev <= s.revision
  BY DEF State, Object, Sound
<1>3. \A w \in Lasting : w \in Wid
  BY RuntimeConstants
<1>4. CASE op.kind = "create"
  BY <1>1, <1>2, <1>3, <1>4 DEF Executed, State, Absent
<1>5. CASE op.kind = "destroy"
  BY <1>1, <1>2, <1>3, <1>5 DEF Executed, State, Absent
<1>6. CASE op.kind = "set"
  <2>1. Executed(s, c) \in {s, SetProperty(s, op.wid, op.val)}
    BY <1>6 DEF Executed
  <2>2. Sound(SetProperty(s, op.wid, op.val))
    BY <1>1, SetPropertySound
  <2>3. \A u \in Wid : s.obj[u] # Absent => SetProperty(s, op.wid, op.val).obj[u] # Absent
    BY <1>1, SetPropertyType
  <2> QED
    BY <1>2, <1>3, <2>1, <2>2, <2>3 DEF Sound
<1> QED
  BY <1>1, <1>4, <1>5, <1>6

(* A command leaves a state that a checkpoint can hold.                     *)
LEMMA ExecutedSound ==
    ASSUME NEW s \in State, Sound(s), NEW c, c.op \in Ops
    PROVE  Sound(Executed(s, c))
<1>1. Executed(s, c) \in State
  BY ExecutedType
<1> DEFINE x == Executed(s, c)
<1>2. /\ x.events = s.events /\ x.nextEvent = s.nextEvent /\ x.intents = s.intents
      /\ x.nextIntent = s.nextIntent /\ x.cmds = s.cmds
  BY ExecutedElse
<1>3. \A w \in Wid : x.obj[w].rev <= x.revision
  BY ExecutedObjects
<1> HIDE DEF x
<1>4. Sound(x)
  BY <1>1, <1>2, <1>3 DEF Sound, FrozenEvents, FrozenIntents, Numbered, x
<1> QED
  BY <1>4 DEF x

(* x comes after s in the same tick: its commands are the same and lasting  *)
(* objects stay.                                                            *)
Onward(s, x) ==
    /\ Sound(x) /\ x.tick = s.tick
    /\ x.cmds = s.cmds /\ x.nextSeq = s.nextSeq /\ x.included = s.included
    /\ \A w \in Lasting : s.obj[w] # Absent => x.obj[w] # Absent

(* What comes after what comes after comes after.                           *)
LEMMA OnwardAgain ==
    ASSUME NEW s, NEW x, NEW y, Onward(s, x), Onward(x, y)
    PROVE  Onward(s, y)
BY DEF Onward

(* With other pending commands a sound state is sound.                      *)
LEMMA SoundHolding ==
    ASSUME NEW s, Sound(s), NEW c \in SUBSET Pending, NEW n \in Nat \ {0}, NEW i \in Nat
    PROVE  Sound(Holding(s, c, n, i))
<1> DEFINE h == Holding(s, c, n, i)
<1>1. s \in State
  BY DEF Sound
<1>2. /\ h \in State /\ h.obj = s.obj /\ h.revision = s.revision /\ h.events = s.events
      /\ h.nextEvent = s.nextEvent /\ h.intents = s.intents /\ h.nextIntent = s.nextIntent
  BY <1>1, HoldingType
<1> HIDE DEF h
<1>3. Sound(h)
  BY <1>2 DEF Sound, FrozenEvents, FrozenIntents, Numbered
<1> QED
  BY <1>3 DEF h

(* A command stays in its tick.                                             *)
LEMMA ExecutedOnward ==
    ASSUME NEW s, Sound(s), NEW c, c.op \in Ops
    PROVE  Onward(s, Executed(s, c))
<1>1. s \in State
  BY DEF Sound
<1> QED
  BY <1>1, ExecutedSound, ExecutedElse, ExecutedObjects DEF Onward

(* A draw of a random number stays in its tick.                             *)
LEMMA DrawnOnward ==
    ASSUME NEW s, Sound(s)
    PROVE  Onward(s, Drawn(s)) /\ Drawn(s).events = s.events
<1>1. s \in State
  BY DEF Sound
<1>2. Drawn(s) \in State
  BY <1>1 DEF Drawn, State
<1>3. \A f \in DOMAIN s \ {"rng"} : Drawn(s)[f] = s[f]
  BY <1>1 DEF Drawn, State
<1> QED
  BY <1>1, <1>2, <1>3 DEF Onward, Sound, FrozenEvents, FrozenIntents, Numbered, State

(* Setting a property stays in its tick.                                    *)
LEMMA SetPropertyOnward ==
    ASSUME NEW s, Sound(s), NEW w \in Wid, NEW v \in Val
    PROVE  Onward(s, SetProperty(s, w, v)) /\ SetProperty(s, w, v).events = s.events
<1>1. s \in State
  BY DEF Sound
<1>2. \A f \in DOMAIN s \ {"obj"} : SetProperty(s, w, v)[f] = s[f]
  BY <1>1 DEF SetProperty, State
<1>3. Lasting \subseteq Wid
  BY RuntimeConstants
<1> QED
  BY <1>1, <1>2, <1>3, SetPropertyType, SetPropertySound DEF Onward, State

(* Taking an event from the bus stays in its tick.                          *)
LEMMA FewerEvents ==
    ASSUME NEW s, Sound(s), NEW e
    PROVE  Onward(s, [s EXCEPT !.events = @ \ {e}])
<1> DEFINE x == [s EXCEPT !.events = @ \ {e}]
<1>1. s \in State /\ Numbered(FrozenEvents(s))
  BY DEF Sound
<1>2. s.events \ {e} \in Finite(Event)
  BY <1>1, FS_Subset DEF State, Finite
<1>3. x \in State
  BY <1>1, <1>2 DEF State
<1>4. x.events = s.events \ {e} /\ \A f \in DOMAIN s \ {"events"} : x[f] = s[f]
  BY <1>1 DEF State
<1>5. Numbered(FrozenEvents(x))
  BY <1>1, <1>4 DEF Numbered, FrozenEvents, State
<1> QED
  BY <1>1, <1>3, <1>4, <1>5 DEF Onward, Sound, FrozenIntents, State

(* Handling an event stays in its tick.                                     *)
LEMMA HandledOnward ==
    ASSUME NEW s, Sound(s), NEW e \in s.events
    PROVE  Onward(s, Handled(s, e))
<1> DEFINE v == (e.val + s.rng) % 2
           d == Drawn(s)
           y == SetProperty(d, W1, v)
<1>1. v \in Val
  BY DEF Sound, State, Finite, Event, Val
<1>2. W1 \in Wid
  BY RuntimeConstants
<1>3. Onward(s, d)
  BY DrawnOnward
<1> HIDE DEF v, d
<1>4. Onward(d, y)
  BY <1>1, <1>2, <1>3, SetPropertyOnward DEF Onward
<1>5. Onward(y, [y EXCEPT !.events = @ \ {e}])
  BY <1>4, FewerEvents DEF Onward
<1>6. Handled(s, e) = [y EXCEPT !.events = @ \ {e}]
  BY DEF Handled, v, d
<1> HIDE DEF y
<1> QED
  BY <1>3, <1>4, <1>5, <1>6, OnwardAgain

(* Handling an event does not look at the pending commands.                 *)
LEMMA HandledHolding ==
    ASSUME NEW s \in State, NEW e, NEW c, NEW n, NEW i
    PROVE  Handled(Holding(s, c, n, i), e) = Holding(Handled(s, e), c, n, i)
<1> DEFINE h == Holding(s, c, n, i)
           v == (e.val + s.rng) % 2
<1>1. h.rng = s.rng /\ Drawn(h) = Holding(Drawn(s), c, n, i)
  BY DEF Holding, State, Drawn
<1>2. Drawn(s) \in State
  BY DEF State, Drawn
<1>3. W1 \in Wid
  BY RuntimeConstants
<1> HIDE DEF h
<1>4. SetProperty(Drawn(h), W1, v) = Holding(SetProperty(Drawn(s), W1, v), c, n, i)
  BY <1>1, <1>2, <1>3, SetPropertyHolding
<1>5. DOMAIN SetProperty(Drawn(s), W1, v) = DOMAIN s
  BY DEF SetProperty, Drawn, State
<1> DEFINE y == SetProperty(Drawn(s), W1, v)
<1> HIDE DEF y
<1>6. [Holding(y, c, n, i) EXCEPT !.events = @ \ {e}]
         = Holding([y EXCEPT !.events = @ \ {e}], c, n, i)
  BY <1>5 DEF Holding, State, y
<1> QED
  BY <1>1, <1>4, <1>6 DEF Handled, h, y

(* Among events with different numbers one is the first.                    *)
LEMMA FirstEvent ==
    ASSUME NEW due \in SUBSET Event, due # {},
           \A d, e \in due : d.seq = e.seq => d = e
    PROVE  \E e \in due : \A d \in due : d = e \/ EventOrder(e, d)
<1> DEFINE dues == {e.due : e \in due}
<1>1. PICK m \in dues : \A k \in dues : m <= k
  <2>1. dues \in SUBSET Nat /\ dues # {}
    BY DEF Event
  <2> HIDE DEF dues
  <2> QED
    BY <2>1, LeastNumber
<1>2. PICK a \in due : a.due = m
  BY <1>1
<1> DEFINE prios == {1 - e.prio : e \in {d \in due : d.due = m}}
<1>3. PICK q \in prios : \A k \in prios : q <= k
  <2>1. prios \in SUBSET Nat /\ prios # {}
    BY <1>2 DEF Event
  <2> HIDE DEF prios
  <2> QED
    BY <2>1, LeastNumber
<1>4. PICK b \in due : b.due = m /\ q = 1 - b.prio
  BY <1>3
<1> DEFINE seqs == {e.seq : e \in {d \in due : d.due = m /\ d.prio = b.prio}}
<1>5. PICK n \in seqs : \A k \in seqs : n <= k
  <2>1. seqs \in SUBSET Nat /\ seqs # {}
    BY <1>4 DEF Event
  <2> HIDE DEF seqs
  <2> QED
    BY <2>1, LeastNumber
<1>6. PICK e \in due : e.due = m /\ e.prio = b.prio /\ e.seq = n
  BY <1>5
<1>7. ASSUME NEW d \in due, d # e PROVE EventOrder(e, d)
  <2>1. m <= d.due /\ d.due \in Nat /\ e.due \in Nat
    BY <1>1, <1>6 DEF Event
  <2>2. CASE d.due = m
    <3>1. 1 - d.prio \in prios
      BY <2>2
    <3>2. q <= 1 - d.prio /\ d.prio \in {0, 1} /\ b.prio \in {0, 1}
      BY <1>3, <3>1 DEF Event
    <3>3. CASE d.prio = b.prio
      <4>1. n <= d.seq
        BY <1>5, <2>2, <3>3
      <4>2. d.seq # e.seq /\ d.seq \in Nat /\ e.seq \in Nat
        BY <1>7 DEF Event
      <4> QED
        BY <1>6, <2>2, <3>3, <4>1, <4>2 DEF EventOrder
    <3> QED
      BY <1>4, <1>6, <2>2, <3>2, <3>3 DEF EventOrder
  <2> QED
    BY <1>6, <2>1, <2>2 DEF EventOrder
<1> QED
  BY <1>6, <1>7

(* Handling the first event stays in its tick.                              *)
LEMMA FirstHandledOnward ==
    ASSUME NEW s, Sound(s)
    PROVE  Onward(s, FirstHandled(s))
<1> DEFINE due == Due(s.events, s.tick)
           P(e) == \A d \in due : d = e \/ EventOrder(e, d)
           e == CHOOSE d \in due : P(d)
<1>0. s \in State /\ Numbered(FrozenEvents(s))
  BY DEF Sound
<1>1. CASE due = {}
  BY <1>1 DEF FirstHandled, Onward
<1>2. CASE due # {}
  <2>1. due \in SUBSET Event /\ due \subseteq s.events
    BY <1>0 DEF Due, State, Finite
  <2>2. \A d, f \in due : d.seq = f.seq => d = f
    BY <1>0, <2>1 DEF Numbered, FrozenEvents
  <2>3. \E d \in due : P(d)
    <3> HIDE DEF due
    <3> QED
      BY <1>2, <2>1, <2>2, FirstEvent
  <2>4. e \in due
    <3> HIDE DEF P, due
    <3> QED
      BY <2>3
  <2>5. FirstHandled(s) = Handled(s, e)
    BY <1>2 DEF FirstHandled
  <2> HIDE DEF e
  <2> QED
    BY <2>1, <2>4, <2>5, HandledOnward
<1> QED
  BY <1>1, <1>2

(* Handling the first event does not look at the pending commands.          *)
LEMMA FirstHandledHolding ==
    ASSUME NEW s \in State, NEW c, NEW n, NEW i
    PROVE  FirstHandled(Holding(s, c, n, i)) = Holding(FirstHandled(s), c, n, i)
<1>1. Holding(s, c, n, i).events = s.events /\ Holding(s, c, n, i).tick = s.tick
  BY DEF Holding, State
<1>2. \A e : Handled(Holding(s, c, n, i), e) = Holding(Handled(s, e), c, n, i)
  BY HandledHolding
<1> QED
  BY <1>1, <1>2 DEF FirstHandled

(* Doing nothing stays in the tick.                                         *)
LEMMA OnwardItself ==
    ASSUME NEW s, Sound(s)
    PROVE  Onward(s, s)
BY DEF Onward

(* What was true of a number and stays true of the next is true of all.     *)
LEMMA HandledToOnward ==
    ASSUME NEW s, Sound(s)
    PROVE  \A n \in Nat : Onward(s, HandledTo(s, n))
<1> DEFINE X == {x \in State : Onward(s, x)}
<1>1. s \in X
  BY OnwardItself DEF Sound
<1>2. ASSUME NEW x \in X PROVE FirstHandled(x) \in X
  <2>1. Onward(x, FirstHandled(x))
    BY <1>2, FirstHandledOnward DEF Onward
  <2>2. Onward(s, FirstHandled(x))
    BY <1>2, <2>1, OnwardAgain
  <2> QED
    BY <2>2 DEF Onward, Sound
<1> HIDE DEF X
<1>3. \A n \in Nat : HandledTo(s, n) \in X
  BY <1>1, <1>2, HandledTurns
<1> QED
  BY <1>3 DEF X

(* Handling events one after the other does not look at the pending         *)
(* commands.                                                                *)
LEMMA HandledToHolding ==
    ASSUME NEW s, Sound(s), NEW c \in SUBSET Pending, NEW n \in Nat \ {0}, NEW i \in Nat
    PROVE  \A k \in Nat : HandledTo(Holding(s, c, n, i), k) = Holding(HandledTo(s, k), c, n, i)
<1> DEFINE h == Holding(s, c, n, i)
           X == {x \in State : Sound(x)}
           S == {k \in Nat : HandledTo(h, k) = Holding(HandledTo(s, k), c, n, i)}
<1>1. Sound(h) /\ s \in X /\ h \in X
  BY SoundHolding DEF Sound
<1>2. ASSUME NEW x \in X PROVE FirstHandled(x) \in X
  BY <1>2, FirstHandledOnward DEF Onward, Sound
<1> HIDE DEF X, h
<1>3. /\ HandledTo(s, 0) = s
      /\ \A k \in Nat : HandledTo(s, k) \in X /\ HandledTo(s, k + 1) = FirstHandled(HandledTo(s, k))
  BY <1>1, <1>2, HandledTurns
<1>4. /\ HandledTo(h, 0) = h
      /\ \A k \in Nat : HandledTo(h, k) \in X /\ HandledTo(h, k + 1) = FirstHandled(HandledTo(h, k))
  BY <1>1, <1>2, HandledTurns
<1>5. 0 \in S
  BY <1>3, <1>4 DEF h
<1>6. ASSUME NEW k \in S PROVE k + 1 \in S
  <2>1. HandledTo(s, k) \in State
    BY <1>3 DEF X
  <2>2. FirstHandled(Holding(HandledTo(s, k), c, n, i)) = Holding(FirstHandled(HandledTo(s, k)), c, n, i)
    BY <2>1, FirstHandledHolding
  <2>3. HandledTo(h, k + 1) = Holding(HandledTo(s, k + 1), c, n, i)
    BY <1>3, <1>4, <2>2
  <2> QED
    BY <2>3
<1>7. S \in SUBSET Nat
  OBVIOUS
<1> HIDE DEF S
<1>8. S = Nat
  BY <1>5, <1>6, <1>7, EveryNumber
<1> QED
  BY <1>8 DEF S, h

(* Publishing an event for the next tick stays in the tick.                 *)
LEMMA PublishedOnward ==
    ASSUME NEW s, Sound(s), NEW prio \in {0, 1}, NEW v \in Val
    PROVE  Onward(s, Published(s, s.tick + 1, prio, v))
<1> DEFINE e == [seq |-> s.nextEvent, due |-> s.tick + 1, prio |-> prio, val |-> v]
           x == Published(s, s.tick + 1, prio, v)
<1>1. s \in State /\ Numbered(FrozenEvents(s))
  BY DEF Sound
<1>2. e \in Event
  BY <1>1 DEF State, Event
<1>3. e.seq = s.nextEvent
  OBVIOUS
<1>4. x = [s EXCEPT !.events = @ \cup {e}, !.nextEvent = @ + 1]
  BY DEF Published
<1> HIDE DEF e, x
<1>5. s.events \cup {e} \in Finite(Event)
  BY <1>1, <1>2, FS_AddElement DEF State, Finite
<1>6. x \in State
  <2>1. [s EXCEPT !.events = @ \cup {e}] \in State
    BY <1>1, <1>5 DEF State
  <2>2. \A y \in State : [y EXCEPT !.nextEvent = @ + 1] \in State
    BY DEF State
  <2>3. x = [[s EXCEPT !.events = @ \cup {e}] EXCEPT !.nextEvent = @ + 1]
    BY <1>1, <1>4 DEF State
  <2> QED
    BY <2>1, <2>2, <2>3
<1>7. /\ x.events = s.events \cup {e} /\ x.nextEvent = s.nextEvent + 1
      /\ \A f \in DOMAIN s \ {"events", "nextEvent"} : x[f] = s[f]
  BY <1>1, <1>4 DEF State
<1>8. Numbered(FrozenEvents(x))
  <2>1. s.nextEvent \in Nat \ {0}
    BY <1>1 DEF State
  <2> QED
    BY <1>1, <1>3, <1>7, <2>1 DEF Numbered, FrozenEvents
<1>9. Onward(s, x)
  BY <1>1, <1>6, <1>7, <1>8 DEF Onward, Sound, FrozenIntents, State
<1> QED
  BY <1>9 DEF x

(* Publishing does not look at the pending commands.                        *)
LEMMA PublishedHolding ==
    ASSUME NEW s \in State, NEW d, NEW prio, NEW v, NEW c, NEW n, NEW i
    PROVE  Published(Holding(s, c, n, i), d, prio, v) = Holding(Published(s, d, prio, v), c, n, i)
BY DEF Published, Holding, State

(* Dispatching the events stays in the tick.                                *)
LEMMA DispatchedOnward ==
    ASSUME NEW s, Sound(s)
    PROVE  Onward(s, Dispatched(s))
<1> DEFINE k == Cardinality(Due(s.events, s.tick))
           a == HandledTo(s, k)
           b == Published(a, a.tick + 1, 0, 0)
           d == Published(b, b.tick + 1, 1, 1)
<1>1. k \in Nat
  <2>1. Due(s.events, s.tick) \subseteq s.events /\ IsFiniteSet(s.events)
    BY DEF Due, Sound, State, Finite
  <2> QED
    BY <2>1, FS_Subset, FS_CardinalityType
<1> HIDE DEF k
<1>2. Onward(s, a)
  BY <1>1, HandledToOnward
<1> HIDE DEF a
<1>3. Onward(a, b)
  BY <1>2, PublishedOnward DEF Onward, Val
<1>4. a.tick = s.tick /\ b.tick = s.tick
  BY <1>2, <1>3 DEF Onward
<1> HIDE DEF b
<1>5. Onward(b, d)
  BY <1>3, PublishedOnward DEF Onward, Val
<1>6. Dispatched(s) = IF a.events = {} THEN d ELSE a
  BY <1>4 DEF Dispatched, a, b, k
<1> HIDE DEF d
<1>7. Onward(s, d)
  BY <1>2, <1>3, <1>5, OnwardAgain
<1> QED
  BY <1>2, <1>6, <1>7

(* Dispatching does not look at the pending commands.                       *)
LEMMA DispatchedHolding ==
    ASSUME NEW s, Sound(s), NEW c \in SUBSET Pending, NEW n \in Nat \ {0}, NEW i \in Nat
    PROVE  Dispatched(Holding(s, c, n, i)) = Holding(Dispatched(s), c, n, i)
<1> DEFINE h == Holding(s, c, n, i)
           k == Cardinality(Due(s.events, s.tick))
           a == HandledTo(s, k)
           t == s.tick + 1
<1>1. k \in Nat
  <2>1. Due(s.events, s.tick) \subseteq s.events /\ IsFiniteSet(s.events)
    BY DEF Due, Sound, State, Finite
  <2> QED
    BY <2>1, FS_Subset, FS_CardinalityType
<1>2. h.events = s.events /\ h.tick = s.tick
  BY DEF Holding, State, Sound
<1>3. Dispatched(s) = IF a.events = {} THEN Published(Published(a, t, 0, 0), t, 1, 1) ELSE a
  BY DEF Dispatched
<1> HIDE DEF k
<1>4. HandledTo(h, k) = Holding(a, c, n, i)
  BY <1>1, HandledToHolding
<1>5. a \in State
  BY <1>1, HandledToOnward DEF Onward, Sound
<1> HIDE DEF a, h
<1> DEFINE g == Holding(a, c, n, i)
<1>6. Dispatched(h) = IF g.events = {} THEN Published(Published(g, t, 0, 0), t, 1, 1) ELSE g
  BY <1>2, <1>4 DEF Dispatched, k
<1>7. g.events = a.events
  BY <1>5 DEF Holding, State
<1>8. Published(a, t, 0, 0) \in State
  BY <1>5, PublishedOnward, HandledToOnward, <1>1 DEF Onward, Sound, a, Val
<1>9. Published(Published(g, t, 0, 0), t, 1, 1) = Holding(Published(Published(a, t, 0, 0), t, 1, 1), c, n, i)
  BY <1>5, <1>8, PublishedHolding
<1> HIDE DEF g, t
<1> QED
  BY <1>3, <1>6, <1>7, <1>9 DEF g, h

(* The intent a decision makes: to flip the second object's value at the    *)
(* next tick.                                                               *)
DecidedIntent(s) == [seq |-> s.nextIntent, due |-> s.tick + 1, wid |-> W2, val |-> 1 - s.obj[W2].val]

(* A decision stays in its tick.                                            *)
LEMMA DecidedOnward ==
    ASSUME NEW s, Sound(s)
    PROVE  Onward(s, Decided(s))
<1> DEFINE d == DecidedIntent(s)
           x == Decided(s)
<1>0. s \in State /\ W2 \in Wid
  BY RuntimeConstants DEF Sound
<1>1. CASE s.obj[W2] = Absent \/ s.intents # {}
  BY <1>1, OnwardItself DEF Decided
<1>2. CASE ~(s.obj[W2] = Absent \/ s.intents # {})
  <2>1. x = [s EXCEPT !.intents = {d}, !.nextIntent = @ + 1]
    BY <1>2 DEF Decided, DecidedIntent
  <2>2. d \in Intent /\ d.seq = s.nextIntent
    BY <1>0 DEF DecidedIntent, Intent, State, Object, Val
  <2> HIDE DEF d, x
  <2>3. x \in State
    <3>1. [s EXCEPT !.intents = {d}] \in State
      BY <1>0, <2>2 DEF State
    <3>2. \A y \in State : [y EXCEPT !.nextIntent = @ + 1] \in State
      BY DEF State
    <3>3. x = [[s EXCEPT !.intents = {d}] EXCEPT !.nextIntent = @ + 1]
      BY <1>0, <2>1 DEF State
    <3> QED
      BY <3>1, <3>2, <3>3
  <2>4. /\ x.intents = {d} /\ x.nextIntent = s.nextIntent + 1
        /\ \A f \in DOMAIN s \ {"intents", "nextIntent"} : x[f] = s[f]
    BY <1>0, <2>1 DEF State
  <2>5. Numbered(FrozenIntents(x))
    <3>1. s.nextIntent \in Nat \ {0}
      BY <1>0 DEF State
    <3> QED
      BY <2>2, <2>4, <3>1 DEF Numbered, FrozenIntents
  <2>6. Onward(s, x)
    BY <1>0, <2>3, <2>4, <2>5 DEF Onward, Sound, FrozenEvents, State
  <2> QED
    BY <2>6 DEF x
<1> QED
  BY <1>1, <1>2

(* A decision does not look at the pending commands.                        *)
LEMMA DecidedHolding ==
    ASSUME NEW s \in State, NEW c, NEW n, NEW i
    PROVE  Decided(Holding(s, c, n, i)) = Holding(Decided(s), c, n, i)
BY DEF Decided, Holding, State

(* A command with its number.                                               *)
Entry(q, due, lsn, op) == [seq |-> q, due |-> due, lsn |-> lsn, op |-> op]

(* An enqueued command changes the pending commands only.                   *)
LEMMA EnqueuedType ==
    ASSUME NEW s \in State, NEW due \in Nat, NEW lsn \in Nat, NEW op \in Ops
    PROVE  /\ Entry(s.nextSeq, due, lsn, op) \in Pending
           /\ Enqueued(s, due, lsn, op)
                = Holding(s, s.cmds \cup {Entry(s.nextSeq, due, lsn, op)}, s.nextSeq + 1,
                          Larger(s.included, lsn))
           /\ Enqueued(s, due, lsn, op) \in State
<1> DEFINE e == Entry(s.nextSeq, due, lsn, op)
<1>1. e \in Pending
  BY DEF Entry, Pending, State
<1>2. Enqueued(s, due, lsn, op) = Holding(s, s.cmds \cup {e}, s.nextSeq + 1, Larger(s.included, lsn))
  BY DEF Enqueued, Holding, State, Entry
<1> HIDE DEF e
<1>3. s.cmds \cup {e} \in SUBSET Pending /\ s.nextSeq + 1 \in Nat \ {0} /\ Larger(s.included, lsn) \in Nat
  BY <1>1 DEF State, Larger
<1>4. Enqueued(s, due, lsn, op) \in State
  BY <1>2, <1>3, HoldingType
<1> QED
  BY <1>1, <1>2, <1>4 DEF e

(* A forwarded intent becomes a pending command and changes nothing else.   *)
LEMMA ForwardedType ==
    ASSUME NEW s \in State, NEW i \in Intent
    PROVE  /\ Set(i.wid, i.val, 0) \in Ops
           /\ Forwarded(s, i)
                = Holding(s, s.cmds \cup {Entry(s.nextSeq, i.due, 0, Set(i.wid, i.val, 0))},
                          s.nextSeq + 1, s.included)
           /\ Forwarded(s, i) \in State
<1>1. i.wid \in Wid /\ i.val \in Val /\ i.due \in Nat
  BY RuntimeConstants DEF Intent
<1>2. Set(i.wid, i.val, 0) \in Ops
  BY <1>1 DEF Ops, Commands
<1>3. Larger(s.included, 0) = s.included
  BY DEF Larger, State
<1> QED
  BY <1>1, <1>2, <1>3, EnqueuedType DEF Forwarded

(* One intent or none is forwarded in its turn.                             *)
LEMMA ForwardedToType ==
    ASSUME NEW s \in State, NEW due \in SUBSET Intent
    PROVE  /\ ForwardedTo(s, due, 0) = s
           /\ \A n \in Nat : /\ ForwardedTo(s, due, n) \in State
                             /\ ForwardedTo(s, due, n + 1) = ForwardedAt(ForwardedTo(s, due, n), due, n + 1)
<1>1. ASSUME NEW x \in State, NEW k \in Nat PROVE ForwardedAt(x, due, k) \in State
  <2>1. CASE NumberIn(due, k)
    <3>1. Number(due, k) \in due
      BY <2>1 DEF NumberIn, Number
    <3> QED
      BY <2>1, <3>1, ForwardedType DEF ForwardedAt
  <2> QED
    BY <2>1 DEF ForwardedAt
<1> QED
  BY <1>1, ForwardedTurns, ZenonT(60)

(* Without intents nothing is forwarded.                                    *)
LEMMA ForwardedNone ==
    ASSUME NEW s \in State, NEW n \in Nat
    PROVE  ForwardedTo(s, {}, n) = s
<1> DEFINE S == {k \in Nat : ForwardedTo(s, {}, k) = s}
<1>1. \A x, k : ForwardedAt(x, {}, k) = x
  BY DEF ForwardedAt, NumberIn
<1>2. {} \in SUBSET Intent
  OBVIOUS
<1>3. /\ ForwardedTo(s, {}, 0) = s
      /\ \A k \in Nat : ForwardedTo(s, {}, k + 1) = ForwardedAt(ForwardedTo(s, {}, k), {}, k + 1)
  BY <1>2, ForwardedToType
<1>4. 0 \in S /\ \A k \in S : k + 1 \in S
  BY <1>1, <1>3
<1>5. S \in SUBSET Nat
  OBVIOUS
<1> HIDE DEF S
<1>6. n \in S
  BY <1>4, <1>5, EveryNumber
<1> QED
  BY <1>6 DEF S

(* A single intent is forwarded once, whatever its number.                  *)
LEMMA ForwardedOne ==
    ASSUME NEW s \in State, NEW i \in Intent, NEW n \in Nat, i.seq \in 1 .. n
    PROVE  ForwardedTo(s, {i}, n) = Forwarded(s, i)
<1> DEFINE G(k) == ForwardedTo(s, {i}, k)
           S == {k \in Nat : G(k) = IF k < i.seq THEN s ELSE Forwarded(s, i)}
<1>1. \A x, k : ForwardedAt(x, {i}, k) = IF k = i.seq THEN Forwarded(x, i) ELSE x
  <2> TAKE x, k
  <2>1. NumberIn({i}, k) <=> k = i.seq
    BY DEF NumberIn
  <2>2. k = i.seq => Number({i}, k) = i
    BY DEF Number
  <2> QED
    BY <2>1, <2>2 DEF ForwardedAt
<1>2. {i} \in SUBSET Intent
  OBVIOUS
<1>3. G(0) = s /\ \A k \in Nat : G(k + 1) = ForwardedAt(G(k), {i}, k + 1)
  BY <1>2, ForwardedToType
<1> HIDE DEF G
<1>4. 0 \in S
  BY <1>3
<1>5. ASSUME NEW k \in S PROVE k + 1 \in S
  <2>1. G(k + 1) = IF k + 1 = i.seq THEN Forwarded(G(k), i) ELSE G(k)
    BY <1>1, <1>3
  <2>2. G(k) = IF k < i.seq THEN s ELSE Forwarded(s, i)
    OBVIOUS
  <2> QED
    BY <2>1, <2>2
<1>6. S \in SUBSET Nat
  OBVIOUS
<1> HIDE DEF S
<1>7. n \in S
  BY <1>4, <1>5, <1>6, EveryNumber
<1> QED
  BY <1>7 DEF S, G

(* What the end of a step leaves pending: `left`, the one command a         *)
(* decision made or nothing, with the next number.                          *)
Lefts(t) == {left \in SUBSET [due : 0 .. t, op : Ops] : \A c, d \in left : c = d}

(* x with the commands c pending, and with what is left.                    *)
Leaving(x, c, n, i, left) ==
    IF left = {} THEN Holding(x, c, n, i)
    ELSE Holding(x, c \cup {Entry(n, d.due, 0, d.op) : d \in left}, n + 1, i)

(* flushPending() leaves what it leaves, whatever else is pending.          *)
LEMMA FlushedLeaves ==
    ASSUME NEW s, Sound(s)
    PROVE  \E x, left : /\ left \in Lefts(s.tick) /\ Onward(s, x)
                       /\ \A c \in SUBSET Pending, n \in Nat \ {0}, i \in Nat :
                             Flushed(Holding(s, c, n, i)) = Leaving(x, c, n, i, left)
<1> DEFINE due == Due(s.intents, s.tick)
           x == [s EXCEPT !.intents = @ \ due]
           h(c, n, i) == Holding(s, c, n, i)
<1>0. s \in State /\ Numbered(FrozenIntents(s)) /\ due \in SUBSET Intent /\ s.tick \in Nat
      /\ \A i, j \in s.intents : i = j
  BY DEF Sound, State, Due
<1>1. Onward(s, x) /\ x \in State
  <2>1. x \in State
    BY <1>0 DEF State
  <2>2. x.intents \subseteq s.intents /\ \A f \in DOMAIN s \ {"intents"} : x[f] = s[f]
    BY <1>0 DEF State
  <2> HIDE DEF x
  <2> QED
    BY <1>0, <2>1, <2>2 DEF Onward, Sound, Numbered, FrozenIntents, FrozenEvents, State
<1>2. ASSUME NEW c \in SUBSET Pending, NEW n \in Nat \ {0}, NEW i \in Nat
      PROVE  Flushed(h(c, n, i)) = ForwardedTo(Holding(x, c, n, i), due, s.nextIntent - 1)
  <2>1. /\ h(c, n, i).intents = s.intents /\ h(c, n, i).tick = s.tick
        /\ h(c, n, i).nextIntent = s.nextIntent
    BY <1>0 DEF Holding, State
  <2>2. [h(c, n, i) EXCEPT !.intents = @ \ due] = Holding(x, c, n, i)
    BY <1>0 DEF Holding, State
  <2> QED
    BY <2>1, <2>2 DEF Flushed
<1>3. \A c \in SUBSET Pending, n \in Nat \ {0}, i \in Nat : Holding(x, c, n, i) \in State
  BY <1>1, HoldingType
<1>4. s.nextIntent - 1 \in Nat
  BY <1>0 DEF State
<1>5. CASE due = {}
  <2>1. \A c \in SUBSET Pending, n \in Nat \ {0}, i \in Nat :
           Flushed(h(c, n, i)) = Leaving(x, c, n, i, {})
    <3> HIDE DEF x, h
    <3> QED
      BY <1>2, <1>3, <1>4, <1>5, ForwardedNone DEF Leaving
  <2>2. {} \in Lefts(s.tick)
    BY DEF Lefts
  <2> HIDE DEF x
  <2> QED
    BY <1>1, <2>1, <2>2
<1>6. CASE due # {}
  <2>1. PICK j \in due : due = {j}
    BY <1>0, <1>6 DEF Due
  <2>2. j \in Intent /\ j.seq \in 1 .. s.nextIntent - 1 /\ j.due \in 0 .. s.tick
    BY <1>0, <2>1 DEF Numbered, FrozenIntents, Due, Intent
  <2> DEFINE op == Set(j.wid, j.val, 0)
             d == [due |-> j.due, op |-> op]
  <2>3. op \in Ops
    BY <1>0, <2>2, ForwardedType
  <2> HIDE DEF op
  <2>4. {d} \in Lefts(s.tick)
    BY <2>2, <2>3 DEF Lefts
  <2>5. ASSUME NEW c \in SUBSET Pending, NEW n \in Nat \ {0}, NEW i \in Nat
        PROVE  Flushed(h(c, n, i)) = Leaving(x, c, n, i, {d})
    <3> DEFINE y == Holding(x, c, n, i)
    <3>1. y \in State /\ y.cmds = c /\ y.nextSeq = n /\ y.included = i
      BY <1>1, HoldingType
    <3>2. Flushed(h(c, n, i)) = Forwarded(y, j)
      <4> HIDE DEF y, x, h
      <4> QED
        BY <1>2, <1>4, <2>1, <2>2, <3>1, ForwardedOne DEF y
    <3>3. Forwarded(y, j) = Holding(y, c \cup {Entry(n, j.due, 0, op)}, n + 1, i)
      <4> HIDE DEF y
      <4> QED
        BY <2>2, <3>1, ForwardedType DEF op
    <3>4. Holding(y, c \cup {Entry(n, j.due, 0, op)}, n + 1, i)
             = Holding(x, c \cup {Entry(n, j.due, 0, op)}, n + 1, i)
      <4> HIDE DEF x
      <4> QED
        BY <1>1, HoldingTwice
    <3>5. {Entry(n, e.due, 0, e.op) : e \in {d}} = {Entry(n, j.due, 0, op)}
      OBVIOUS
    <3> HIDE DEF d, x, h
    <3> QED
      BY <3>2, <3>3, <3>4, <3>5 DEF Leaving
  <2> HIDE DEF x, d
  <2> QED
    BY <1>1, <2>4, <2>5
<1> QED
  BY <1>5, <1>6

(* The same of all that follows the commands in a step.                     *)
LEMMA PhasesLeave ==
    ASSUME NEW p, NEW s, Sound(s)
    PROVE  \E x, left : /\ left \in Lefts(s.tick) /\ Onward(s, x)
                       /\ \A c \in SUBSET Pending, n \in Nat \ {0}, i \in Nat :
                             Phases(p, Holding(s, c, n, i)) = Leaving(x, c, n, i, left)
<1> DEFINE b(y) == IF "events" \in p THEN Dispatched(y) ELSE y
           d(y) == Decided(y)
<1>1. Onward(s, b(s))
  BY DispatchedOnward, OnwardItself
<1>2. ASSUME NEW c \in SUBSET Pending, NEW n \in Nat \ {0}, NEW i \in Nat
      PROVE  b(Holding(s, c, n, i)) = Holding(b(s), c, n, i)
  BY <1>2, DispatchedHolding
<1>3. \A y : Phases(p, y) = IF "decisions" \in p THEN Flushed(d(b(y))) ELSE b(y)
  BY DEF Phases
<1> HIDE DEF b
<1>4. CASE "decisions" \notin p
  <2>1. {} \in Lefts(s.tick)
    BY DEF Lefts
  <2>2. \A c \in SUBSET Pending, n \in Nat \ {0}, i \in Nat :
           Phases(p, Holding(s, c, n, i)) = Leaving(b(s), c, n, i, {})
    BY <1>2, <1>3, <1>4 DEF Leaving
  <2> QED
    BY <1>1, <2>1, <2>2
<1>5. CASE "decisions" \in p
  <2>1. Sound(b(s)) /\ b(s) \in State /\ b(s).tick = s.tick
    BY <1>1 DEF Onward, Sound
  <2>2. Onward(b(s), d(b(s)))
    BY <2>1, DecidedOnward
  <2>3. \A c, n, i : d(Holding(b(s), c, n, i)) = Holding(d(b(s)), c, n, i)
    BY <2>1, DecidedHolding
  <2> HIDE DEF d
  <2>4. Sound(d(b(s))) /\ d(b(s)).tick = s.tick
    BY <2>1, <2>2 DEF Onward
  <2>5. PICK x, left : /\ left \in Lefts(s.tick) /\ Onward(d(b(s)), x)
                       /\ \A c \in SUBSET Pending, n \in Nat \ {0}, i \in Nat :
                             Flushed(Holding(d(b(s)), c, n, i)) = Leaving(x, c, n, i, left)
    BY <2>4, FlushedLeaves
  <2>6. Onward(s, x)
    BY <1>1, <2>2, <2>5, OnwardAgain
  <2>7. \A c \in SUBSET Pending, n \in Nat \ {0}, i \in Nat :
           Phases(p, Holding(s, c, n, i)) = Leaving(x, c, n, i, left)
    BY <1>2, <1>3, <1>5, <2>3, <2>5
  <2> QED
    BY <2>5, <2>6, <2>7
<1> QED
  BY <1>4, <1>5

(* The commands of a log for a tick, executed in its order, stay in the     *)
(* tick.                                                                    *)
LEMMA FromLogOnward ==
    ASSUME NEW A, LogOK(A), NEW s, Sound(s)
    PROVE  /\ FromLog(A, s, 0) = s
           /\ \A n \in Nat : /\ Onward(s, FromLog(A, s, n))
                             /\ FromLog(A, s, n + 1) = FromLogAt(A, s.tick, FromLog(A, s, n), n + 1)
<1> DEFINE X == {x \in State : Onward(s, x)}
<1>1. s \in X
  BY OnwardItself DEF Sound
<1>2. ASSUME NEW x \in X, NEW l \in Nat PROVE FromLogAt(A, s.tick, x, l) \in X
  <2>1. CASE DueAt(A, l, s.tick)
    <3>1. A[l].rec.op \in Ops
      BY <2>1 DEF DueAt, LogOK
    <3>2. Onward(x, Executed(x, A[l].rec))
      BY <1>2, <3>1, ExecutedOnward DEF Onward
    <3>3. Onward(s, Executed(x, A[l].rec))
      BY <1>2, <3>2, OnwardAgain
    <3> QED
      BY <2>1, <3>3 DEF FromLogAt, Onward, Sound
  <2> QED
    BY <1>2, <2>1 DEF FromLogAt
<1> HIDE DEF X
<1>3. /\ FromLog(A, s, 0) = s
      /\ \A n \in Nat : /\ FromLog(A, s, n) \in X
                        /\ FromLog(A, s, n + 1) = FromLogAt(A, s.tick, FromLog(A, s, n), n + 1)
  BY <1>1, <1>2, FromLogTurns
<1> QED
  BY <1>3 DEF X

(* Only what it asks for matters of a command.                              *)
LEMMA ExecutedSame ==
    ASSUME NEW s, NEW c, NEW d, c.op = d.op
    PROVE  Executed(s, c) = Executed(s, d)
BY DEF Executed

(* Records that are not commands for this tick change nothing.              *)
LEMMA FromLogSkips ==
    ASSUME NEW A, LogOK(A), NEW s, Sound(s), NEW m \in Nat, NEW l \in Nat, m <= l,
           \A k \in m + 1 .. l : ~DueAt(A, k, s.tick)
    PROVE  FromLog(A, s, l) = FromLog(A, s, m)
<1> DEFINE E(k) == FromLog(A, s, k)
           S == {k \in Nat : m <= k /\ k <= l => E(k) = E(m)}
<1>1. \A k \in Nat : E(k + 1) = FromLogAt(A, s.tick, E(k), k + 1)
  BY FromLogOnward
<1> HIDE DEF E
<1>2. 0 \in S
  OBVIOUS
<1>3. ASSUME NEW k \in S PROVE k + 1 \in S
  <2>1. CASE m <= k /\ k + 1 <= l
    <3>1. ~DueAt(A, k + 1, s.tick) /\ k \in Nat /\ E(k) = E(m)
      BY <2>1
    <3>2. E(k + 1) = E(k)
      BY <1>1, <3>1 DEF FromLogAt
    <3> QED
      BY <3>1, <3>2
  <2>2. CASE k + 1 = m
    BY <2>2
  <2> QED
    BY <2>1, <2>2
<1>4. S \in SUBSET Nat
  OBVIOUS
<1> HIDE DEF S
<1>5. l \in S
  BY <1>2, <1>3, <1>4, EveryNumber
<1> QED
  BY <1>5 DEF S, E

(* Pending commands executed in the order of their numbers stay in the      *)
(* tick.                                                                    *)
LEMMA ExecutedToOnward ==
    ASSUME NEW due \in SUBSET Pending, NEW s, Sound(s)
    PROVE  /\ ExecutedTo(s, due, 0) = s
           /\ \A n \in Nat : /\ Onward(s, ExecutedTo(s, due, n))
                             /\ ExecutedTo(s, due, n + 1) = ExecutedAt(ExecutedTo(s, due, n), due, n + 1)
<1> DEFINE X == {x \in State : Onward(s, x)}
<1>1. s \in X
  BY OnwardItself DEF Sound
<1>2. ASSUME NEW x \in X, NEW q \in Nat PROVE ExecutedAt(x, due, q) \in X
  <2>1. CASE NumberIn(due, q)
    <3> DEFINE c == Number(due, q)
    <3>1. c \in due
      BY <2>1 DEF NumberIn, Number
    <3> HIDE DEF c
    <3>2. c.op \in Ops
      BY <3>1 DEF Pending
    <3>3. Onward(x, Executed(x, c))
      BY <1>2, <3>2, ExecutedOnward DEF Onward
    <3>4. Onward(s, Executed(x, c))
      BY <1>2, <3>3, OnwardAgain
    <3> QED
      BY <2>1, <3>4 DEF ExecutedAt, Onward, Sound, c
  <2> QED
    BY <1>2, <2>1 DEF ExecutedAt
<1> HIDE DEF X
<1>3. /\ ExecutedTo(s, due, 0) = s
      /\ \A n \in Nat : /\ ExecutedTo(s, due, n) \in X
                        /\ ExecutedTo(s, due, n + 1) = ExecutedAt(ExecutedTo(s, due, n), due, n + 1)
  BY <1>1, <1>2, ExecutedTurns, ZenonT(60)
<1> QED
  BY <1>3 DEF X

(* A number no pending command has changes nothing.                         *)
LEMMA ExecutedToSkips ==
    ASSUME NEW due \in SUBSET Pending, NEW s, Sound(s), NEW m \in Nat, NEW l \in Nat, m <= l,
           \A k \in m + 1 .. l : ~NumberIn(due, k)
    PROVE  ExecutedTo(s, due, l) = ExecutedTo(s, due, m)
<1> DEFINE E(k) == ExecutedTo(s, due, k)
           S == {k \in Nat : m <= k /\ k <= l => E(k) = E(m)}
<1>1. \A k \in Nat : E(k + 1) = ExecutedAt(E(k), due, k + 1)
  BY ExecutedToOnward
<1> HIDE DEF E
<1>2. 0 \in S
  OBVIOUS
<1>3. ASSUME NEW k \in S PROVE k + 1 \in S
  <2>1. CASE m <= k /\ k + 1 <= l
    <3>1. ~NumberIn(due, k + 1) /\ k \in Nat /\ E(k) = E(m)
      BY <2>1
    <3>2. E(k + 1) = E(k)
      BY <1>1, <3>1 DEF ExecutedAt
    <3> QED
      BY <3>1, <3>2
  <2>2. CASE k + 1 = m
    BY <2>2
  <2> QED
    BY <2>1, <2>2
<1>4. S \in SUBSET Nat
  OBVIOUS
<1> HIDE DEF S
<1>5. l \in S
  BY <1>2, <1>3, <1>4, EveryNumber
<1> QED
  BY <1>5 DEF S, E

(* Executing some commands does not look at what else is pending.           *)
LEMMA ExecutedToHolding ==
    ASSUME NEW due \in SUBSET Pending, NEW s, Sound(s),
           NEW c \in SUBSET Pending, NEW n \in Nat \ {0}, NEW i \in Nat
    PROVE  \A k \in Nat : ExecutedTo(Holding(s, c, n, i), due, k) = Holding(ExecutedTo(s, due, k), c, n, i)
<1> DEFINE h == Holding(s, c, n, i)
           E(k) == ExecutedTo(s, due, k)
           F(k) == ExecutedTo(h, due, k)
           S == {k \in Nat : F(k) = Holding(E(k), c, n, i)}
<1>1. Sound(h)
  BY SoundHolding
<1>2. E(0) = s /\ \A k \in Nat : E(k) \in State /\ E(k + 1) = ExecutedAt(E(k), due, k + 1)
  <2>1. \A x : Onward(s, x) => x \in State
    BY DEF Onward, Sound
  <2> QED
    BY <2>1, ExecutedToOnward
<1> HIDE DEF h
<1>3. F(0) = h /\ \A k \in Nat : F(k + 1) = ExecutedAt(F(k), due, k + 1)
  BY <1>1, ExecutedToOnward
<1> HIDE DEF E, F
<1>4. 0 \in S
  BY <1>2, <1>3 DEF h
<1>5. ASSUME NEW k \in S PROVE k + 1 \in S
  <2> DEFINE e == Number(due, k + 1)
  <2>1. NumberIn(due, k + 1) => e.op \in Ops
    BY DEF NumberIn, Number, Pending
  <2> HIDE DEF e
  <2>2. NumberIn(due, k + 1) => Executed(Holding(E(k), c, n, i), e) = Holding(Executed(E(k), e), c, n, i)
    BY <1>2, <2>1, ExecutedHolding
  <2>3. ExecutedAt(Holding(E(k), c, n, i), due, k + 1) = Holding(ExecutedAt(E(k), due, k + 1), c, n, i)
    BY <2>2 DEF ExecutedAt, e
  <2>4. F(k + 1) = Holding(E(k + 1), c, n, i)
    BY <1>2, <1>3, <2>3
  <2> QED
    BY <2>4
<1>6. S \in SUBSET Nat
  OBVIOUS
<1> HIDE DEF S
<1>7. S = Nat
  BY <1>4, <1>5, <1>6, EveryNumber
<1> QED
  BY <1>7 DEF S, E, F, h

(* No command of a log after the n-th record is for a tick up to t; there   *)
(* is none at all.                                                          *)
AllLater(A, n, t) == \A l \in n + 1 .. Len(A) : IsCommand(A, l) => A[l].due > t
NoneAfter(A, n)   == \A l \in n + 1 .. Len(A) : ~IsCommand(A, l)

(* The commands that are due, one by one in the order of their numbers, do  *)
(* what the log says; the last of them may be one a decision has left.      *)
LEMMA InLogOrder ==
    ASSUME NEW A, LogOK(A), NEW s, Sound(s), NEW due \in SUBSET Pending, NEW last \in Nat,
           \A c \in due : c.seq \in 1 .. last /\ \A d \in due : c.seq = d.seq => c = d,
           \A c \in due : c.lsn # 0 =>
              /\ DueAt(A, c.lsn, s.tick) /\ c.op = A[c.lsn].rec.op
              /\ \A d \in due : d.lsn # 0 => (d.lsn < c.lsn <=> d.seq < c.seq),
           \A l : DueAt(A, l, s.tick) => \E c \in due : c.lsn = l
    PROVE  \A q \in Nat, l \in 0 .. Len(A) :
              (\A c \in due : c.seq <= q <=> c.lsn # 0 /\ c.lsn <= l)
                 => ExecutedTo(s, due, q) = FromLog(A, s, l)
<1> DEFINE G(q) == ExecutedTo(s, due, q)
           E(l) == FromLog(A, s, l)
           Same(q, l) == \A c \in due : c.seq <= q <=> c.lsn # 0 /\ c.lsn <= l
           S == {q \in Nat : \A l \in 0 .. Len(A) : Same(q, l) => G(q) = E(l)}
<1>0. /\ Len(A) \in Nat /\ DOMAIN A = 1 .. Len(A)
      /\ \A c \in due : c.seq \in Nat \ {0} /\ c.lsn \in Nat
  BY LenProperties DEF LogOK, Pending
<1>1. G(0) = s /\ \A q \in Nat : G(q + 1) = ExecutedAt(G(q), due, q + 1)
  BY ExecutedToOnward
<1>2. E(0) = s /\ \A l \in Nat : E(l + 1) = FromLogAt(A, s.tick, E(l), l + 1)
  BY FromLogOnward
<1>3. ASSUME NEW m \in Nat, NEW l \in Nat, m <= l,
             \A c \in due : ~(c.lsn \in m + 1 .. l)
      PROVE  E(l) = E(m)
  <2>1. \A k \in m + 1 .. l : ~DueAt(A, k, s.tick)
    BY <1>3
  <2> QED
    BY <1>3, <2>1, FromLogSkips
<1> HIDE DEF G, E
<1>4. 0 \in S
  <2> SUFFICES ASSUME NEW l \in 0 .. Len(A), Same(0, l) PROVE G(0) = E(l)
    OBVIOUS
  <2>1. \A c \in due : ~(c.lsn \in 0 + 1 .. l)
    BY <1>0
  <2>2. l \in Nat
    BY <1>0
  <2>3. E(l) = E(0)
    BY <1>3, <2>1, <2>2
  <2> QED
    BY <1>1, <1>2, <2>3
<1>5. ASSUME NEW q \in S PROVE q + 1 \in S
  <2> SUFFICES ASSUME NEW l \in 0 .. Len(A), Same(q + 1, l) PROVE G(q + 1) = E(l)
    OBVIOUS
  <2>0. q \in Nat /\ l \in Nat
    BY <1>0
  <2>1. CASE ~NumberIn(due, q + 1)
    <3>1. Same(q, l)
      BY <1>0, <2>0, <2>1 DEF NumberIn
    <3>2. G(q) = E(l)
      BY <3>1
    <3> QED
      BY <1>1, <2>0, <2>1, <3>2 DEF ExecutedAt
  <2>2. CASE NumberIn(due, q + 1)
    <3> DEFINE c == Number(due, q + 1)
    <3>1. c \in due /\ c.seq = q + 1
      BY <2>2 DEF NumberIn, Number
    <3> HIDE DEF c
    <3>2. c.lsn # 0 /\ c.lsn <= l /\ c.lsn \in Nat
      BY <1>0, <2>0, <3>1
    <3> DEFINE m == c.lsn - 1
    <3>3. m \in Nat /\ m + 1 = c.lsn /\ m \in 0 .. Len(A)
      BY <1>0, <3>2
    <3>4. Same(q, m)
      <4> TAKE d \in due
      <4>1. d.seq <= q <=> d.seq < c.seq
        BY <1>0, <2>0, <3>1
      <4>2. d.lsn # 0 => (d.lsn < c.lsn <=> d.seq < c.seq)
        BY <3>1, <3>2
      <4>3. d.seq <= q => d.lsn # 0
        BY <1>0, <2>0
      <4>4. d.lsn <= m <=> d.lsn < c.lsn
        BY <1>0, <3>3
      <4> QED
        BY <4>1, <4>2, <4>3, <4>4
    <3>5. G(q) = E(m)
      BY <3>3, <3>4
    <3>6. G(q + 1) = Executed(E(m), c)
      BY <1>1, <2>0, <2>2, <3>5 DEF ExecutedAt, c
    <3>7. DueAt(A, m + 1, s.tick) /\ c.op = A[m + 1].rec.op
      BY <3>1, <3>2, <3>3
    <3>8. E(m + 1) = Executed(E(m), c)
      <4>1. E(m + 1) = FromLogAt(A, s.tick, E(m), m + 1)
        BY <1>2, <3>3
      <4>2. Executed(E(m), c) = Executed(E(m), A[m + 1].rec)
        BY <3>7, ExecutedSame
      <4> HIDE DEF m
      <4> QED
        BY <3>7, <4>1, <4>2 DEF FromLogAt
    <3>9. \A d \in due : ~(d.lsn \in c.lsn + 1 .. l)
      <4> SUFFICES ASSUME NEW d \in due, d.lsn \in c.lsn + 1 .. l PROVE FALSE
        OBVIOUS
      <4>1. d.lsn # 0 /\ d.lsn <= l /\ ~(d.lsn < c.lsn) /\ d.lsn # c.lsn
        BY <3>2, <2>0
      <4>2. d.seq <= q + 1
        BY <4>1
      <4>3. ~(d.seq < c.seq)
        BY <3>1, <3>2, <4>1
      <4>4. d.seq = c.seq
        BY <1>0, <2>0, <3>1, <4>2, <4>3
      <4> QED
        BY <3>1, <4>1, <4>4
    <3>10. E(l) = E(c.lsn)
      BY <1>3, <2>0, <3>2, <3>9
    <3> QED
      BY <3>3, <3>6, <3>8, <3>10
  <2> QED
    BY <2>1, <2>2
<1>6. S \in SUBSET Nat
  OBVIOUS
<1> HIDE DEF S
<1>7. S = Nat
  BY <1>4, <1>5, <1>6, EveryNumber
<1> QED
  BY <1>7 DEF S, G, E

(* So the commands of a state that agrees with a log do what the log says.  *)
LEMMA AppliedCommanded ==
    ASSUME NEW A, LogOK(A), NEW h, Sound(h), \A c, d \in h.cmds : c = d,
           NEW s, s.cmds \in SUBSET Pending, s.nextSeq \in Nat \ {0}, s.included \in Nat,
           s = Holding(h, s.cmds, s.nextSeq, s.included),
           PendingOf(A, s, h.cmds), AllLater(A, s.included, s.tick)
    PROVE  /\ Onward(h, LeftOver(FromLog(A, h, Len(A)), h.cmds))
           /\ Applied(s) = Holding(LeftOver(FromLog(A, h, Len(A)), h.cmds),
                                  s.cmds \ Due(s.cmds, s.tick), s.nextSeq, s.included)
<1> DEFINE due == Due(s.cmds, s.tick)
           last == s.nextSeq - 1
           E == FromLog(A, h, Len(A))
<1>0. /\ Len(A) \in Nat /\ DOMAIN A = 1 .. Len(A) /\ last \in Nat /\ s.tick = h.tick
      /\ h \in State /\ h.tick \in Nat
  <2>1. h \in State /\ h.tick \in Nat
    BY DEF Sound, State
  <2>2. Len(A) \in Nat /\ DOMAIN A = 1 .. Len(A)
    BY LenProperties DEF LogOK
  <2>3. Holding(h, s.cmds, s.nextSeq, s.included).tick = h.tick
    BY <2>1, HoldingType
  <2> QED
    BY <2>1, <2>2, <2>3
<1>1. /\ due \in SUBSET Pending /\ due \subseteq s.cmds
      /\ \A c \in s.cmds : c \in due <=> c.due <= h.tick
  BY <1>0 DEF Due
<1>2. /\ \A c \in s.cmds : c.seq \in 1 .. last /\ \A d \in s.cmds : c.seq = d.seq => c = d
      /\ \A c \in s.cmds : Logged(A, s, c) \/ Left(s, h.cmds, c)
      /\ \A c \in s.cmds : c.due \in Nat /\ c.lsn \in Nat /\ c.op \in Ops
      /\ s.included \in 0 .. Len(A)
  BY DEF PendingOf, Numbered, FrozenCommands, Pending
<1>3. \A c \in due : c.seq \in 1 .. last /\ \A d \in due : c.seq = d.seq => c = d
  BY <1>1, <1>2
<1>4. \A c \in due : c.lsn # 0 =>
         /\ DueAt(A, c.lsn, h.tick) /\ c.op = A[c.lsn].rec.op
         /\ \A d \in due : d.lsn # 0 => (d.lsn < c.lsn <=> d.seq < c.seq)
  <2> SUFFICES ASSUME NEW c \in due, c.lsn # 0
               PROVE  /\ DueAt(A, c.lsn, h.tick) /\ c.op = A[c.lsn].rec.op
                      /\ \A d \in due : d.lsn # 0 => (d.lsn < c.lsn <=> d.seq < c.seq)
    OBVIOUS
  <2>1. Logged(A, s, c)
    BY <1>1, <1>2 DEF Left
  <2>2. c.due = h.tick /\ c.lsn \in DOMAIN A
    <3>1. c.due >= h.tick /\ c.due <= h.tick /\ c.lsn \in 1 .. s.included
      BY <1>0, <1>1, <2>1 DEF Logged
    <3> QED
      BY <1>0, <1>1, <1>2, <3>1
  <2> QED
    BY <1>1, <2>1, <2>2 DEF Logged, DueAt
<1>5. ASSUME NEW l, DueAt(A, l, h.tick) PROVE \E c \in due : c.lsn = l
  <2>1. l \in 1 .. Len(A) /\ IsCommand(A, l) /\ A[l].due = h.tick
    BY <1>0, <1>5 DEF DueAt
  <2>2. l \in 1 .. s.included
    BY <1>0, <1>2, <2>1 DEF AllLater
  <2>3. PICK c \in s.cmds : c.lsn = l
    BY <1>0, <2>1, <2>2 DEF PendingOf
  <2>4. Logged(A, s, c)
    BY <1>2, <2>2, <2>3 DEF Left
  <2>5. c \in due
    BY <1>0, <1>1, <2>1, <2>3, <2>4 DEF Logged
  <2> QED
    BY <2>3, <2>5
<1> HIDE DEF due, last
<1>6. \A q \in Nat, l \in 0 .. Len(A) :
         (\A c \in due : c.seq <= q <=> c.lsn # 0 /\ c.lsn <= l)
            => ExecutedTo(h, due, q) = FromLog(A, h, l)
  BY <1>0, <1>1, <1>3, <1>4, <1>5, InLogOrder, SMTT(60)
<1>7. Onward(h, E)
  BY <1>0, FromLogOnward
<1>8. /\ Onward(h, LeftOver(E, h.cmds))
      /\ ExecutedTo(h, due, last) = LeftOver(E, h.cmds)
  <2>1. CASE h.cmds = {}
    <3>1. \A c \in due : c.lsn # 0 /\ c.lsn <= Len(A) /\ c.seq <= last
      BY <1>0, <1>1, <1>2, <2>1 DEF Logged, Left
    <3>2. ExecutedTo(h, due, last) = E
      BY <1>0, <1>6, <3>1
    <3> QED
      BY <1>7, <2>1, <3>2 DEF LeftOver
  <2>2. CASE h.cmds # {}
    <3>1. PICK b \in s.cmds : b.lsn = 0
      BY <2>2 DEF PendingOf
    <3>2. Left(s, h.cmds, b)
      BY <1>2, <3>1 DEF Logged
    <3>3. b \in due /\ b.seq \in 1 .. last
      BY <1>0, <1>1, <1>2, <3>2 DEF Left
    <3>4. \A d \in due : d # b => d.lsn # 0 /\ d.seq < b.seq
      BY <1>0, <1>1, <3>2 DEF Left
    <3> DEFINE q == b.seq - 1
               e == CHOOSE c \in h.cmds : TRUE
    <3>5. q \in Nat /\ q + 1 = b.seq /\ b.seq \in Nat
      BY <1>0, <3>3
    <3>6. \A c \in due : c.seq <= q <=> c.lsn # 0 /\ c.lsn <= Len(A)
      <4> TAKE c \in due
      <4>1. CASE c = b
        BY <3>1, <3>5, <4>1
      <4>2. CASE c # b
        <5>1. c.lsn # 0 /\ c.seq < b.seq /\ c.seq \in Nat
          BY <1>0, <1>3, <3>4, <4>2
        <5>2. Logged(A, s, c)
          BY <1>1, <1>2, <5>1 DEF Left
        <5>3. c.lsn <= Len(A)
          BY <1>0, <1>2, <5>2 DEF Logged
        <5> QED
          BY <3>5, <5>1, <5>3
      <4> QED
        BY <4>1, <4>2
    <3>7. ExecutedTo(h, due, q) = E
      BY <1>0, <1>6, <3>5, <3>6
    <3>8. NumberIn(due, q + 1) /\ Number(due, q + 1) = b
      BY <1>3, <3>3, <3>5 DEF NumberIn, Number
    <3>9. ExecutedTo(h, due, q + 1) = ExecutedAt(ExecutedTo(h, due, q), due, q + 1)
      BY <1>1, <3>5, ExecutedToOnward
    <3> HIDE DEF E
    <3>10. ExecutedTo(h, due, b.seq) = Executed(E, b)
      BY <3>5, <3>7, <3>8, <3>9 DEF ExecutedAt
    <3>11. \A k \in b.seq + 1 .. last : ~NumberIn(due, k)
      <4> SUFFICES ASSUME NEW k \in b.seq + 1 .. last, NEW c \in due, c.seq = k PROVE FALSE
        BY DEF NumberIn
      <4>1. c # b
        BY <3>5
      <4> QED
        BY <1>0, <3>4, <3>5, <4>1
    <3>12. ExecutedTo(h, due, last) = ExecutedTo(h, due, b.seq)
      <4>1. b.seq <= last
        BY <3>3
      <4> QED
        BY <1>0, <1>1, <3>5, <3>11, <4>1, ExecutedToSkips
    <3>13. e \in h.cmds /\ b.op = e.op
      <4>1. e \in h.cmds
        BY <2>2
      <4> QED
        BY <3>2, <4>1 DEF Left
    <3>14. LeftOver(E, h.cmds) = Executed(E, e)
      BY <2>2 DEF LeftOver
    <3> HIDE DEF e
    <3>15. Executed(E, b) = Executed(E, e)
      BY <3>13, ExecutedSame
    <3>16. e.op \in Ops
      BY <1>2, <3>13
    <3>17. Onward(h, Executed(E, e))
      <4>1. Onward(E, Executed(E, e))
        BY <1>7, <3>16, ExecutedOnward DEF Onward, E
      <4> QED
        BY <1>7, <4>1, OnwardAgain DEF E
    <3> QED
      BY <3>10, <3>12, <3>14, <3>15, <3>17
  <2> QED
    BY <2>1, <2>2
<1>9. s \in State
  BY <1>0, HoldingType
<1>10. [s EXCEPT !.cmds = @ \ due] = Holding(h, s.cmds \ due, s.nextSeq, s.included)
  <2>1. [s EXCEPT !.cmds = @ \ due] = Holding(s, s.cmds \ due, s.nextSeq, s.included)
    BY <1>9 DEF Holding, State
  <2>2. Holding(Holding(h, s.cmds, s.nextSeq, s.included), s.cmds \ due, s.nextSeq, s.included)
           = Holding(h, s.cmds \ due, s.nextSeq, s.included)
    BY <1>0, HoldingTwice
  <2> QED
    BY <2>1, <2>2
<1>11. Applied(s) = ExecutedTo(Holding(h, s.cmds \ due, s.nextSeq, s.included), due, last)
  BY <1>10 DEF Applied, due, last
<1>12. s.cmds \ due \in SUBSET Pending
  BY <1>1
<1>13. Applied(s) = Holding(ExecutedTo(h, due, last), s.cmds \ due, s.nextSeq, s.included)
  BY <1>0, <1>1, <1>11, <1>12, ExecutedToHolding
<1> QED
  BY <1>8, <1>13 DEF due

(* The state at every tick of a log.                                        *)

(* Not two of them.                                                         *)
AtMostOne(set) == \A c, d \in set : c = d

(* What is left, as a pending command.                                      *)
Notes(n, left) == {Entry(n, d.due, 0, d.op) : d \in left}

(* What a step leaves, in one expression.                                   *)
LEMMA LeavingShape ==
    ASSUME NEW x, NEW c, NEW n, NEW i, NEW left
    PROVE  Leaving(x, c, n, i, left)
              = Holding(x, c \cup Notes(n, left), IF left = {} THEN n ELSE n + 1, i)
<1>1. left = {} => c \cup Notes(n, left) = c
  BY DEF Notes
<1> QED
  BY <1>1 DEF Leaving, Notes

(* A step leaves one command at most.                                       *)
LEMMA NotesType ==
    ASSUME NEW n \in Nat \ {0}, NEW t \in Nat, NEW left \in Lefts(t)
    PROVE  Notes(n, left) \in SUBSET Pending /\ AtMostOne(Notes(n, left))
BY DEF Notes, Lefts, Pending, Entry, AtMostOne

(* A runtime that has just begun holds the seed or nothing.                 *)
LEMMA BegunState ==
    ASSUME NEW p
    PROVE  /\ Begun(p) \in State /\ Sound(Begun(p)) /\ AtMostOne(Begun(p).cmds)
           /\ Begun(p).tick = 0 /\ Begun(p).included = 0
           /\ Numbered(FrozenCommands(Begun(p)))
           /\ \A c \in Begun(p).cmds : c.lsn = 0 /\ c.due = 0
<1> DEFINE e == Entry(1, 0, 0, Seeding)
<1>1. /\ Boot \in State /\ Sound(Boot) /\ Boot.cmds = {} /\ Boot.nextSeq = 1
      /\ Boot.included = 0 /\ Boot.tick = 0
  BY BootState DEF Boot
<1>2. CASE "seed" \in p
  <2>1. Seeding \in Ops /\ Larger(0, 0) = 0
    BY DEF Ops, Larger
  <2>2. e \in Pending /\ Begun(p) = Holding(Boot, {e}, 2, 0)
    <3>1. Begun(p) = Enqueued(Boot, 0, 0, Seeding)
      BY <1>2 DEF Begun
    <3> DEFINE f == Entry(Boot.nextSeq, 0, 0, Seeding)
    <3>2. f \in Pending /\ Enqueued(Boot, 0, 0, Seeding)
             = Holding(Boot, Boot.cmds \cup {f}, Boot.nextSeq + 1, Larger(Boot.included, 0))
      <4>1. \A s \in State, n \in Nat, op \in Ops :
               /\ Entry(s.nextSeq, n, n, op) \in Pending
               /\ Enqueued(s, n, n, op) = Holding(s, s.cmds \cup {Entry(s.nextSeq, n, n, op)},
                                                 s.nextSeq + 1, Larger(s.included, n))
        BY EnqueuedType
      <4> QED
        BY <1>1, <2>1, <4>1
    <3>3. f = e
      BY <1>1
    <3> HIDE DEF e, f
    <3>4. Boot.cmds \cup {f} = {e} /\ Boot.nextSeq + 1 = 2
      BY <1>1, <3>3
    <3> QED
      BY <1>1, <2>1, <3>1, <3>2, <3>3, <3>4
  <2>3. e.seq = 1 /\ e.lsn = 0 /\ e.due = 0
    BY DEF Entry
  <2> HIDE DEF e
  <2>4. /\ Begun(p) \in State /\ Sound(Begun(p)) /\ Begun(p).cmds = {e}
        /\ Begun(p).nextSeq = 2 /\ Begun(p).included = 0 /\ Begun(p).tick = 0
    BY <1>1, <2>2, HoldingType, SoundHolding
  <2> QED
    BY <2>3, <2>4 DEF AtMostOne, Numbered, FrozenCommands
<1>3. CASE "seed" \notin p
  BY <1>1, <1>3 DEF Begun, AtMostOne, Numbered, FrozenCommands
<1> QED
  BY <1>2, <1>3

(* A tick of the log goes from h to x, with whatever commands are pending.  *)
PlaysAs(p, A, h, x, left) ==
    /\ left \in Lefts(h.tick) /\ Onward(h, x)
    /\ Played(p, A, h) = Leaving(x, {}, 1, 0, left)
    /\ \A c \in SUBSET Pending, n \in Nat \ {0}, i \in Nat :
          Phases(p, Holding(LeftOver(FromLog(A, h, Len(A)), h.cmds), c, n, i))
             = Leaving(x, c, n, i, left)

(* A tick of the log leads from every sound state to another one.           *)
LEMMA PlayedShape ==
    ASSUME NEW p, NEW A, LogOK(A), NEW h, Sound(h), AtMostOne(h.cmds)
    PROVE  \E x, left : PlaysAs(p, A, h, x, left)
<1> DEFINE E == FromLog(A, h, Len(A))
           L == LeftOver(E, h.cmds)
<1>1. Onward(h, L)
  <2>1. Onward(h, E)
    BY FromLogOnward, LenProperties DEF LogOK
  <2>2. CASE h.cmds = {}
    BY <2>1, <2>2 DEF LeftOver
  <2>3. CASE h.cmds # {}
    <3> DEFINE e == CHOOSE c \in h.cmds : TRUE
    <3>1. e.op \in Ops
      <4>1. h.cmds \in SUBSET Pending /\ e \in h.cmds
        BY <2>3 DEF Sound, State
      <4> QED
        BY <4>1 DEF Pending
    <3> HIDE DEF e, E
    <3>2. L = Executed(E, e)
      BY <2>3 DEF LeftOver, e
    <3>3. Onward(E, Executed(E, e))
      BY <2>1, <3>1, ExecutedOnward DEF Onward
    <3> QED
      BY <2>1, <3>2, <3>3, OnwardAgain
  <2> QED
    BY <2>2, <2>3
<1>2. Played(p, A, h) = Phases(p, Holding(L, {}, 1, 0))
  BY DEF Played, Commanded
<1> HIDE DEF L
<1>3. Sound(L) /\ L.tick = h.tick
  BY <1>1 DEF Onward
<1>4. PICK x, left : /\ left \in Lefts(L.tick) /\ Onward(L, x)
                     /\ \A c \in SUBSET Pending, n \in Nat \ {0}, i \in Nat :
                           Phases(p, Holding(L, c, n, i)) = Leaving(x, c, n, i, left)
  BY <1>3, PhasesLeave
<1>5. Onward(h, x)
  BY <1>1, <1>4, OnwardAgain
<1>6. Played(p, A, h) = Leaving(x, {}, 1, 0, left)
  BY <1>2, <1>4
<1> QED
  BY <1>3, <1>4, <1>5, <1>6 DEF L, PlaysAs

(* The next tick changes the clock only.                                    *)
LEMMA LaterType ==
    ASSUME NEW s, Sound(s)
    PROVE  /\ Sound(Later(s)) /\ Later(s).tick = s.tick + 1
           /\ \A f \in DOMAIN Boot \ {"tick"} : Later(s)[f] = s[f]
<1>1. s \in State
  BY DEF Sound
<1>2. Later(s) \in State
  BY <1>1 DEF Later, State
<1>3. \A f \in DOMAIN Boot \ {"tick"} : Later(s)[f] = s[f]
  BY <1>1 DEF Later, State, Boot
<1>4. Later(s).tick = s.tick + 1
  BY <1>1 DEF Later, State
<1> QED
  BY <1>2, <1>3, <1>4 DEF Sound, Numbered, FrozenEvents, FrozenIntents, Boot

(* Every log has a history, tick by tick from a world that has just begun.  *)
LEMMA HistoryType ==
    ASSUME NEW p, NEW A, LogOK(A)
    PROVE  /\ History(p, A, 0) = Begun(p)
           /\ \A t \in Nat : /\ Sound(History(p, A, t)) /\ AtMostOne(History(p, A, t).cmds)
                             /\ History(p, A, t).tick = t
                             /\ History(p, A, t + 1) = Later(Played(p, A, History(p, A, t)))
<1> DEFINE X == {x \in State : Sound(x) /\ AtMostOne(x.cmds)}
           H(t) == History(p, A, t)
           next(x) == Later(Played(p, A, x))
<1>1. Begun(p) \in X
  BY BegunState
<1>2. ASSUME NEW h \in X PROVE next(h) \in X /\ next(h).tick = h.tick + 1
  <2>0. Sound(h) /\ AtMostOne(h.cmds)
    OBVIOUS
  <2>a. PICK x, left : PlaysAs(p, A, h, x, left)
    BY <2>0, PlayedShape
  <2>1. /\ left \in Lefts(h.tick) /\ Onward(h, x)
        /\ Played(p, A, h) = Leaving(x, {}, 1, 0, left)
    BY <2>a DEF PlaysAs
  <2> DEFINE c == {} \cup Notes(1, left)
             n == IF left = {} THEN 1 ELSE 1 + 1
             y == Holding(x, c, n, 0)
  <2>2. Played(p, A, h) = y
    <3>1. Leaving(x, {}, 1, 0, left) = y
      BY LeavingShape
    <3> HIDE DEF y
    <3> QED
      BY <2>1, <3>1
  <2>3. h.tick \in Nat
    BY <2>0 DEF Sound, State
  <2>4. c \in SUBSET Pending /\ AtMostOne(c) /\ n \in Nat \ {0} /\ 0 \in Nat
    BY <2>1, <2>3, NotesType
  <2> HIDE DEF c, n
  <2>5. Sound(x) /\ x \in State /\ x.tick = h.tick
    BY <2>1 DEF Onward, Sound
  <2>6. Sound(y) /\ y.cmds = c /\ y.tick = x.tick
    BY <2>4, <2>5, SoundHolding, HoldingType
  <2> HIDE DEF y
  <2>7. Sound(Later(y)) /\ Later(y).cmds = c /\ Later(y).tick = y.tick + 1
    BY <2>6, LaterType DEF Boot
  <2> QED
    BY <2>2, <2>4, <2>5, <2>6, <2>7 DEF Sound
<1> HIDE DEF X, next
<1>3. /\ H(0) = Begun(p)
      /\ \A t \in Nat : H(t) \in X /\ H(t + 1) = next(H(t))
  BY <1>1, <1>2, HistoryTurns DEF next
<1> DEFINE S == {t \in Nat : H(t).tick = t}
<1> HIDE DEF H
<1>4. 0 \in S
  BY <1>3, BegunState
<1>5. \A t \in S : t + 1 \in S
  BY <1>2, <1>3
<1>6. S \in SUBSET Nat
  OBVIOUS
<1> HIDE DEF S
<1>7. S = Nat
  BY <1>4, <1>5, <1>6, EveryNumber
<1> QED
  BY <1>3, <1>7 DEF S, H, X, next

(* What is pending after a step.                                            *)
LEMMA PendingLater ==
    ASSUME NEW A, LogOK(A), NEW s \in State, NEW old, PendingOf(A, s, old),
           NEW left \in Lefts(s.tick), NEW u,
           u.tick = s.tick + 1, u.included = s.included,
           u.cmds = (s.cmds \ Due(s.cmds, s.tick)) \cup Notes(s.nextSeq, left),
           u.nextSeq = IF left = {} THEN s.nextSeq ELSE s.nextSeq + 1
    PROVE  PendingOf(A, u, Notes(1, left))
<1> DEFINE rest == s.cmds \ Due(s.cmds, s.tick)
           new == Notes(s.nextSeq, left)
<1>0. s.tick \in Nat /\ s.nextSeq \in Nat \ {0} /\ s.included \in Nat /\ s.cmds \in SUBSET Pending
  BY DEF State
<1>1. \A c \in s.cmds : c \in rest <=> c.due > s.tick
  BY <1>0 DEF Due, Pending
<1>2. /\ \A c \in s.cmds : c.seq \in 1 .. s.nextSeq - 1 /\ \A d \in s.cmds : d.seq = c.seq => d = c
      /\ \A c \in s.cmds : Logged(A, s, c) \/ Left(s, old, c)
      /\ s.included \in 0 .. Len(A)
      /\ \A l \in 1 .. s.included :
            IsCommand(A, l) /\ A[l].due >= s.tick => \E c \in s.cmds : c.lsn = l
  BY DEF PendingOf, Numbered, FrozenCommands
<1>3. \A c \in new : /\ c.seq = s.nextSeq /\ c.lsn = 0 /\ c.due \in 0 .. s.tick
                     /\ \E d \in Notes(1, left) : c.op = d.op
  <2> SUFFICES ASSUME NEW d \in left
               PROVE  LET c == Entry(s.nextSeq, d.due, 0, d.op)
                      IN  /\ c.seq = s.nextSeq /\ c.lsn = 0 /\ c.due \in 0 .. s.tick
                          /\ \E e \in Notes(1, left) : c.op = e.op
    BY DEF Notes
  <2>1. d.due \in 0 .. s.tick
    BY DEF Lefts
  <2>2. Entry(1, d.due, 0, d.op) \in Notes(1, left)
    BY DEF Notes
  <2> QED
    BY <2>1, <2>2 DEF Entry
<1>4. AtMostOne(new) /\ (left = {} <=> new = {}) /\ (left = {} <=> Notes(1, left) = {})
  BY <1>0, NotesType DEF Notes
<1>5. \A c \in rest : c \in s.cmds /\ c.due > s.tick /\ Logged(A, s, c)
  BY <1>0, <1>1, <1>2 DEF Left, Pending
<1> HIDE DEF rest, new
<1>6. u.cmds = rest \cup new
  BY DEF rest, new
<1>7. Numbered(FrozenCommands(u))
  <2>1. \A c \in rest : c.seq \in 1 .. s.nextSeq - 1
    BY <1>2, <1>5
  <2> SUFFICES ASSUME NEW c \in u.cmds
               PROVE  c.seq \in 1 .. u.nextSeq - 1 /\ \A d \in u.cmds : d.seq = c.seq => d = c
    BY DEF Numbered, FrozenCommands
  <2>2. CASE c \in rest
    <3>1. c.seq \in 1 .. u.nextSeq - 1
      BY <1>0, <2>1, <2>2
    <3> QED
      BY <1>0, <1>2, <1>3, <1>5, <1>6, <2>1, <2>2, <3>1
  <2>3. CASE c \in new
    <3>1. u.nextSeq = s.nextSeq + 1
      BY <1>4, <2>3
    <3> QED
      BY <1>0, <1>3, <1>4, <1>6, <2>1, <2>3, <3>1 DEF AtMostOne
  <2> QED
    BY <1>6, <2>2, <2>3
<1>8. ASSUME NEW c \in u.cmds PROVE Logged(A, u, c) \/ Left(u, Notes(1, left), c)
  <2>1. CASE c \in rest
    <3>1. Logged(A, s, c) /\ c.due > s.tick /\ c.due \in Nat /\ c \in s.cmds
      BY <1>0, <1>5, <2>1 DEF Pending
    <3>2. \A d \in u.cmds : d.lsn # 0 => d \in s.cmds
      BY <1>3, <1>5, <1>6
    <3> QED
      BY <1>0, <3>1, <3>2 DEF Logged
  <2>2. CASE c \in new
    <3>1. \A d \in u.cmds : d # c => d \in rest
      BY <1>4, <1>6, <2>2 DEF AtMostOne
    <3>2. \A d \in rest : d.lsn # 0 /\ d.seq < c.seq
      BY <1>0, <1>2, <1>3, <1>5, <2>2 DEF Logged
    <3> QED
      BY <1>0, <1>3, <2>2, <3>1, <3>2 DEF Left
  <2> QED
    BY <1>6, <2>1, <2>2
<1>9. ASSUME NEW l \in 1 .. u.included, IsCommand(A, l), A[l].due >= u.tick
      PROVE  \E c \in u.cmds : c.lsn = l
  <2>1. A[l].due \in Nat
    BY <1>2, <1>9, LenProperties DEF LogOK
  <2>2. PICK c \in s.cmds : c.lsn = l
    BY <1>0, <1>2, <1>9, <2>1
  <2>3. c.due = A[l].due
    BY <1>0, <1>2, <1>9, <2>2 DEF Logged, Left
  <2>4. c \in rest
    BY <1>0, <1>1, <1>9, <2>1, <2>2, <2>3
  <2> QED
    BY <1>6, <2>2, <2>4
<1>10. Notes(1, left) # {} => \E c \in u.cmds : c.lsn = 0
  BY <1>3, <1>4, <1>6
<1> QED
  BY <1>2, <1>7, <1>8, <1>9, <1>10 DEF PendingOf

(* A tick of a runtime that agrees with the log.                            *)
LEMMA LaterHolding ==
    ASSUME NEW x \in State, NEW c, NEW n, NEW i
    PROVE  Later(Holding(x, c, n, i)) = Holding(Later(x), c, n, i)
BY DEF Later, Holding, State

(* A runtime that agrees with the log is in its history.                    *)
LEMMA MatchesType ==
    ASSUME NEW p, NEW A, NEW s, Matches(p, A, s)
    PROVE  /\ Sound(s) /\ s \in State /\ s.tick \in Nat /\ s.cmds \in SUBSET Pending
           /\ s.nextSeq \in Nat \ {0} /\ s.included \in Nat
           /\ s = Holding(History(p, A, s.tick), s.cmds, s.nextSeq, s.included)
           /\ PendingOf(A, s, History(p, A, s.tick).cmds)
<1>1. Sound(s) /\ s = Holding(History(p, A, s.tick), s.cmds, s.nextSeq, s.included)
      /\ PendingOf(A, s, History(p, A, s.tick).cmds)
  BY DEF Matches
<1>2. s \in State
  BY <1>1 DEF Sound
<1>3. s.tick \in Nat /\ s.cmds \in SUBSET Pending /\ s.nextSeq \in Nat \ {0} /\ s.included \in Nat
  BY <1>2 DEF State
<1> QED
  BY <1>1, <1>2, <1>3

(* One tick keeps a runtime in agreement with the log:                      *)
(* StepCoordinator::step executes what the log holds for the tick, and the  *)
(* state hash it computes is the hash of the history.                       *)
LEMMA MatchesLater ==
    ASSUME NEW p, NEW A, LogOK(A), NEW s, Matches(p, A, s), AllLater(A, s.included, s.tick),
           NEW y, y = Phases(p, Applied(s))
    PROVE  /\ Matches(p, A, Later(y)) /\ Sound(y) /\ y.tick = s.tick /\ y.included = s.included
           /\ StateHash(y) = HashAt(p, A, s.tick)
           /\ \A w \in Lasting : s.obj[w] # Absent => y.obj[w] # Absent
<1> DEFINE h == History(p, A, s.tick)
           L == LeftOver(FromLog(A, h, Len(A)), h.cmds)
           rest == s.cmds \ Due(s.cmds, s.tick)
<1>1. /\ Sound(s) /\ s \in State /\ s.tick \in Nat /\ s.cmds \in SUBSET Pending
      /\ s.nextSeq \in Nat \ {0} /\ s.included \in Nat
      /\ s = Holding(h, s.cmds, s.nextSeq, s.included) /\ PendingOf(A, s, h.cmds)
  BY MatchesType
<1>2. Sound(h) /\ h \in State /\ AtMostOne(h.cmds) /\ h.tick = s.tick
  <2>1. s.tick \in Nat
    BY <1>1
  <2>2. Sound(h) /\ AtMostOne(h.cmds) /\ h.tick = s.tick
    BY <2>1, HistoryType
  <2> HIDE DEF h
  <2> QED
    BY <2>2 DEF Sound
<1>3. History(p, A, s.tick + 1) = Later(Played(p, A, h))
  BY <1>1, HistoryType
<1> HIDE DEF h
<1>4. Applied(s) = Holding(L, rest, s.nextSeq, s.included)
  BY <1>1, <1>2, AppliedCommanded DEF AtMostOne
<1>5. PICK x, left : PlaysAs(p, A, h, x, left)
  BY <1>2, PlayedShape
<1>6. rest \in SUBSET Pending
  BY <1>1
<1>7. y = Leaving(x, rest, s.nextSeq, s.included, left)
  <2>1. \A c \in SUBSET Pending, n \in Nat \ {0}, i \in Nat :
           Phases(p, Holding(L, c, n, i)) = Leaving(x, c, n, i, left)
    BY <1>5 DEF PlaysAs
  <2> HIDE DEF rest, L
  <2> QED
    BY <1>1, <1>4, <1>6, <2>1
<1>8. left \in Lefts(s.tick) /\ Onward(h, x) /\ Played(p, A, h) = Leaving(x, {}, 1, 0, left)
  BY <1>2, <1>5 DEF PlaysAs
<1> DEFINE cy == rest \cup Notes(s.nextSeq, left)
           ny == IF left = {} THEN s.nextSeq ELSE s.nextSeq + 1
           cz == {} \cup Notes(1, left)
           nz == IF left = {} THEN 1 ELSE 1 + 1
           z == Holding(x, cz, nz, 0)
<1>9. y = Holding(x, cy, ny, s.included)
  <2>1. Leaving(x, rest, s.nextSeq, s.included, left) = Holding(x, cy, ny, s.included)
    BY LeavingShape
  <2> HIDE DEF cy, ny, rest
  <2> QED
    BY <1>7, <2>1
<1>10. Played(p, A, h) = z
  <2>1. Leaving(x, {}, 1, 0, left) = z
    BY LeavingShape
  <2> HIDE DEF z
  <2> QED
    BY <1>8, <2>1
<1>11. /\ cy \in SUBSET Pending /\ ny \in Nat \ {0}
       /\ cz \in SUBSET Pending /\ nz \in Nat \ {0} /\ cz = Notes(1, left)
  <2>1. Notes(s.nextSeq, left) \in SUBSET Pending /\ Notes(1, left) \in SUBSET Pending
    BY <1>1, <1>8, NotesType
  <2> HIDE DEF rest
  <2> QED
    BY <1>1, <1>6, <2>1
<1>12. Sound(x) /\ x \in State /\ x.tick = s.tick
  BY <1>2, <1>8 DEF Onward, Sound
<1> HIDE DEF cz, nz, cy, ny
<1>13. Sound(y) /\ y.tick = s.tick /\ y.included = s.included /\ y.cmds = cy /\ y.nextSeq = ny
       /\ y.obj = x.obj
  BY <1>1, <1>9, <1>11, <1>12, SoundHolding, HoldingType
<1>14. z.obj = x.obj /\ z.cmds = cz
  <2>1. 0 \in Nat
    OBVIOUS
  <2> QED
    BY <1>11, <1>12, <2>1, HoldingType
<1>15. StateHash(y) = HashAt(p, A, s.tick)
  BY <1>10, <1>13, <1>14 DEF StateHash, HashAt, h
<1>16. \A w \in Lasting : s.obj[w] # Absent => y.obj[w] # Absent
  <2>1. s.obj = h.obj
    <3>1. Holding(h, s.cmds, s.nextSeq, s.included).obj = h.obj
      BY <1>1, <1>2, HoldingType
    <3> QED
      BY <1>1, <3>1
  <2> QED
    BY <1>8, <1>13, <2>1 DEF Onward
<1> DEFINE u == Later(y)
<1>17. /\ Sound(u) /\ u.tick = s.tick + 1 /\ u.cmds = cy /\ u.nextSeq = ny
       /\ u.included = s.included
  <2>1. Sound(u) /\ u.tick = y.tick + 1 /\ \A f \in DOMAIN Boot \ {"tick"} : u[f] = y[f]
    BY <1>13, LaterType
  <2> HIDE DEF u
  <2> QED
    BY <1>13, <2>1 DEF Boot
<1>18. u = Holding(Later(x), cy, ny, s.included)
  BY <1>9, <1>12, LaterHolding
<1>19. Later(z) = Holding(Later(x), cz, nz, 0)
  BY <1>12, LaterHolding
<1>20. Later(x) \in State
  BY <1>12, LaterType DEF Sound
<1>21. Holding(Later(z), cy, ny, s.included) = u
  BY <1>18, <1>19, <1>20, HoldingTwice
<1>22. Later(z).cmds = Notes(1, left)
  <2>1. 0 \in Nat
    OBVIOUS
  <2> HIDE DEF z
  <2> QED
    BY <1>11, <1>19, <1>20, <2>1, HoldingType
<1> HIDE DEF u, z
<1>23. PendingOf(A, u, Notes(1, left))
  BY <1>1, <1>8, <1>17, PendingLater DEF cy, ny
<1>24. Matches(p, A, u)
  <2>1. History(p, A, u.tick) = Later(z)
    BY <1>3, <1>10, <1>17
  <2> QED
    BY <1>17, <1>21, <1>22, <1>23, <2>1 DEF Matches
<1> QED
  BY <1>13, <1>15, <1>16, <1>24 DEF u

(* What is known of the records of a log.                                   *)
LEMMA LogType ==
    ASSUME NEW A, LogOK(A)
    PROVE  /\ Len(A) \in Nat /\ DOMAIN A = 1 .. Len(A)
           /\ \A l \in 1 .. Len(A) : IsCommand(A, l) =>
                 /\ A[l].due \in Nat \ {0} /\ A[l].rec.op \in Ops /\ Decodes(A[l].rec)
           /\ \A l \in 1 .. Len(A) : ~IsCommand(A, l) => A[l].kind = "hash" /\ A[l].tick \in Nat
BY LenProperties DEF LogOK

(* A runtime that agrees with the log still does with its next command.     *)
LEMMA EnqueuedMatches ==
    ASSUME NEW p, NEW A, LogOK(A), NEW s, Matches(p, A, s),
           NEW l \in 1 .. Len(A), IsCommand(A, l), InTime(s, A[l].due), s.included < l,
           \A k \in s.included + 1 .. l - 1 : ~IsCommand(A, k),
           NEW u, u = Enqueued(s, A[l].due, l, A[l].rec.op)
    PROVE  /\ Matches(p, A, u) /\ u.included = l /\ u.tick = s.tick /\ u.obj = s.obj
           /\ \A due : InTime(s, due) => InTime(u, due)
<1> DEFINE h == History(p, A, s.tick)
           e == Entry(s.nextSeq, A[l].due, l, A[l].rec.op)
           c == s.cmds \cup {e}
           n == s.nextSeq + 1
<1>1. /\ Sound(s) /\ s \in State /\ s.tick \in Nat /\ s.cmds \in SUBSET Pending
      /\ s.nextSeq \in Nat \ {0} /\ s.included \in Nat
      /\ s = Holding(h, s.cmds, s.nextSeq, s.included) /\ PendingOf(A, s, h.cmds)
  BY MatchesType
<1>2. Sound(h) /\ h \in State
  <2>1. Sound(h)
    BY <1>1, HistoryType
  <2> HIDE DEF h
  <2> QED
    BY <2>1 DEF Sound
<1>3. /\ Len(A) \in Nat /\ l \in Nat /\ A[l].due \in Nat /\ A[l].rec.op \in Ops
      /\ A[l].due >= s.tick
  BY <1>1, LogType DEF InTime
<1> HIDE DEF h
<1>4. e \in Pending /\ u = Holding(s, c, n, Larger(s.included, l))
  BY <1>1, <1>3, EnqueuedType, ZenonT(60)
<1>5. Larger(s.included, l) = l
  BY <1>1, <1>3 DEF Larger
<1>6. /\ e.seq = s.nextSeq /\ e.due = A[l].due /\ e.lsn = l /\ e.op = A[l].rec.op
  BY DEF Entry
<1> HIDE DEF e
<1>7. c \in SUBSET Pending /\ n \in Nat \ {0}
  BY <1>1, <1>4
<1> HIDE DEF n
<1>8. u = Holding(s, c, n, l)
  BY <1>4, <1>5
<1>9. /\ Sound(u) /\ u.cmds = s.cmds \cup {e} /\ u.nextSeq = s.nextSeq + 1 /\ u.included = l
      /\ u.tick = s.tick /\ u.obj = s.obj
  <2>1. Sound(Holding(s, c, n, l))
    BY <1>1, <1>3, <1>7, SoundHolding
  <2> QED
    BY <1>1, <1>3, <1>7, <1>8, <2>1, HoldingType DEF n
<1>10. u = Holding(h, c, n, l)
  <2>1. Holding(Holding(h, s.cmds, s.nextSeq, s.included), c, n, l) = Holding(h, c, n, l)
    BY <1>2, HoldingTwice
  <2> HIDE DEF c
  <2> QED
    BY <1>1, <1>8, <2>1
<1> HIDE DEF c
<1>11. /\ \A d \in s.cmds : d.seq \in 1 .. s.nextSeq - 1 /\ \A f \in s.cmds : f.seq = d.seq => f = d
       /\ \A d \in s.cmds : Logged(A, s, d) \/ Left(s, h.cmds, d)
       /\ \A k \in 1 .. s.included :
             IsCommand(A, k) /\ A[k].due >= s.tick => \E d \in s.cmds : d.lsn = k
       /\ h.cmds # {} => \E d \in s.cmds : d.lsn = 0
       /\ \A d \in s.cmds : d.due \in Nat /\ d.lsn \in Nat
  BY <1>1 DEF PendingOf, Numbered, FrozenCommands, Pending
<1>12. Numbered(FrozenCommands(u))
  <2> SUFFICES ASSUME NEW d \in u.cmds
               PROVE  d.seq \in 1 .. u.nextSeq - 1 /\ \A f \in u.cmds : f.seq = d.seq => f = d
    BY DEF Numbered, FrozenCommands
  <2> QED
    BY <1>1, <1>6, <1>9, <1>11
<1>13. ASSUME NEW d \in s.cmds PROVE Logged(A, u, d) \/ Left(u, h.cmds, d)
  <2>1. CASE Logged(A, s, d)
    <3>1. \A f \in u.cmds : f.lsn # 0 => (f.lsn < d.lsn <=> f.seq < d.seq)
      <4> TAKE f \in u.cmds
      <4>1. CASE f = e
        <5>1. d.lsn < l /\ d.seq < s.nextSeq
          BY <1>1, <1>3, <1>11, <2>1 DEF Logged
        <5> QED
          BY <1>1, <1>3, <1>6, <1>11, <4>1, <5>1
      <4> QED
        BY <1>9, <2>1, <4>1 DEF Logged
    <3>2. d.lsn \in 1 .. u.included
      BY <1>1, <1>3, <1>9, <2>1 DEF Logged
    <3> QED
      BY <1>9, <2>1, <3>1, <3>2 DEF Logged
  <2>2. CASE Left(s, h.cmds, d)
    <3>1. A[l].due > s.tick
      BY <1>1, <1>3, <2>2 DEF InTime, Left
    <3>2. \A f \in u.cmds : f # d /\ f.due <= u.tick => f \in s.cmds
      BY <1>1, <1>3, <1>6, <1>9, <3>1
    <3> QED
      BY <1>9, <2>2, <3>2 DEF Left
  <2> QED
    BY <1>11, <2>1, <2>2
<1>14. Logged(A, u, e)
  <2>1. \A f \in u.cmds : f.lsn # 0 => (f.lsn < e.lsn <=> f.seq < e.seq)
    <3> SUFFICES ASSUME NEW f \in s.cmds, f.lsn # 0 PROVE f.lsn < l /\ f.seq < s.nextSeq
      BY <1>1, <1>3, <1>6, <1>9
    <3>1. Logged(A, s, f)
      BY <1>11 DEF Left
    <3> QED
      BY <1>1, <1>3, <1>11, <3>1 DEF Logged
  <2> QED
    BY <1>1, <1>3, <1>6, <1>9, <2>1 DEF Logged
<1>15. ASSUME NEW k \in 1 .. u.included, IsCommand(A, k), A[k].due >= u.tick
       PROVE  \E d \in u.cmds : d.lsn = k
  <2>1. CASE k = l
    BY <1>6, <1>9, <2>1
  <2>2. CASE k # l
    <3>1. k \in 1 .. s.included
      BY <1>1, <1>3, <1>9, <1>15, <2>2
    <3> QED
      BY <1>9, <1>11, <1>15, <3>1
  <2> QED
    BY <2>1, <2>2
<1>16. PendingOf(A, u, h.cmds)
  <2>1. \A d \in u.cmds : Logged(A, u, d) \/ Left(u, h.cmds, d)
    BY <1>9, <1>13, <1>14
  <2>2. u.included \in 0 .. Len(A)
    BY <1>3, <1>9
  <2>3. h.cmds # {} => \E d \in u.cmds : d.lsn = 0
    BY <1>9, <1>11
  <2> QED
    BY <1>12, <1>15, <2>1, <2>2, <2>3 DEF PendingOf
<1>17. u = Holding(h, u.cmds, u.nextSeq, u.included)
  BY <1>9, <1>10 DEF c, n
<1>18. \A due : InTime(s, due) => InTime(u, due)
  <2>1. e.lsn # 0
    BY <1>6
  <2> QED
    BY <1>9, <2>1 DEF InTime
<1> QED
  BY <1>9, <1>16, <1>17, <1>18 DEF Matches, h

(* All the durable commands after the checkpoint.                           *)
LEMMA EnqueuedToMatches ==
    ASSUME LogOK(wal), NEW p, NEW s, Matches(p, wal, s),
           RestInTime(wal, s), LastIncluded(wal, s.included)
    PROVE  /\ Matches(p, wal, EnqueuedAll(s)) /\ EnqueuedAll(s).tick = s.tick
           /\ EnqueuedAll(s).obj = s.obj
           /\ NoneAfter(wal, EnqueuedAll(s).included) /\ LastIncluded(wal, EnqueuedAll(s).included)
           /\ s.included <= EnqueuedAll(s).included
<1> DEFINE x(l) == EnqueuedTo(s, l)
           Q(l) == /\ Matches(p, wal, x(l)) /\ x(l).tick = s.tick /\ x(l).obj = s.obj
                   /\ s.included <= x(l).included /\ x(l).included <= Larger(s.included, l)
                   /\ LastIncluded(wal, x(l).included)
                   /\ \A k \in x(l).included + 1 .. l : ~IsCommand(wal, k)
                   /\ \A due : InTime(s, due) => InTime(x(l), due)
           S == {l \in Nat : l <= Len(wal) => Q(l)}
<1>1. Len(wal) \in Nat /\ \A l \in Cmds : /\ l \in 1 .. Len(wal) /\ IsCommand(wal, l)
                                         /\ wal[l].due \in Nat /\ wal[l].rec.op \in Ops
  BY LogType DEF Cmds, IsCommand
<1>2. \A l \in 1 .. Len(wal) : IsCommand(wal, l) => l \in Cmds
  BY DEF Cmds, IsCommand
<1>3. Sound(s) /\ s \in State /\ s.tick \in Nat /\ s.included \in Nat
  BY MatchesType
<1>4. /\ x(0) = s
      /\ \A l \in Nat : x(l) \in State /\ x(l + 1) = EnqueuedAt(x(l), s.included, l + 1)
  <2>1. ASSUME NEW y \in State, NEW l \in Nat PROVE EnqueuedAt(y, s.included, l) \in State
    <3>1. CASE l > s.included /\ l \in Cmds
      <4>1. Enqueued(y, wal[l].due, l, wal[l].rec.op) \in State
        BY <1>1, <3>1, EnqueuedType
      <4> QED
        BY <3>1, <4>1 DEF EnqueuedAt
    <3> QED
      BY <3>1 DEF EnqueuedAt
  <2> QED
    BY <1>3, <2>1, EnqueuedTurns
<1> HIDE DEF x
<1>5. 0 \in S
  <2>1. Q(0)
    <3>1. x(0).included <= Larger(s.included, 0)
      BY <1>3, <1>4 DEF Larger
    <3>2. \A k \in x(0).included + 1 .. 0 : ~IsCommand(wal, k)
      BY <1>3, <1>4
    <3> QED
      BY <1>3, <1>4, <3>1, <3>2
  <2> HIDE DEF Q
  <2> QED
    BY <2>1
<1>6. ASSUME NEW l \in S PROVE l + 1 \in S
  <2> SUFFICES ASSUME l + 1 <= Len(wal) PROVE Q(l + 1)
    OBVIOUS
  <2>1. Q(l) /\ l \in Nat /\ l + 1 \in 1 .. Len(wal)
    BY <1>1
  <2>2. x(l + 1) = EnqueuedAt(x(l), s.included, l + 1)
    BY <1>4
  <2>3. x(l).included \in Nat
    BY <2>1, MatchesType
  <2>4. CASE l + 1 > s.included /\ l + 1 \in Cmds
    <3> DEFINE u == Enqueued(x(l), wal[l + 1].due, l + 1, wal[l + 1].rec.op)
    <3>1. x(l).included < l + 1
      BY <1>3, <2>1, <2>3, <2>4 DEF Larger
    <3>2. InTime(x(l), wal[l + 1].due) /\ IsCommand(wal, l + 1)
      <4>1. l + 1 \in Rest(wal, s)
        BY <1>1, <1>3, <2>1, <2>4 DEF Rest
      <4> QED
        BY <1>1, <2>1, <2>4, <4>1 DEF RestInTime
    <3>3. \A k \in x(l).included + 1 .. (l + 1) - 1 : ~IsCommand(wal, k)
      BY <2>1
    <3>4. /\ Matches(p, wal, u) /\ u.included = l + 1 /\ u.tick = x(l).tick /\ u.obj = x(l).obj
          /\ \A due : InTime(x(l), due) => InTime(u, due)
      BY <2>1, <3>1, <3>2, <3>3, EnqueuedMatches
    <3>5. x(l + 1) = u
      BY <2>2, <2>4 DEF EnqueuedAt
    <3> HIDE DEF u
    <3>6. LastIncluded(wal, l + 1)
      BY <3>2 DEF LastIncluded
    <3>7. s.included <= l + 1 /\ l + 1 <= Larger(s.included, l + 1)
      BY <1>3, <2>1, <2>4 DEF Larger
    <3>8. \A k \in l + 1 + 1 .. l + 1 : ~IsCommand(wal, k)
      BY <2>1
    <3> QED
      BY <2>1, <3>4, <3>5, <3>6, <3>7, <3>8
  <2>5. CASE ~(l + 1 > s.included /\ l + 1 \in Cmds)
    <3>1. x(l + 1) = x(l)
      BY <2>2, <2>5 DEF EnqueuedAt
    <3>2. x(l).included <= Larger(s.included, l + 1)
      BY <1>3, <2>1, <2>3 DEF Larger
    <3>3. \A k \in x(l).included + 1 .. l + 1 : ~IsCommand(wal, k)
      <4> SUFFICES ASSUME NEW k \in x(l).included + 1 .. l + 1 PROVE ~IsCommand(wal, k)
        OBVIOUS
      <4>1. CASE k = l + 1
        BY <1>2, <1>3, <2>1, <2>3, <2>5, <4>1
      <4>2. CASE k # l + 1
        BY <2>1, <2>3, <4>2
      <4> QED
        BY <4>1, <4>2
    <3> QED
      BY <2>1, <3>1, <3>2, <3>3
  <2> QED
    BY <2>4, <2>5
<1>7. S \in SUBSET Nat
  OBVIOUS
<1> HIDE DEF S
<1>8. Len(wal) \in S
  BY <1>1, <1>5, <1>6, <1>7, EveryNumber
<1>9. Q(Len(wal))
  BY <1>1, <1>8 DEF S
<1> QED
  BY <1>9 DEF EnqueuedAll, NoneAfter, x

(* Every tick of a run makes the runtime agree with the log at the next     *)
(* one, and finds the hash the log has for it.                              *)
LEMMA RunMatches ==
    ASSUME LogOK(wal), HashesOK(program, wal), "late" \notin program,
           NEW s, Matches(program, wal, s), NoneAfter(wal, s.included)
    PROVE  \A n \in Nat :
              /\ RunTo(s, n).ok
              /\ Matches(program, wal, RunTo(s, n).sim)
              /\ RunTo(s, n).sim.tick = Larger(s.tick, n)
              /\ RunTo(s, n).sim.included = s.included
              /\ \A w \in Lasting : s.obj[w] # Absent => RunTo(s, n).sim.obj[w] # Absent
<1> DEFINE X == {r \in [sim : State, ok : BOOLEAN] :
                    /\ r.ok /\ Matches(program, wal, r.sim) /\ r.sim.included = s.included
                    /\ \A w \in Lasting : s.obj[w] # Absent => r.sim.obj[w] # Absent}
           x(n) == RunTo(s, n)
           first == [sim |-> s, ok |-> TRUE]
<1>0. Sound(s) /\ s \in State /\ s.tick \in Nat /\ s.included \in Nat
  BY MatchesType
<1>1. first \in X
  BY <1>0
<1>2. ASSUME NEW r \in X, NEW k \in Nat
      PROVE  /\ Replays(r, k - 1, s.included) \in X
             /\ r.sim.tick \in Nat
             /\ Replays(r, k - 1, s.included).sim.tick
                  = IF r.sim.tick = k - 1 THEN r.sim.tick + 1 ELSE r.sim.tick
  <2>0. r.ok /\ Matches(program, wal, r.sim) /\ r.sim.included = s.included
        /\ \A w \in Lasting : s.obj[w] # Absent => r.sim.obj[w] # Absent
    OBVIOUS
  <2>1. r.sim.tick \in Nat
    BY <2>0, MatchesType
  <2>2. CASE r.sim.tick # k - 1
    BY <2>0, <2>1, <2>2 DEF Replays
  <2>3. CASE r.sim.tick = k - 1
    <3> DEFINE y == Stable(r.sim)
               next == Replays(r, k - 1, s.included)
    <3>1. AllLater(wal, r.sim.included, r.sim.tick)
      BY <2>0 DEF AllLater, NoneAfter
    <3>2. /\ Matches(program, wal, Later(y)) /\ Sound(y) /\ y.tick = r.sim.tick
          /\ y.included = r.sim.included /\ StateHash(y) = HashAt(program, wal, r.sim.tick)
          /\ \A w \in Lasting : r.sim.obj[w] # Absent => y.obj[w] # Absent
      BY <2>0, <3>1, MatchesLater DEF Stable
    <3> HIDE DEF y
    <3>3. Finished(y) = Later(y)
      BY DEF Finished, Later
    <3>4. next.sim = Later(y) /\ next.ok \in BOOLEAN /\ DOMAIN next = {"sim", "ok"}
          /\ next = [sim |-> next.sim, ok |-> next.ok]
      BY <2>0, <2>3, <3>3 DEF Replays, y
    <3>5. next.ok
      <4>1. \A l \in s.included + 1 .. Len(wal) :
               wal[l].kind = "hash" /\ wal[l].tick = k - 1 => wal[l].hash = StateHash(y)
        <5>1. \A l \in s.included + 1 .. Len(wal) : l \in DOMAIN wal
          BY <1>0, LogType
        <5> QED
          BY <2>3, <3>2, <5>1 DEF HashesOK, IsCommand
      <4> QED
        BY <2>0, <2>3, <4>1 DEF Replays, y
    <3>6. /\ Sound(Later(y)) /\ Later(y).tick = y.tick + 1
          /\ Later(y).included = y.included /\ Later(y).obj = y.obj
      BY <3>2, LaterType DEF Boot
    <3>7. Later(y) \in State
      BY <3>6 DEF Sound
    <3> HIDE DEF next
    <3>8. next \in X
      BY <2>0, <3>2, <3>4, <3>5, <3>6, <3>7
    <3>9. next.sim.tick = r.sim.tick + 1
      BY <3>2, <3>4, <3>6
    <3> QED
      BY <2>1, <2>3, <3>8, <3>9 DEF next
  <2> QED
    BY <2>2, <2>3
<1>3. /\ x(0) = first
      /\ \A n \in Nat : x(n) \in X /\ x(n + 1) = Replays(x(n), n + 1 - 1, s.included)
  <2> HIDE DEF X
  <2>1. \A r \in X, k \in Nat : Replays(r, k - 1, s.included) \in X
    BY <1>2
  <2> QED
    BY <1>1, <2>1, RunTurns
<1> DEFINE S == {n \in Nat : x(n).sim.tick = Larger(s.tick, n)}
<1> HIDE DEF x, X
<1>4. 0 \in S
  BY <1>0, <1>3 DEF Larger
<1>5. ASSUME NEW n \in S PROVE n + 1 \in S
  <2>1. n \in Nat /\ x(n) \in X /\ n + 1 \in Nat /\ n + 1 - 1 = n /\ x(n).sim.tick = Larger(s.tick, n)
    BY <1>3
  <2>2. x(n + 1) = Replays(x(n), n + 1 - 1, s.included)
    BY <1>3
  <2>3. x(n + 1).sim.tick = IF x(n).sim.tick = n THEN x(n).sim.tick + 1 ELSE x(n).sim.tick
    <3>1. Replays(x(n), (n + 1) - 1, s.included).sim.tick
              = IF x(n).sim.tick = (n + 1) - 1 THEN x(n).sim.tick + 1 ELSE x(n).sim.tick
      BY <1>2, <2>1
    <3> QED
      BY <2>1, <2>2, <3>1
  <2>4. x(n + 1).sim.tick = Larger(s.tick, n + 1)
    BY <1>0, <2>1, <2>3 DEF Larger
  <2> QED
    BY <2>4
<1>6. S \in SUBSET Nat
  OBVIOUS
<1> HIDE DEF S
<1>7. S = Nat
  BY <1>4, <1>5, <1>6, EveryNumber
<1> QED
  BY <1>3, <1>7 DEF S, x, X

(* A runtime that has just begun agrees with every log.                     *)
LEMMA BegunMatches ==
    ASSUME NEW p, NEW A, LogOK(A)
    PROVE  /\ Matches(p, A, Begun(p)) /\ RestInTime(A, Begun(p)) /\ LastIncluded(A, Begun(p).included)
<1> DEFINE b == Begun(p)
<1>1. History(p, A, 0) = b
  BY HistoryType
<1>2. /\ b \in State /\ Sound(b) /\ b.tick = 0 /\ b.included = 0
      /\ AtMostOne(b.cmds) /\ Numbered(FrozenCommands(b)) /\ \A c \in b.cmds : c.lsn = 0 /\ c.due = 0
  BY BegunState
<1> HIDE DEF b
<1>3. Len(A) \in Nat
  BY LogType
<1>4. PendingOf(A, b, b.cmds)
  <2>1. \A c \in b.cmds : Left(b, b.cmds, c)
    BY <1>2 DEF Left, AtMostOne
  <2> QED
    BY <1>2, <1>3, <2>1 DEF PendingOf
<1>5. RestInTime(A, b)
  <2>1. \A l \in Rest(A, b) : A[l].due \in Nat \ {0}
    BY <1>2, <1>3, LogType DEF Rest
  <2> QED
    BY <1>2, <2>1 DEF RestInTime, InTime
<1>6. Matches(p, A, b)
  BY <1>1, <1>2, <1>4, HoldingOwn DEF Matches
<1> QED
  BY <1>2, <1>5, <1>6 DEF LastIncluded, b

(* Two runtimes that agree with the same log at the same tick.              *)
LEMMA SameMatches ==
    ASSUME NEW p, NEW A, LogOK(A), NEW s, NEW u, Matches(p, A, s), Matches(p, A, u), s.tick = u.tick
    PROVE  /\ s.obj = u.obj /\ s.revision = u.revision /\ s.erased = u.erased
           /\ s.rng = u.rng /\ s.intents = u.intents /\ s.events = u.events
<1> DEFINE h == History(p, A, s.tick)
<1>1. /\ s.cmds \in SUBSET Pending /\ s.nextSeq \in Nat \ {0} /\ s.included \in Nat /\ s.tick \in Nat
      /\ s = Holding(h, s.cmds, s.nextSeq, s.included)
  BY MatchesType
<1>2. /\ u.cmds \in SUBSET Pending /\ u.nextSeq \in Nat \ {0} /\ u.included \in Nat
      /\ u = Holding(h, u.cmds, u.nextSeq, u.included)
  BY MatchesType
<1>3. h \in State
  <2>1. Sound(h)
    BY <1>1, HistoryType
  <2> HIDE DEF h
  <2> QED
    BY <2>1 DEF Sound
<1> HIDE DEF h
<1> DEFINE F == {"tick", "obj", "revision", "erased", "events", "nextEvent",
                 "intents", "nextIntent", "rng"}
<1>4. \A f \in F : Holding(h, s.cmds, s.nextSeq, s.included)[f] = h[f]
  BY <1>1, <1>3, HoldingType
<1>5. \A f \in F : Holding(h, u.cmds, u.nextSeq, u.included)[f] = h[f]
  BY <1>2, <1>3, HoldingType
<1>6. \A f \in F : s[f] = u[f]
  BY <1>1, <1>2, <1>4, <1>5
<1> QED
  BY <1>6

(* Two runtimes with the same callbacks, the same log and the same tick     *)
(* have the same state: both are in its history.                            *)
LEMMA FollowsFromInv ==
    ASSUME Replayable, RecoveryInv
    PROVE  StateFollowsFromLog
<1> SUFFICES ASSUME up, orderly
             PROVE  LET u == Unstopped
                    IN  /\ sim.obj = u.obj /\ sim.revision = u.revision /\ sim.erased = u.erased
                        /\ sim.rng = u.rng /\ sim.intents = u.intents /\ sim.events = u.events
  BY DEF StateFollowsFromLog
<1>1. LogOK(wal) /\ HashesOK(program, wal) /\ "late" \notin program /\ Matches(program, wal, sim)
  BY DEF RecoveryInv, StorageInv, FollowInv, Replayable, RunningInv
<1> DEFINE b == EnqueuedAll(Begun(program))
           u == RunTo(b, sim.tick - 1 + 1).sim
<1>2. Matches(program, wal, b) /\ b.tick = 0 /\ NoneAfter(wal, b.included)
  <2>1. Matches(program, wal, Begun(program)) /\ RestInTime(wal, Begun(program))
        /\ LastIncluded(wal, Begun(program).included)
    BY <1>1, BegunMatches
  <2>2. Begun(program).tick = 0
    BY BegunState
  <2> QED
    BY <1>1, <2>1, <2>2, EnqueuedToMatches
<1>3. Unstopped = u
  BY DEF Unstopped, Run
<1>4. sim.tick \in Nat /\ sim.tick - 1 + 1 = sim.tick
  BY <1>1, MatchesType
<1> HIDE DEF b
<1>5. Matches(program, wal, u) /\ u.tick = sim.tick
  <2>1. /\ Matches(program, wal, RunTo(b, sim.tick).sim)
        /\ RunTo(b, sim.tick).sim.tick = Larger(b.tick, sim.tick)
    BY <1>1, <1>2, <1>4, RunMatches
  <2>2. Larger(0, sim.tick) = sim.tick
    BY <1>4 DEF Larger
  <2> QED
    BY <1>2, <1>4, <2>1, <2>2
<1> HIDE DEF u
<1> QED
  BY <1>1, <1>3, <1>5, SameMatches

(* B is the log A with records after it none of which commands a tick       *)
(* before t.                                                                *)
Extends(A, B, t) ==
    /\ LogOK(A) /\ LogOK(B) /\ Len(A) <= Len(B)
    /\ \A l \in 1 .. Len(A) : A[l] = B[l]
    /\ \A l \in Len(A) + 1 .. Len(B) : IsCommand(B, l) => B[l].due >= t

(* Later commands of the log are not executed before their tick.            *)
LEMMA FromLogStays ==
    ASSUME NEW A, NEW B, NEW t \in Nat, Extends(A, B, t), NEW h, Sound(h), h.tick < t
    PROVE  FromLog(A, h, Len(A)) = FromLog(B, h, Len(B))
<1>0. LogOK(A) /\ LogOK(B) /\ Len(A) \in Nat /\ Len(B) \in Nat /\ Len(A) <= Len(B)
      /\ DOMAIN A = 1 .. Len(A) /\ DOMAIN B = 1 .. Len(B)
      /\ (\A l \in 1 .. Len(A) : A[l] = B[l]) /\ h.tick \in Nat
      /\ (\A l \in Len(A) + 1 .. Len(B) : IsCommand(B, l) => B[l].due >= t)
  BY LogType DEF Extends, Sound, State
<1>1. FromLog(B, h, Len(B)) = FromLog(B, h, Len(A))
  <2>1. \A k \in Len(A) + 1 .. Len(B) : ~DueAt(B, k, h.tick)
    BY <1>0 DEF DueAt
  <2> QED
    BY <1>0, <2>1, FromLogSkips
<1> DEFINE x(n) == FromLog(A, h, n)
           y(n) == FromLog(B, h, n)
           S == {n \in Nat : n <= Len(A) => x(n) = y(n)}
<1>2. /\ x(0) = h /\ y(0) = h
      /\ \A n \in Nat : x(n + 1) = FromLogAt(A, h.tick, x(n), n + 1)
      /\ \A n \in Nat : y(n + 1) = FromLogAt(B, h.tick, y(n), n + 1)
  <2>1. x(0) = h /\ \A n \in Nat : x(n + 1) = FromLogAt(A, h.tick, x(n), n + 1)
    BY <1>0, FromLogOnward
  <2>2. y(0) = h /\ \A n \in Nat : y(n + 1) = FromLogAt(B, h.tick, y(n), n + 1)
    BY <1>0, FromLogOnward
  <2> QED
    BY <2>1, <2>2
<1> HIDE DEF x, y
<1>3. 0 \in S
  BY <1>2
<1>4. ASSUME NEW n \in S PROVE n + 1 \in S
  <2> SUFFICES ASSUME n + 1 <= Len(A) PROVE x(n + 1) = y(n + 1)
    OBVIOUS
  <2>1. n + 1 \in 1 .. Len(A) /\ x(n) = y(n) /\ n \in Nat
    BY <1>0, <1>4
  <2> DEFINE l == n + 1
             v == x(n)
  <2> HIDE DEF l, v
  <2>2. l \in 1 .. Len(A) /\ A[l] = B[l] /\ l \in DOMAIN A /\ l \in DOMAIN B
    BY <1>0, <2>1 DEF l
  <2>3. DueAt(A, l, h.tick) <=> DueAt(B, l, h.tick)
    BY <2>2 DEF DueAt, IsCommand
  <2>4. FromLogAt(A, h.tick, v, l) = FromLogAt(B, h.tick, v, l)
    BY <2>2, <2>3 DEF FromLogAt
  <2> QED
    BY <1>2, <2>1, <2>4 DEF l, v
<1>5. S \in SUBSET Nat
  OBVIOUS
<1> HIDE DEF S
<1>6. S = Nat
  BY <1>3, <1>4, <1>5, EveryNumber
<1>7. Len(A) \in S
  BY <1>0, <1>6
<1> QED
  BY <1>0, <1>1, <1>7 DEF S, x, y

(* A tick before the first new command is played as before.                 *)
LEMMA PlayedStays ==
    ASSUME NEW A, NEW B, NEW t \in Nat, Extends(A, B, t), NEW p, NEW h, Sound(h), h.tick < t
    PROVE  Played(p, A, h) = Played(p, B, h)
BY FromLogStays DEF Played, Commanded

(* Records that command no tick before t leave the states up to t alone.    *)
LEMMA HistoryStays ==
    ASSUME NEW A, NEW B, NEW t \in Nat, Extends(A, B, t), NEW p
    PROVE  /\ \A n \in 0 .. t : History(p, A, n) = History(p, B, n)
           /\ \A n \in 0 .. t : n < t => HashAt(p, A, n) = HashAt(p, B, n)
<1> DEFINE x(n) == History(p, A, n)
           y(n) == History(p, B, n)
           S == {n \in Nat : n <= t => x(n) = y(n)}
<1>0. LogOK(A) /\ LogOK(B)
  BY DEF Extends
<1>1. x(0) = y(0)
  BY <1>0, HistoryType
<1>2. \A n \in Nat : /\ Sound(x(n)) /\ x(n).tick = n /\ x(n + 1) = Later(Played(p, A, x(n)))
                     /\ y(n + 1) = Later(Played(p, B, y(n)))
  BY <1>0, HistoryType
<1> HIDE DEF x, y
<1>3. \A n \in Nat : n < t => Played(p, A, x(n)) = Played(p, B, x(n))
  BY <1>2, PlayedStays
<1>4. 0 \in S
  BY <1>1
<1>5. ASSUME NEW n \in S PROVE n + 1 \in S
  <2> SUFFICES ASSUME n + 1 <= t PROVE x(n + 1) = y(n + 1)
    OBVIOUS
  <2>1. n \in Nat /\ x(n) = y(n) /\ n < t
    BY <1>5
  <2>2. Played(p, A, x(n)) = Played(p, B, y(n))
    BY <1>3, <2>1
  <2> QED
    BY <1>2, <2>1, <2>2
<1>6. S \in SUBSET Nat
  OBVIOUS
<1> HIDE DEF S
<1>7. S = Nat
  BY <1>4, <1>5, <1>6, EveryNumber
<1>8. \A n \in 0 .. t : x(n) = y(n)
  BY <1>7 DEF S
<1>9. ASSUME NEW n \in 0 .. t, n < t PROVE HashAt(p, A, n) = HashAt(p, B, n)
  <2>1. x(n) = y(n) /\ Played(p, A, x(n)) = Played(p, B, x(n))
    BY <1>3, <1>8, <1>9
  <2> QED
    BY <2>1 DEF HashAt, x, y
<1> QED
  BY <1>8, <1>9 DEF x, y

(* What a longer log leaves alone: the pending commands of a state, the     *)
(* state itself and a checkpoint, in both directions.                       *)
LEMMA PendingStays ==
    ASSUME NEW A, NEW B, NEW s, s.included \in Nat, s.included <= Len(A), s.included <= Len(B),
           Len(A) \in Nat, Len(B) \in Nat,
           \A l \in 1 .. s.included : A[l] = B[l], NEW left
    PROVE  PendingOf(A, s, left) <=> PendingOf(B, s, left)
<1>1. \A l \in 1 .. s.included : IsCommand(A, l) <=> IsCommand(B, l)
  BY DEF IsCommand
<1>2. ASSUME NEW c PROVE Logged(A, s, c) <=> Logged(B, s, c)
  <2>1. c.lsn \in 1 .. s.included => A[c.lsn] = B[c.lsn]
    OBVIOUS
  <2> QED
    BY <1>1, <2>1 DEF Logged
<1>3. (\A l \in 1 .. s.included : IsCommand(A, l) /\ A[l].due >= s.tick => \E c \in s.cmds : c.lsn = l)
      <=> (\A l \in 1 .. s.included : IsCommand(B, l) /\ B[l].due >= s.tick => \E c \in s.cmds : c.lsn = l)
  BY <1>1
<1> QED
  BY <1>2, <1>3 DEF PendingOf

(* A runtime agrees with the log it had and with the longer one.            *)
LEMMA MatchesStays ==
    ASSUME NEW A, NEW B, NEW t \in Nat, Extends(A, B, t), NEW p,
           NEW s, s.tick \in Nat, s.tick <= t, s.included \in Nat, s.included <= Len(A)
    PROVE  Matches(p, A, s) <=> Matches(p, B, s)
<1>1. /\ Len(A) \in Nat /\ Len(B) \in Nat /\ Len(A) <= Len(B) /\ (\A l \in 1 .. Len(A) : A[l] = B[l])
  BY LogType DEF Extends
<1>2. s.included <= Len(B) /\ \A l \in 1 .. s.included : A[l] = B[l]
  BY <1>1
<1>3. History(p, A, s.tick) = History(p, B, s.tick)
  BY HistoryStays
<1> DEFINE left == History(p, A, s.tick).cmds
<1>4. PendingOf(A, s, left) <=> PendingOf(B, s, left)
  <2> HIDE DEF left
  <2> QED
    BY <1>1, <1>2, PendingStays
<1> QED
  BY <1>3, <1>4 DEF Matches

(* What a checkpoint kept under the invariant holds.                        *)
LEMMA KeptType ==
    ASSUME NEW p, NEW A, LogOK(A), NEW i, Kept(p, A, i), NEW s, s = KeptState(p, i)
    PROVE  /\ Matches(p, A, s) /\ s \in State /\ s.tick \in Nat /\ s.included \in 0 .. Len(A)
           /\ RestInTime(A, s) /\ LastIncluded(A, s.included) /\ HashesBefore(A, s.included, s.tick)
<1>1. /\ Matches(p, A, s) /\ RestInTime(A, s)
      /\ LastIncluded(A, s.included) /\ HashesBefore(A, s.included, s.tick)
  BY DEF Kept
<1>2. s \in State /\ s.tick \in Nat /\ s.included \in 0 .. Len(A)
  BY <1>1, MatchesType DEF PendingOf
<1> QED
  BY <1>1, <1>2

(* No checkpoint at all stands for a runtime that has just begun.           *)
LEMMA NothingKept ==
    ASSUME NEW p, NEW A, LogOK(A)
    PROVE  Kept(p, A, Nothing)
<1> DEFINE b == Begun(p)
<1>1. KeptState(p, Nothing) = b
  BY DEF KeptState
<1>2. Matches(p, A, b) /\ RestInTime(A, b) /\ LastIncluded(A, b.included) /\ b.included = 0
  BY BegunMatches, BegunState
<1> HIDE DEF b
<1>3. HashesBefore(A, 0, b.tick)
  BY DEF HashesBefore
<1> QED
  BY <1>1, <1>2, <1>3 DEF Kept

(* What a longer log adds to the commands that a state does not include.    *)
LEMMA RestGrows ==
    ASSUME NEW A, NEW B, NEW t \in Nat, Extends(A, B, t), NEW s, s.included \in 0 .. Len(A)
    PROVE  /\ \A l \in Rest(A, s) : l \in Rest(B, s) /\ A[l] = B[l] /\ l \in 1 .. Len(A)
           /\ \A l \in Rest(B, s) :
                 \/ l \in Rest(A, s) /\ A[l] = B[l]
                 \/ l \in Len(A) + 1 .. Len(B) /\ IsCommand(B, l) /\ B[l].due \in Nat /\ B[l].due >= t
<1>1. /\ LogOK(A) /\ LogOK(B) /\ Len(A) \in Nat /\ Len(B) \in Nat /\ Len(A) <= Len(B)
      /\ (\A l \in 1 .. Len(A) : A[l] = B[l])
      /\ (\A l \in Len(A) + 1 .. Len(B) : IsCommand(B, l) => B[l].due >= t)
  BY LogType DEF Extends
<1>2. s.included \in Nat /\ s.included <= Len(A)
  BY <1>1
<1>3. ASSUME NEW l \in Rest(A, s)
      PROVE  l \in Rest(B, s) /\ A[l] = B[l] /\ l \in 1 .. Len(A)
  <2>1. l \in s.included + 1 .. Len(A) /\ IsCommand(A, l)
    BY DEF Rest
  <2>2. l \in 1 .. Len(A) /\ l \in s.included + 1 .. Len(B)
    BY <1>1, <1>2, <2>1
  <2> QED
    BY <1>1, <2>1, <2>2 DEF Rest, IsCommand
<1>4. ASSUME NEW l \in Rest(B, s)
      PROVE  \/ l \in Rest(A, s) /\ A[l] = B[l]
             \/ l \in Len(A) + 1 .. Len(B) /\ IsCommand(B, l) /\ B[l].due \in Nat /\ B[l].due >= t
  <2>1. l \in s.included + 1 .. Len(B) /\ IsCommand(B, l)
    BY DEF Rest
  <2>2. CASE l <= Len(A)
    <3>1. l \in 1 .. Len(A) /\ l \in s.included + 1 .. Len(A)
      BY <1>1, <1>2, <2>1, <2>2
    <3> QED
      BY <1>1, <2>1, <3>1 DEF Rest, IsCommand
  <2>3. CASE ~(l <= Len(A))
    <3>1. l \in Len(A) + 1 .. Len(B) /\ l \in 1 .. Len(B)
      BY <1>1, <1>2, <2>1, <2>3
    <3> QED
      BY <1>1, <2>1, <3>1, LogType
  <2> QED
    BY <2>2, <2>3
<1> QED
  BY <1>3, <1>4

(* A checkpoint stays good as the log grows behind it.                      *)
LEMMA KeptStays ==
    ASSUME NEW A, NEW B, NEW t \in Nat, Extends(A, B, t), NEW p, NEW i, Kept(p, A, i),
           KeptState(p, i).tick < t
    PROVE  Kept(p, B, i)
<1> DEFINE s == KeptState(p, i)
<1>0. LogOK(A) /\ LogOK(B) /\ Len(A) \in Nat /\ Len(B) \in Nat /\ Len(A) <= Len(B)
      /\ (\A l \in 1 .. Len(A) : A[l] = B[l])
  BY LogType DEF Extends
<1>1. /\ Matches(p, A, s) /\ s.tick \in Nat /\ s.included \in 0 .. Len(A) /\ RestInTime(A, s)
      /\ LastIncluded(A, s.included) /\ HashesBefore(A, s.included, s.tick)
  BY <1>0, KeptType
<1>2. s.tick < t
  OBVIOUS
<1> HIDE DEF s
<1>3. Matches(p, B, s)
  BY <1>0, <1>1, <1>2, MatchesStays
<1>4. LastIncluded(B, s.included)
  BY <1>0, <1>1 DEF LastIncluded, IsCommand
<1>5. RestInTime(B, s)
  <2> SUFFICES ASSUME NEW l \in Rest(B, s) PROVE InTime(s, B[l].due)
    BY DEF RestInTime
  <2>1. CASE l \in Rest(A, s) /\ A[l] = B[l]
    BY <1>1, <2>1 DEF RestInTime
  <2>2. CASE B[l].due \in Nat /\ B[l].due >= t
    BY <1>1, <1>2, <2>2 DEF InTime
  <2> QED
    BY <1>1, <2>1, <2>2, RestGrows
<1>6. HashesBefore(B, s.included, s.tick)
  BY <1>0, <1>1 DEF HashesBefore, IsCommand
<1> QED
  BY <1>3, <1>4, <1>5, <1>6 DEF Kept, s

(* A checkpoint stays good when the log loses records behind it that        *)
(* command no tick before t, as a crash may take those.                     *)
LEMMA KeptInShorter ==
    ASSUME NEW A, NEW B, NEW t \in Nat, Extends(A, B, t), NEW p, NEW i, Kept(p, B, i),
           KeptState(p, i).tick <= t, KeptState(p, i).included <= Len(A)
    PROVE  Kept(p, A, i)
<1> DEFINE s == KeptState(p, i)
<1>0. LogOK(A) /\ LogOK(B) /\ Len(A) \in Nat /\ Len(B) \in Nat /\ Len(A) <= Len(B)
      /\ (\A l \in 1 .. Len(A) : A[l] = B[l])
  BY LogType DEF Extends
<1>1. /\ Matches(p, B, s) /\ s.tick \in Nat /\ s.included \in 0 .. Len(B) /\ RestInTime(B, s)
      /\ LastIncluded(B, s.included) /\ HashesBefore(B, s.included, s.tick)
  BY <1>0, KeptType
<1>2. s.tick <= t /\ s.included <= Len(A)
  OBVIOUS
<1> HIDE DEF s
<1>3. s.included \in 0 .. Len(A)
  BY <1>0, <1>1, <1>2
<1>4. Matches(p, A, s)
  BY <1>0, <1>1, <1>2, <1>3, MatchesStays
<1>5. LastIncluded(A, s.included)
  BY <1>0, <1>1, <1>3 DEF LastIncluded, IsCommand
<1>6. RestInTime(A, s)
  BY <1>1, <1>3, RestGrows DEF RestInTime
<1>7. HashesBefore(A, s.included, s.tick)
  BY <1>0, <1>1, <1>3 DEF HashesBefore, IsCommand
<1> QED
  BY <1>4, <1>5, <1>6, <1>7 DEF Kept, s

(* The hashes in the log stay right as commands for later ticks are         *)
(* appended.                                                                *)
LEMMA HashesStay ==
    ASSUME NEW A, NEW B, NEW t \in Nat, Extends(A, B, t), NEW p, HashesOK(p, A),
           HashesBefore(A, Len(A), t)
    PROVE  \A l \in 1 .. Len(A) :
              ~IsCommand(B, l) => /\ B[l].tick \in Nat /\ B[l].tick < t
                                  /\ B[l].hash = HashAt(p, B, B[l].tick)
<1>0. LogOK(A) /\ LogOK(B) /\ Len(A) \in Nat /\ DOMAIN A = 1 .. Len(A)
      /\ (\A l \in 1 .. Len(A) : A[l] = B[l])
  BY LogType DEF Extends
<1> SUFFICES ASSUME NEW l \in 1 .. Len(A), ~IsCommand(B, l)
             PROVE  /\ B[l].tick \in Nat /\ B[l].tick < t
                    /\ B[l].hash = HashAt(p, B, B[l].tick)
  OBVIOUS
<1>1. A[l] = B[l] /\ ~IsCommand(A, l) /\ l \in DOMAIN A
  BY <1>0 DEF IsCommand
<1>2. A[l].tick \in Nat /\ A[l].hash = HashAt(p, A, A[l].tick) /\ A[l].tick < t
  BY <1>0, <1>1, LogType DEF HashesOK, HashesBefore
<1>3. HashAt(p, A, A[l].tick) = HashAt(p, B, A[l].tick)
  <2>1. A[l].tick \in 0 .. t
    BY <1>2
  <2> QED
    BY <1>2, <2>1, HistoryStays
<1> QED
  BY <1>1, <1>2, <1>3

(* The hashes left in a log that lost records from its end are right.       *)
LEMMA HashesInShorter ==
    ASSUME NEW A, NEW B, NEW t \in Nat, Extends(A, B, t), NEW p, HashesOK(p, B),
           HashesBefore(B, Len(B), t)
    PROVE  HashesOK(p, A)
<1>0. /\ LogOK(A) /\ LogOK(B) /\ Len(A) \in Nat /\ Len(B) \in Nat /\ Len(A) <= Len(B)
      /\ DOMAIN A = 1 .. Len(A) /\ DOMAIN B = 1 .. Len(B)
      /\ (\A l \in 1 .. Len(A) : A[l] = B[l])
  BY LogType DEF Extends
<1> SUFFICES ASSUME NEW l \in DOMAIN A, ~IsCommand(A, l)
             PROVE  A[l].hash = HashAt(p, A, A[l].tick)
  BY DEF HashesOK
<1>1. A[l] = B[l] /\ ~IsCommand(B, l) /\ l \in 1 .. Len(B)
  BY <1>0 DEF IsCommand
<1>2. B[l].tick \in Nat /\ B[l].hash = HashAt(p, B, B[l].tick) /\ B[l].tick < t
  BY <1>0, <1>1, LogType DEF HashesOK, HashesBefore
<1>3. HashAt(p, A, B[l].tick) = HashAt(p, B, B[l].tick)
  <2> DEFINE n == B[l].tick
  <2>1. n \in 0 .. t /\ n < t
    BY <1>2
  <2> HIDE DEF n
  <2>2. \A k \in 0 .. t : k < t => HashAt(p, A, k) = HashAt(p, B, k)
    BY HistoryStays
  <2>3. HashAt(p, A, n) = HashAt(p, B, n)
    BY <2>1, <2>2
  <2> QED
    BY <2>3 DEF n
<1>4. A[l].hash = HashAt(p, B, B[l].tick) /\ A[l].tick = B[l].tick
  BY <1>1, <1>2
<1> QED
  BY <1>3, <1>4

(* A prefix of the log is one.                                              *)
LEMMA PrefixOK ==
    ASSUME NEW B, LogOK(B), NEW n \in 0 .. Len(B), NEW A, A = SubSeq(B, 1, n)
    PROVE  LogOK(A) /\ Len(A) = n /\ n \in Nat /\ n <= Len(B) /\ \A l \in 1 .. n : A[l] = B[l]
<1> DEFINE T == {B[l] : l \in DOMAIN B}
<1>1. /\ A \in Seq(T) /\ Len(A) = n /\ (\A l \in 1 .. n : A[l] = B[l])
      /\ Len(B) \in Nat /\ DOMAIN B = 1 .. Len(B) /\ n \in Nat /\ n <= Len(B)
  <2>1. B \in Seq(T)
    BY DEF LogOK
  <2>2. Len(B) \in Nat /\ DOMAIN B = 1 .. Len(B)
    BY LogType
  <2> HIDE DEF T
  <2> QED
    BY <2>1, <2>2, Prefix
<1> HIDE DEF T
<1>2. DOMAIN A = 1 .. n
  BY <1>1, LenProperties
<1> DEFINE U == {A[l] : l \in DOMAIN A}
<1>3. A \in Seq(U)
  <2>1. \A l \in 1 .. n : A[l] \in U
    BY <1>2
  <2> HIDE DEF U
  <2> QED
    BY <1>1, <2>1, LenProperties
<1>4. ASSUME NEW l \in DOMAIN A
      PROVE  IF IsCommand(A, l)
             THEN A[l].due \in Nat \ {0} /\ A[l].rec.op \in Ops /\ Decodes(A[l].rec)
             ELSE A[l].kind = "hash" /\ A[l].tick \in Nat
  <2>1. l \in DOMAIN B /\ A[l] = B[l] /\ (IsCommand(A, l) <=> IsCommand(B, l))
    BY <1>1, <1>2 DEF IsCommand
  <2> QED
    BY <2>1 DEF LogOK
<1> QED
  BY <1>1, <1>3, <1>4 DEF LogOK

(* What is saved, whatever has happened: an enqueued command, a tick, a     *)
(* replay.                                                                  *)
LEMMA EnqueuedStores ==
    ASSUME NEW s, Storable(s), NEW due \in Nat, NEW lsn \in Nat, NEW op \in Ops
    PROVE  /\ Storable(Enqueued(s, due, lsn, op)) /\ Enqueued(s, due, lsn, op).obj = s.obj
<1> DEFINE e == Entry(s.nextSeq, due, lsn, op)
           u == Enqueued(s, due, lsn, op)
           c == s.cmds \cup {e}
           i == Larger(s.included, lsn)
<1>1. /\ Sound(s) /\ s \in State /\ s.nextSeq \in Nat \ {0} /\ s.cmds \in SUBSET Pending
      /\ i \in Nat /\ \A d \in s.cmds : /\ d.seq \in 1 .. s.nextSeq - 1
                                        /\ \A f \in s.cmds : f.seq = d.seq => f = d
  BY DEF Storable, Sound, State, Numbered, FrozenCommands, Larger
<1>2. e \in Pending /\ u = Holding(s, c, s.nextSeq + 1, i) /\ e.seq = s.nextSeq
  BY <1>1, EnqueuedType DEF Entry
<1>3. c \in SUBSET Pending /\ s.nextSeq + 1 \in Nat \ {0}
  BY <1>1, <1>2
<1> HIDE DEF e, i, u, c
<1>4. Sound(u) /\ u.cmds = c /\ u.nextSeq = s.nextSeq + 1 /\ u.obj = s.obj
  BY <1>1, <1>2, <1>3, HoldingType, SoundHolding
<1>5. Numbered(FrozenCommands(u))
  <2> SUFFICES ASSUME NEW d \in c
               PROVE  d.seq \in 1 .. s.nextSeq /\ \A f \in c : f.seq = d.seq => f = d
    BY <1>1, <1>4 DEF Numbered, FrozenCommands
  <2> QED
    BY <1>1, <1>2 DEF c
<1> QED
  BY <1>4, <1>5 DEF Storable, u

(* A tick of any runtime.                                                   *)
LEMMA StepStores ==
    ASSUME NEW p, NEW s, Storable(s), NEW y, y = Phases(p, Applied(s))
    PROVE  /\ Storable(y) /\ y \in State /\ Storable(Later(y)) /\ Later(y).obj = y.obj
           /\ Later(y).tick = y.tick + 1 /\ y.tick = s.tick
           /\ \A w \in Lasting : s.obj[w] # Absent => y.obj[w] # Absent
<1> DEFINE due  == Due(s.cmds, s.tick)
           left == s.cmds \ due
           last == s.nextSeq - 1
           b    == [s EXCEPT !.cmds = @ \ due]
           a    == ExecutedTo(b, due, last)
<1>1. /\ Sound(s) /\ s \in State /\ s.nextSeq \in Nat \ {0} /\ s.cmds \in SUBSET Pending
      /\ s.included \in Nat /\ last \in Nat /\ due \in SUBSET Pending /\ left \in SUBSET Pending
      /\ \A d \in s.cmds : d.seq \in 1 .. last /\ \A f \in s.cmds : f.seq = d.seq => f = d
  BY DEF Storable, Sound, State, Numbered, FrozenCommands, Due
<1>2. b = Holding(s, left, s.nextSeq, s.included)
  BY <1>1 DEF Holding, State
<1>3. Applied(s) = a
  BY DEF Applied
<1> HIDE DEF b, due, last
<1>4. /\ Sound(b) /\ b.obj = s.obj /\ b.cmds = left /\ b.nextSeq = s.nextSeq
      /\ b.included = s.included /\ b.tick = s.tick
  BY <1>1, <1>2, HoldingType, SoundHolding
<1>5. Onward(b, a)
  BY <1>1, <1>4, ExecutedToOnward
<1> HIDE DEF a
<1>6. /\ Sound(a) /\ a \in State /\ a.cmds = left /\ a.nextSeq = s.nextSeq /\ a.included = s.included
      /\ a.tick = s.tick
      /\ \A w \in Lasting : s.obj[w] # Absent => a.obj[w] # Absent
  BY <1>4, <1>5 DEF Onward, Sound
<1> HIDE DEF left
<1>7. PICK x, new : /\ new \in Lefts(a.tick) /\ Onward(a, x)
                    /\ \A c \in SUBSET Pending, n \in Nat \ {0}, i \in Nat :
                          Phases(p, Holding(a, c, n, i)) = Leaving(x, c, n, i, new)
  BY <1>6, PhasesLeave
<1>8. a = Holding(a, left, s.nextSeq, s.included)
  BY <1>6, HoldingOwn
<1> DEFINE c == left \cup Notes(s.nextSeq, new)
           n == IF new = {} THEN s.nextSeq ELSE s.nextSeq + 1
<1>9. y = Holding(x, c, n, s.included)
  <2>1. y = Leaving(x, left, s.nextSeq, s.included, new)
    BY <1>1, <1>3, <1>7, <1>8
  <2> HIDE DEF c, n
  <2> QED
    BY <2>1, LeavingShape DEF c, n
<1>10. /\ Notes(s.nextSeq, new) \in SUBSET Pending /\ AtMostOne(Notes(s.nextSeq, new))
       /\ \A d \in Notes(s.nextSeq, new) : d.seq = s.nextSeq /\ new # {}
  <2>1. a.tick \in Nat
    BY <1>6 DEF State
  <2> QED
    BY <1>1, <1>7, <2>1, NotesType DEF Notes, Entry
<1>11. c \in SUBSET Pending /\ n \in Nat \ {0}
  BY <1>1, <1>10
<1>12. Numbered([pending |-> c, next |-> n])
  <2>1. \A d \in left : d.seq \in 1 .. s.nextSeq - 1 /\ \A f \in left : f.seq = d.seq => f = d
    BY <1>1 DEF left, last
  <2> SUFFICES ASSUME NEW d \in c PROVE d.seq \in 1 .. n - 1 /\ \A f \in c : f.seq = d.seq => f = d
    BY DEF Numbered
  <2>2. CASE d \in left
    BY <1>1, <1>10, <2>1, <2>2
  <2>3. CASE d \in Notes(s.nextSeq, new)
    BY <1>1, <1>10, <2>1, <2>3 DEF AtMostOne
  <2> QED
    BY <2>2, <2>3
<1> HIDE DEF c, n
<1>13. /\ Sound(x) /\ x \in State /\ x.tick = a.tick
       /\ \A w \in Lasting : a.obj[w] # Absent => x.obj[w] # Absent
  BY <1>7 DEF Onward, Sound
<1>14. Sound(y) /\ y.cmds = c /\ y.nextSeq = n /\ y.obj = x.obj /\ y.tick = x.tick
  BY <1>1, <1>9, <1>11, <1>13, HoldingType, SoundHolding
<1>15. Storable(y) /\ y \in State
  BY <1>12, <1>14 DEF Storable, Sound, Numbered, FrozenCommands
<1>16. /\ Sound(Later(y)) /\ Later(y).tick = y.tick + 1
       /\ Later(y).cmds = y.cmds /\ Later(y).nextSeq = y.nextSeq /\ Later(y).obj = y.obj
  BY <1>14, LaterType DEF Boot
<1>17. Storable(Later(y))
  BY <1>15, <1>16 DEF Storable, Numbered, FrozenCommands
<1> QED
  BY <1>6, <1>13, <1>14, <1>15, <1>16, <1>17

(* The commands of the log.                                                 *)
LEMMA EnqueuedAllStores ==
    ASSUME LogOK(wal), NEW s, Storable(s)
    PROVE  Storable(EnqueuedAll(s)) /\ EnqueuedAll(s).obj = s.obj
<1> DEFINE X == {x \in State : Storable(x) /\ x.obj = s.obj}
<1>1. Len(wal) \in Nat /\ \A l \in Cmds : /\ l \in Nat /\ wal[l].due \in Nat
                                         /\ wal[l].rec.op \in Ops
  BY LogType DEF Cmds, IsCommand
<1>2. s \in X
  BY DEF Storable, Sound
<1>3. ASSUME NEW x \in X, NEW l \in Nat PROVE EnqueuedAt(x, s.included, l) \in X
  <2>1. CASE l > s.included /\ l \in Cmds
    <3> DEFINE u == Enqueued(x, wal[l].due, l, wal[l].rec.op)
    <3>1. Storable(u) /\ u.obj = x.obj
      BY <1>1, <2>1, EnqueuedStores
    <3>2. EnqueuedAt(x, s.included, l) = u
      BY <2>1 DEF EnqueuedAt
    <3> HIDE DEF u
    <3> QED
      BY <3>1, <3>2 DEF Storable, Sound
  <2> QED
    BY <2>1 DEF EnqueuedAt
<1> HIDE DEF X
<1>4. EnqueuedTo(s, Len(wal)) \in X
  BY <1>1, <1>2, <1>3, EnqueuedTurns
<1> QED
  BY <1>4 DEF EnqueuedAll, X

(* The steps of a replay.                                                   *)
LEMMA RunStores ==
    ASSUME "late" \notin program, NEW s, Storable(s), NEW n \in Nat
    PROVE  /\ RunTo(s, 0) = [sim |-> s, ok |-> TRUE]
           /\ Storable(RunTo(s, n).sim)
           /\ \A w \in Lasting : s.obj[w] # Absent => RunTo(s, n).sim.obj[w] # Absent
<1> DEFINE X == {r \in [sim : State, ok : BOOLEAN] :
                    /\ Storable(r.sim)
                    /\ \A w \in Lasting : s.obj[w] # Absent => r.sim.obj[w] # Absent}
<1>1. [sim |-> s, ok |-> TRUE] \in X
  BY DEF Storable, Sound
<1>2. ASSUME NEW r \in X, NEW k \in Nat PROVE Replays(r, k - 1, s.included) \in X
  <2>1. CASE ~r.ok \/ r.sim.tick # k - 1
    BY <2>1 DEF Replays
  <2>2. CASE ~(~r.ok \/ r.sim.tick # k - 1)
    <3> DEFINE y == Stable(r.sim)
               next == Replays(r, k - 1, s.included)
    <3>1. /\ Storable(Later(y)) /\ Later(y).obj = y.obj
          /\ \A w \in Lasting : r.sim.obj[w] # Absent => y.obj[w] # Absent
      BY StepStores DEF Stable
    <3> HIDE DEF y
    <3>2. Finished(y) = Later(y)
      BY DEF Finished, Later
    <3>3. next.sim = Later(y) /\ next.ok \in BOOLEAN /\ next = [sim |-> next.sim, ok |-> next.ok]
      BY <2>2, <3>2 DEF Replays, y
    <3>4. Later(y) \in State
      BY <3>1 DEF Storable, Sound
    <3> HIDE DEF next
    <3>5. next \in X
      BY <3>1, <3>3, <3>4
    <3> QED
      BY <3>5 DEF next
  <2> QED
    BY <2>1, <2>2
<1> HIDE DEF X
<1>3. RunTo(s, 0) = [sim |-> s, ok |-> TRUE] /\ RunTo(s, n) \in X
  BY <1>1, <1>2, RunTurns
<1> QED
  BY <1>3 DEF X

(* Who is active after an activation, after a deactivation and after a      *)
(* start.                                                                   *)
LEMMA ActivateAdds ==
    ASSUME EntityInv, NEW w \in Wid, Activate(w)
    PROVE  Active' \subseteq Active \cup {w}
<1> DEFINE i  == SlotFor(ecs)
           n  == Cardinality(handles) + 1
           e(g) == Filled(w, g, n)
<1>1. ecs' = Occupied(ecs, w, n)
  BY DEF Activate
<1>2. ecs.slot \in Seq(Slots) /\ DOMAIN ecs.slot = 1 .. Len(ecs.slot) /\ Len(ecs.slot) \in Nat
  BY LenProperties DEF EntityInv, FreeInv
<1>3. \A g : e(g).wid = w
  BY DEF Filled
<1> HIDE DEF n, e
<1>4. ASSUME NEW j \in DOMAIN ecs'.slot
      PROVE  ecs'.slot[j].wid = w \/ (j \in DOMAIN ecs.slot /\ ecs'.slot[j] = ecs.slot[j])
  <2>1. CASE ecs.free = <<>>
    <3>1. ecs'.slot = Append(ecs.slot, e(1))
      BY <1>1, <2>1 DEF Occupied, EntityInv, e
    <3> HIDE DEF i
    <3> QED
      BY <1>2, <1>3, <3>1, AppendProperties
  <2>2. CASE ecs.free # <<>>
    <3>1. ecs'.slot = [ecs.slot EXCEPT ![i] = e(ecs.slot[i].gen)]
      BY <1>1, <2>2 DEF Occupied, e
    <3> HIDE DEF i
    <3> QED
      BY <1>3, <3>1
  <2> QED
    BY <2>1, <2>2
<1> QED
  BY <1>4 DEF Active

(* A deactivation makes nothing active.                                     *)
LEMMA DeactivateRemoves ==
    ASSUME EntityInv, NEW h \in handles, Deactivate(h)
    PROVE  Active' \subseteq Active
<1> DEFINE i == h.slot
           g == ecs.slot[i].gen
           gone(n) == [ecs.slot[i] EXCEPT !.used = FALSE, !.gen = n]
           next == IF g = GenMax THEN 1 ELSE g + 1
<1>1. /\ ecs' = Destroy(ecs, i) /\ ecs.slot \in Seq(Slots)
      /\ i \in DOMAIN ecs.slot /\ ecs.slot[i].used /\ ecs.slot[i] \in Slots
  BY DEF Deactivate, EntityInv, FreeInv, HandleInv, Names
<1>2. \A n : ~gone(n).used
  <2>1. \A n : \A x \in Slots : ~[x EXCEPT !.used = FALSE, !.gen = n].used
    BY DEF Slots
  <2> QED
    BY <1>1, <2>1
<1>3. ecs'.slot = [ecs.slot EXCEPT ![i] = gone(next)]
  <2> DEFINE d == [ecs.slot EXCEPT ![i].used = FALSE, ![i].gen = IF @ = GenMax THEN 1 ELSE @ + 1]
  <2>1. ecs.slot[i] = [wid |-> ecs.slot[i].wid, gen |-> g, used |-> TRUE, born |-> ecs.slot[i].born]
    BY <1>1 DEF Slots
  <2>2. d = [ecs.slot EXCEPT ![i] = gone(next)]
    BY <1>1, <2>1
  <2>3. ecs'.slot = d
    BY <1>1 DEF Destroy
  <2> QED
    BY <2>2, <2>3
<1> HIDE DEF gone, next, g, i
<1> QED
  BY <1>2, <1>3 DEF Active

(* The entities of a checkpoint, each in a slot.                            *)
LEMMA MadeAgainActive ==
    ASSUME NEW S, IsFiniteSet(S)
    PROVE  \A j \in DOMAIN MadeAgain(S).slot : MadeAgain(S).slot[j].wid \in S
<1> DEFINE n     == Cardinality(S)
           order == SetToSeq(S)
<1>1. n \in Nat /\ ExistsBijection(1 .. n, S)
  BY FS_CardinalityType
<1>2. \E f \in [1 .. n -> S] : IsInjective(f)
  <2>1. PICK f \in Bijection(1 .. n, S) : TRUE
    BY <1>1 DEF ExistsBijection
  <2> HIDE DEF n
  <2>2. f \in [1 .. n -> S] /\ IsInjective(f)
    BY <2>1 DEF Bijection, Injection, IsInjective
  <2> QED
    BY <2>2
<1>3. order \in [1 .. n -> S]
  BY <1>2 DEF SetToSeq
<1>4. MadeAgain(S).slot = [k \in DOMAIN order |-> Filled(order[k], 1, 0)]
  BY DEF MadeAgain
<1> HIDE DEF n, order
<1> QED
  BY <1>3, <1>4 DEF Filled

(* One more record at the end of the log.                                   *)
LEMMA OneMore ==
    ASSUME NEW A, LogOK(A), NEW r,
           IF r.kind = "command"
           THEN r.due \in Nat \ {0} /\ r.rec.op \in Ops /\ Decodes(r.rec)
           ELSE r.kind = "hash" /\ r.tick \in Nat
    PROVE  /\ LogOK(Append(A, r)) /\ Len(Append(A, r)) = Len(A) + 1 /\ Len(A) \in Nat
           /\ Append(A, r)[Len(A) + 1] = r
           /\ \A l \in 1 .. Len(A) : Append(A, r)[l] = A[l]
<1> DEFINE S == {A[l] : l \in DOMAIN A} \cup {r}
           B == Append(A, r)
<1>1. A \in Seq({A[l] : l \in DOMAIN A}) /\ Len(A) \in Nat /\ DOMAIN A = 1 .. Len(A)
  BY LogType DEF LogOK
<1>2. A \in Seq(S)
  <2>1. \A l \in 1 .. Len(A) : A[l] \in S
    BY <1>1
  <2> HIDE DEF S
  <2> QED
    BY <1>1, <2>1, LenProperties
<1>3. r \in S
  OBVIOUS
<1> HIDE DEF S
<1>4. /\ B \in Seq(S) /\ Len(B) = Len(A) + 1 /\ B[Len(A) + 1] = r
      /\ \A l \in 1 .. Len(A) : B[l] = A[l]
  BY <1>1, <1>2, <1>3, AppendProperties
<1>5. DOMAIN B = 1 .. Len(A) + 1
  BY <1>4, LenProperties
<1> HIDE DEF B
<1>6. B \in Seq({B[l] : l \in DOMAIN B})
  <2> DEFINE U == {B[l] : l \in DOMAIN B}
  <2>1. \A l \in 1 .. Len(B) : B[l] \in U
    BY <1>4, <1>5
  <2> HIDE DEF U
  <2>2. B \in Seq(U)
    BY <1>4, <2>1, LenProperties
  <2> QED
    BY <2>2 DEF U
<1>7. ASSUME NEW l \in DOMAIN B
      PROVE  IF IsCommand(B, l)
             THEN B[l].due \in Nat \ {0} /\ B[l].rec.op \in Ops /\ Decodes(B[l].rec)
             ELSE B[l].kind = "hash" /\ B[l].tick \in Nat
  <2>1. CASE l = Len(A) + 1
    BY <1>4, <2>1 DEF IsCommand
  <2>2. CASE l # Len(A) + 1
    <3>1. l \in 1 .. Len(A)
      BY <1>1, <1>5, <2>2
    <3>2. B[l] = A[l] /\ (IsCommand(A, l) <=> IsCommand(B, l)) /\ l \in DOMAIN A
      BY <1>1, <1>4, <3>1 DEF IsCommand
    <3> QED
      BY <3>2 DEF LogOK
  <2> QED
    BY <2>1, <2>2
<1>8. LogOK(B)
  BY <1>6, <1>7 DEF LogOK
<1> QED
  BY <1>1, <1>4, <1>8 DEF B

(* A record comes back as it was written.                                   *)
LEMMA EncodedDecodes ==
    ASSUME Replayable, NEW op \in Commands
    PROVE  Decodes(Encoded(op)) /\ Encoded(op).op = op /\ op \in Ops
<1>1. TextMod \in Nat \ {0}
  BY RuntimeConstants
<1>2. op.text \in Nat /\ op.text < TextMod /\ (op.kind = "create" => op.text > 0)
  <2>1. CASE op.kind = "create"
    <3>1. op.text \in Text
      BY <2>1 DEF Commands, Set
    <3>2. op.text \in 1 .. TextMod - 1
      BY <3>1 DEF Replayable
    <3> QED
      BY <1>1, <3>2
  <2>2. CASE op.kind # "create"
    <3>1. op.text = 0
      BY <2>2 DEF Commands, Set
    <3> QED
      BY <1>1, <2>2, <3>1
  <2> QED
    BY <2>1, <2>2
<1>3. \A n \in Nat, m \in Nat \ {0} : n < m => n % m = n
  OBVIOUS
<1>4. op.text % TextMod = op.text
  BY <1>1, <1>2, <1>3
<1> QED
  BY <1>2, <1>4 DEF Encoded, Decodes, Ops

(* The order of restore: by name, but for the world, which comes before the *)
(* active set.                                                              *)
Order == <<"ai_intents", "clock", "command_buffer", "world", "ecs_active_set",
           "event_bus", "random_streams">>

(* The names of the providers.                                              *)
Parts == {Order[k] : k \in 1 .. 7}

(* The first n of them, in their order.                                     *)
FirstOf(d, n) == d \in Seq(Parts) /\ Len(d) = n /\ \A k \in 1 .. n : d[k] = Order[k]

(* A provider whose requirements are listed comes next.                     *)
LEMMA ListedNext ==
    ASSUME NEW d, NEW n \in 0 .. 6, FirstOf(d, n)
    PROVE  FirstOf(Listed(d, Order[n + 1]), n + 1)
<1> DEFINE q == Order[n + 1]
<1>1. /\ d \in Seq(Parts) /\ Len(d) = n /\ DOMAIN d = 1 .. n
      /\ \A k \in 1 .. n : d[k] = Order[k]
  BY LenProperties DEF FirstOf
<1>2. q \in Parts /\ \A k \in 1 .. n : Order[k] # q
  <2>1. n + 1 \in 1 .. 7
    OBVIOUS
  <2>2. \A j, k \in 1 .. 7 : j # k => Order[j] # Order[k]
    <3>1. \A k \in 1 .. 7 : k = 1 \/ k = 2 \/ k = 3 \/ k = 4 \/ k = 5 \/ k = 6 \/ k = 7
      OBVIOUS
    <3> QED
      BY <3>1 DEF Order
  <2> QED
    BY <2>1, <2>2 DEF Parts
<1>3. q \notin Range(d)
  BY <1>1, <1>2 DEF Range
<1> HIDE DEF q
<1>4. Listed(d, q) = Append(d, q)
  BY <1>3 DEF Listed
<1>5. /\ Append(d, q) \in Seq(Parts) /\ Len(Append(d, q)) = n + 1 /\ Append(d, q)[n + 1] = q
      /\ \A k \in 1 .. n : Append(d, q)[k] = d[k]
  BY <1>1, <1>2, AppendProperties
<1>6. \A k \in 1 .. n + 1 : k \in 1 .. n \/ k = n + 1
  OBVIOUS
<1> QED
  BY <1>1, <1>4, <1>5, <1>6 DEF FirstOf, q

(* A listed provider is not listed twice.                                   *)
LEMMA ListedAgain ==
    ASSUME NEW d, NEW n \in 0 .. 7, FirstOf(d, n), NEW k \in 1 .. n
    PROVE  Listed(d, Order[k]) = d
<1>1. DOMAIN d = 1 .. n /\ d[k] = Order[k]
  BY LenProperties DEF FirstOf
<1> QED
  BY <1>1 DEF Listed, Range

(* The requirements of the providers leave one order to restore them in.    *)
LEMMA OrderOfRestore == FirstOf(RestoreOrder, 7)
<1> DEFINE P == {Provider[k] : k \in Nat} \cup {Needs[Provider[k]] : k \in Nat}
           x(n) == ListedTo(n)
<1>1. <<>> \in Seq(P)
  <2> HIDE DEF P
  <2> QED
    OBVIOUS
<1>2. \A d \in Seq(P), k \in Nat : ListedWith(d, Provider[k]) \in Seq(P)
  <2>1. \A k \in Nat : Provider[k] \in P /\ Needs[Provider[k]] \in P
    OBVIOUS
  <2> HIDE DEF P
  <2>2. \A d \in Seq(P), q \in P : Listed(d, q) \in Seq(P)
    BY DEF Listed
  <2> QED
    BY <2>1, <2>2 DEF ListedWith
<1> HIDE DEF P
<1>3. x(0) = <<>> /\ \A n \in Nat : x(n + 1) = ListedWith(x(n), Provider[n + 1])
  BY <1>1, <1>2, ListedTurns
<1> HIDE DEF x
<1>4. /\ Len(Provider) = 7
      /\ Provider[1] = Order[1] /\ Needs[Provider[1]] = Order[1]
      /\ Provider[2] = Order[2] /\ Needs[Provider[2]] = Order[2]
      /\ Provider[3] = Order[3] /\ Needs[Provider[3]] = Order[3]
      /\ Provider[4] = Order[5] /\ Needs[Provider[4]] = Order[4]
      /\ Provider[5] = Order[6] /\ Needs[Provider[5]] = Order[6]
      /\ Provider[6] = Order[7] /\ Needs[Provider[6]] = Order[7]
      /\ Provider[7] = Order[4] /\ Needs[Provider[7]] = Order[4]
  BY DEF Provider, Needs, Order, Range
<1>5. FirstOf(x(0), 0)
  <2>1. x(0) = <<>>
    BY <1>3
  <2>2. FirstOf(<<>>, 0)
    <3> HIDE DEF Parts
    <3>1. <<>> \in Seq(Parts) /\ Len(<<>>) = 0 /\ \A k \in 1 .. 0 : FALSE
      OBVIOUS
    <3> QED
      BY <3>1 DEF FirstOf
  <2> QED
    BY <2>1, <2>2
<1>6. FirstOf(x(1), 1)
  <2>1. x(1) = Listed(Listed(x(0), Order[1]), Order[1])
    BY <1>3, <1>4 DEF ListedWith
  <2>2. FirstOf(Listed(x(0), Order[1]), 1)
    BY <1>5, 0 \in 0 .. 6, ListedNext
  <2>3. FirstOf(Listed(Listed(x(0), Order[1]), Order[1]), 1)
    BY <2>2, 1 \in 0 .. 7, 1 \in 1 .. 1, ListedAgain
  <2> QED
    BY <2>1, <2>3
<1>7. FirstOf(x(2), 2)
  <2>1. x(2) = Listed(Listed(x(1), Order[2]), Order[2])
    BY <1>3, <1>4 DEF ListedWith
  <2>2. FirstOf(Listed(x(1), Order[2]), 2)
    BY <1>6, 1 \in 0 .. 6, ListedNext
  <2>3. FirstOf(Listed(Listed(x(1), Order[2]), Order[2]), 2)
    BY <2>2, 2 \in 0 .. 7, 2 \in 1 .. 2, ListedAgain
  <2> QED
    BY <2>1, <2>3
<1>8. FirstOf(x(3), 3)
  <2>1. x(3) = Listed(Listed(x(2), Order[3]), Order[3])
    BY <1>3, <1>4 DEF ListedWith
  <2>2. FirstOf(Listed(x(2), Order[3]), 3)
    BY <1>7, 2 \in 0 .. 6, ListedNext
  <2>3. FirstOf(Listed(Listed(x(2), Order[3]), Order[3]), 3)
    BY <2>2, 3 \in 0 .. 7, 3 \in 1 .. 3, ListedAgain
  <2> QED
    BY <2>1, <2>3
<1>9. FirstOf(x(4), 5)
  <2>1. x(4) = Listed(Listed(x(3), Order[4]), Order[5])
    BY <1>3, <1>4 DEF ListedWith
  <2>2. FirstOf(Listed(x(3), Order[4]), 4)
    BY <1>8, 3 \in 0 .. 6, ListedNext
  <2>3. FirstOf(Listed(Listed(x(3), Order[4]), Order[5]), 5)
    BY <2>2, 4 \in 0 .. 6, ListedNext
  <2> QED
    BY <2>1, <2>3
<1>10. FirstOf(x(5), 6)
  <2>1. x(5) = Listed(Listed(x(4), Order[6]), Order[6])
    BY <1>3, <1>4 DEF ListedWith
  <2>2. FirstOf(Listed(x(4), Order[6]), 6)
    BY <1>9, 5 \in 0 .. 6, ListedNext
  <2>3. FirstOf(Listed(Listed(x(4), Order[6]), Order[6]), 6)
    BY <2>2, 6 \in 0 .. 7, 6 \in 1 .. 6, ListedAgain
  <2> QED
    BY <2>1, <2>3
<1>11. FirstOf(x(6), 7)
  <2>1. x(6) = Listed(Listed(x(5), Order[7]), Order[7])
    BY <1>3, <1>4 DEF ListedWith
  <2>2. FirstOf(Listed(x(5), Order[7]), 7)
    BY <1>10, 6 \in 0 .. 6, ListedNext
  <2>3. FirstOf(Listed(Listed(x(5), Order[7]), Order[7]), 7)
    BY <2>2, 7 \in 0 .. 7, 7 \in 1 .. 7, ListedAgain
  <2> QED
    BY <2>1, <2>3
<1>12. FirstOf(x(7), 7)
  <2>1. x(7) = Listed(Listed(x(6), Order[4]), Order[4])
    BY <1>3, <1>4 DEF ListedWith
  <2>2. FirstOf(Listed(x(6), Order[4]), 7)
    BY <1>11, 7 \in 0 .. 7, 4 \in 1 .. 7, ListedAgain
  <2>3. FirstOf(Listed(Listed(x(6), Order[4]), Order[4]), 7)
    BY <2>2, 7 \in 0 .. 7, 4 \in 1 .. 7, ListedAgain
  <2> QED
    BY <2>1, <2>3
<1> QED
  BY <1>4, <1>12 DEF RestoreOrder, x

(* What one provider after the other makes of a runtime: more and more of   *)
(* the state k.                                                             *)
Runtimes == [sim : State, ok : BOOLEAN]
Fields   == DOMAIN Boot

(* x is r with the fields F as in k.                                        *)
Brings(r, x, k, F) ==
    /\ x \in Runtimes /\ x.ok
    /\ \A f \in F : x.sim[f] = k[f]
    /\ \A f \in Fields \ F : x.sim[f] = r.sim[f]

(* The checkpoint i is one of the state k.                                  *)
Holds(i, k) ==
    /\ k \in State
    /\ k.tick = i.clock /\ k.obj = i.world.obj /\ k.revision = i.world.revision
    /\ k.erased = i.world.erased /\ k.cmds = i.command_buffer.pending
    /\ k.nextSeq = i.command_buffer.next /\ k.included = i.command_buffer.included
    /\ k.events = i.event_bus.pending /\ k.nextEvent = i.event_bus.next
    /\ k.intents = i.ai_intents.pending /\ k.nextIntent = i.ai_intents.next
    /\ k.rng = i.random_streams

(* A runtime with another state.                                            *)
LEMMA RuntimeSet ==
    ASSUME NEW r \in Runtimes, NEW s \in State
    PROVE  /\ [r EXCEPT !.sim = s] \in Runtimes /\ [r EXCEPT !.sim = s].sim = s
           /\ [r EXCEPT !.sim = s].ok = r.ok
<1> HIDE DEF State
<1> QED
  BY DEF Runtimes

(* The clock's provider restores the tick.                                  *)
LEMMA RestoreClockBrings ==
    ASSUME NEW i, NEW k, Holds(i, k), NEW r \in Runtimes
    PROVE  RestoreClock(i, r) \in Runtimes /\ (r.ok => Brings(r, RestoreClock(i, r), k, {"tick"}))
<1> DEFINE s == [r.sim EXCEPT !.tick = i.clock]
<1>1. r.sim \in State /\ i.clock \in Nat /\ k.tick = i.clock
  BY DEF Runtimes, Holds, State
<1>2. s \in State /\ s.tick = i.clock /\ \A f \in Fields \ {"tick"} : s[f] = r.sim[f]
  BY <1>1 DEF State, Fields, Boot
<1>3. RestoreClock(i, r) = [r EXCEPT !.sim = s]
  BY DEF RestoreClock
<1> HIDE DEF s
<1> QED
  BY <1>1, <1>2, <1>3, RuntimeSet DEF Brings

(* The command buffer's provider restores the pending commands and their    *)
(* numbers.                                                                 *)
LEMMA RestoreCommandsBrings ==
    ASSUME NEW i, NEW k, Holds(i, k), NEW r \in Runtimes
    PROVE  RestoreCommands(i, r) \in Runtimes
           /\ (r.ok => Brings(r, RestoreCommands(i, r), k, {"cmds", "nextSeq", "included"}))
<1> DEFINE s == [r.sim EXCEPT !.cmds = k.cmds, !.nextSeq = k.nextSeq, !.included = k.included]
<1>1. r.sim \in State /\ k.cmds \in SUBSET Pending /\ k.nextSeq \in Nat \ {0} /\ k.included \in Nat
  BY DEF Runtimes, Holds, State
<1>2. s \in State /\ s.cmds = k.cmds /\ s.nextSeq = k.nextSeq /\ s.included = k.included
      /\ \A f \in Fields \ {"cmds", "nextSeq", "included"} : s[f] = r.sim[f]
  BY <1>1 DEF State, Fields, Boot
<1>3. RestoreCommands(i, r) = [r EXCEPT !.sim = s]
  BY DEF RestoreCommands, Holds
<1> HIDE DEF s
<1> QED
  BY <1>1, <1>2, <1>3, RuntimeSet DEF Brings

(* The event bus's provider restores the pending events and their numbers.  *)
LEMMA RestoreEventsBrings ==
    ASSUME NEW i, NEW k, Holds(i, k), NEW r \in Runtimes
    PROVE  RestoreEvents(i, r) \in Runtimes
           /\ (r.ok => Brings(r, RestoreEvents(i, r), k, {"events", "nextEvent"}))
<1> DEFINE s == [r.sim EXCEPT !.events = k.events, !.nextEvent = k.nextEvent]
<1>1. r.sim \in State /\ k.events \in Finite(Event) /\ k.nextEvent \in Nat \ {0}
  BY DEF Runtimes, Holds, State
<1>2. s \in State /\ s.events = k.events /\ s.nextEvent = k.nextEvent
      /\ \A f \in Fields \ {"events", "nextEvent"} : s[f] = r.sim[f]
  BY <1>1 DEF State, Fields, Boot
<1>3. RestoreEvents(i, r) = [r EXCEPT !.sim = s]
  BY DEF RestoreEvents, Holds
<1> HIDE DEF s
<1> QED
  BY <1>1, <1>2, <1>3, RuntimeSet DEF Brings

(* The intents' provider restores the pending intents and their numbers.    *)
LEMMA RestoreIntentsBrings ==
    ASSUME NEW i, NEW k, Holds(i, k), NEW r \in Runtimes
    PROVE  RestoreIntents(i, r) \in Runtimes
           /\ (r.ok => Brings(r, RestoreIntents(i, r), k, {"intents", "nextIntent"}))
<1> DEFINE s == [r.sim EXCEPT !.intents = k.intents, !.nextIntent = k.nextIntent]
<1>1. r.sim \in State /\ k.intents \in SUBSET Intent /\ k.nextIntent \in Nat \ {0}
  BY DEF Runtimes, Holds, State
<1>2. s \in State /\ s.intents = k.intents /\ s.nextIntent = k.nextIntent
      /\ \A f \in Fields \ {"intents", "nextIntent"} : s[f] = r.sim[f]
  BY <1>1 DEF State, Fields, Boot
<1>3. RestoreIntents(i, r) = [r EXCEPT !.sim = s]
  BY DEF RestoreIntents, Holds
<1> HIDE DEF s
<1> QED
  BY <1>1, <1>2, <1>3, RuntimeSet DEF Brings

(* The random streams' provider restores the draws.                         *)
LEMMA RestoreRandomBrings ==
    ASSUME NEW i, NEW k, Holds(i, k), NEW r \in Runtimes
    PROVE  RestoreRandom(i, r) \in Runtimes
           /\ (r.ok => Brings(r, RestoreRandom(i, r), k, {"rng"}))
<1> DEFINE s == [r.sim EXCEPT !.rng = k.rng]
<1>1. r.sim \in State /\ k.rng \in Nat
  BY DEF Runtimes, Holds, State
<1>2. s \in State /\ s.rng = k.rng
      /\ \A f \in Fields \ {"rng"} : s[f] = r.sim[f]
  BY <1>1 DEF State, Fields, Boot
<1>3. RestoreRandom(i, r) = [r EXCEPT !.sim = s]
  BY DEF RestoreRandom, Holds
<1> HIDE DEF s
<1> QED
  BY <1>1, <1>2, <1>3, RuntimeSet DEF Brings

(* The world's provider restores the objects and the world's revisions.     *)
LEMMA RestoreWorldBrings ==
    ASSUME NEW i, NEW k, Holds(i, k), NEW r \in Runtimes
    PROVE  RestoreWorld(i, r) \in Runtimes
           /\ (r.ok => Brings(r, RestoreWorld(i, r), k, {"obj", "revision", "erased"}))
<1> DEFINE s == [r.sim EXCEPT !.obj = k.obj, !.revision = k.revision, !.erased = k.erased]
<1>1. r.sim \in State /\ k.obj \in [Wid -> Object] /\ k.revision \in Nat /\ k.erased \in Nat
  BY DEF Runtimes, Holds, State
<1>2. s \in State /\ s.obj = k.obj /\ s.revision = k.revision /\ s.erased = k.erased
      /\ \A f \in Fields \ {"obj", "revision", "erased"} : s[f] = r.sim[f]
  BY <1>1 DEF State, Fields, Boot
<1>3. RestoreWorld(i, r) = [r EXCEPT !.sim = s]
  BY DEF RestoreWorld, Holds
<1> HIDE DEF s
<1> QED
  BY <1>1, <1>2, <1>3, RuntimeSet DEF Brings

(* The active set's provider changes no state and needs its objects to be   *)
(* there.                                                                   *)
LEMMA RestoreEntitiesBrings ==
    ASSUME NEW i, NEW r \in Runtimes
    PROVE  RestoreEntities(i, r) \in Runtimes /\ RestoreEntities(i, r).sim = r.sim
           /\ (RestoreEntities(i, r).ok <=> \A w \in i.ecs_active_set : r.sim.obj[w] # Absent)
<1> HIDE DEF State
<1> QED
  BY DEF Runtimes, RestoreEntities

(* Whichever provider is asked, what it leaves is a runtime.                *)
LEMMA RestoredType ==
    ASSUME NEW i, NEW k, Holds(i, k), NEW r \in Runtimes, NEW q
    PROVE  Restored(i, r, q) \in Runtimes
BY RestoreClockBrings, RestoreCommandsBrings, RestoreEventsBrings, RestoreIntentsBrings,
   RestoreRandomBrings, RestoreWorldBrings, RestoreEntitiesBrings DEF Restored

(* What is saved is restored whole: the runtime is the state the checkpoint *)
(* stands for, without one a runtime that has just been made.               *)
LEMMA RestorableIsRestored ==
    ASSUME NEW p, NEW i, Restorable(p, i)
    PROVE  RestoreInto(i) = [sim |-> IF i = Nothing THEN Boot ELSE KeptState(p, i), ok |-> TRUE]
<1> DEFINE k == KeptState(p, i)
<1>1. /\ k \in State /\ Sound(k) /\ Numbered(FrozenCommands(k))
      /\ \A w \in i.ecs_active_set : k.obj[w] # Absent
  BY DEF Restorable, Storable, Standing, Sound
<1>2. CASE i = Nothing
  BY <1>2 DEF RestoreInto, Fresh
<1>3. CASE i # Nothing
  <2>1. k = [tick |-> i.clock, obj |-> i.world.obj, revision |-> i.world.revision,
             erased |-> i.world.erased, cmds |-> i.command_buffer.pending,
             nextSeq |-> i.command_buffer.next, included |-> i.command_buffer.included,
             events |-> i.event_bus.pending, nextEvent |-> i.event_bus.next,
             intents |-> i.ai_intents.pending, nextIntent |-> i.ai_intents.next,
             rng |-> i.random_streams]
    BY <1>3 DEF KeptState
  <2> HIDE DEF k
  <2>2. Holds(i, k)
    BY <1>1, <2>1 DEF Holds
  <2>3. Validates(i)
    <3>1. i.clock \in Nat
      BY <1>1, <2>2 DEF Holds, State
    <3>2. Numbered(i.command_buffer) /\ Numbered(i.event_bus) /\ Numbered(i.ai_intents)
      BY <1>1, <2>2 DEF Holds, Sound, Numbered, FrozenCommands, FrozenEvents, FrozenIntents
    <3>3. \A w \in Wid : i.world.obj[w].rev <= i.world.revision
      BY <1>1, <2>2 DEF Holds, Sound
    <3> QED
      BY <3>1, <3>2, <3>3 DEF Validates
  <2> DEFINE x(n) == RestoredTo(i, n)
  <2>4. Fresh \in Runtimes /\ Fresh.ok /\ Fresh.sim = Boot
    BY BootState DEF Fresh, Runtimes
  <2>5. x(0) = Fresh /\ \A n \in Nat : x(n) \in Runtimes /\ x(n + 1) = Restored(i, x(n), RestoreOrder[n + 1])
    BY <2>2, <2>4, RestoredType, RestoredTurns
  <2> HIDE DEF x
  <2>6. /\ Len(RestoreOrder) = 7
        /\ RestoreOrder[1] = "ai_intents" /\ RestoreOrder[2] = "clock"
        /\ RestoreOrder[3] = "command_buffer" /\ RestoreOrder[4] = "world"
        /\ RestoreOrder[5] = "ecs_active_set" /\ RestoreOrder[6] = "event_bus"
        /\ RestoreOrder[7] = "random_streams"
    BY OrderOfRestore DEF FirstOf, Order
  <2>7. x(1).ok /\ \A f \in {"intents", "nextIntent"} : x(1).sim[f] = k[f]
    <3>1. x(1) = RestoreIntents(i, x(0)) /\ x(0) \in Runtimes /\ x(0).ok
      BY <2>4, <2>5, <2>6 DEF Restored
    <3>2. Brings(x(0), x(1), k, {"intents", "nextIntent"})
      BY <2>2, <3>1, RestoreIntentsBrings
    <3> QED
      BY <3>2 DEF Brings, Fields, Boot
  <2>8. x(2).ok /\ \A f \in {"intents", "nextIntent", "tick"} : x(2).sim[f] = k[f]
    <3>1. x(2) = RestoreClock(i, x(1)) /\ x(1) \in Runtimes /\ x(1).ok
      BY <2>5, <2>7, <2>6 DEF Restored
    <3>2. Brings(x(1), x(2), k, {"tick"})
      BY <2>2, <3>1, RestoreClockBrings
    <3> QED
      BY <2>7, <3>2 DEF Brings, Fields, Boot
  <2>9. /\ x(3).ok
        /\ \A f \in {"intents", "nextIntent", "tick", "cmds", "nextSeq", "included"} :
              x(3).sim[f] = k[f]
    <3>1. x(3) = RestoreCommands(i, x(2)) /\ x(2) \in Runtimes /\ x(2).ok
      BY <2>5, <2>8, <2>6 DEF Restored
    <3>2. Brings(x(2), x(3), k, {"cmds", "nextSeq", "included"})
      BY <2>2, <3>1, RestoreCommandsBrings
    <3> QED
      BY <2>8, <3>2 DEF Brings, Fields, Boot
  <2>10. x(4).ok
         /\ \A f \in {"intents", "nextIntent", "tick", "cmds", "nextSeq", "included",
                     "obj", "revision", "erased"} :
               x(4).sim[f] = k[f]
    <3>1. x(4) = RestoreWorld(i, x(3)) /\ x(3) \in Runtimes /\ x(3).ok
      BY <2>5, <2>9, <2>6 DEF Restored
    <3>2. Brings(x(3), x(4), k, {"obj", "revision", "erased"})
      BY <2>2, <3>1, RestoreWorldBrings
    <3> QED
      BY <2>9, <3>2 DEF Brings, Fields, Boot
  <2>11. x(5).ok /\ x(5).sim = x(4).sim /\ x(5) \in Runtimes
    <3>1. x(5) = RestoreEntities(i, x(4)) /\ x(4).sim.obj = k.obj
      BY <2>5, <2>6, <2>10 DEF Restored
    <3> QED
      BY <1>1, <2>5, <3>1, RestoreEntitiesBrings
  <2>12. x(6).ok
         /\ \A f \in {"intents", "nextIntent", "tick", "cmds", "nextSeq", "included",
                     "obj", "revision", "erased", "events", "nextEvent"} :
               x(6).sim[f] = k[f]
    <3>1. x(6) = RestoreEvents(i, x(5)) /\ x(5) \in Runtimes /\ x(5).ok
      BY <2>5, <2>11, <2>6 DEF Restored
    <3>2. Brings(x(5), x(6), k, {"events", "nextEvent"})
      BY <2>2, <3>1, RestoreEventsBrings
    <3> QED
      BY <2>11, <2>10, <3>2 DEF Brings, Fields, Boot
  <2>13. x(7).ok
         /\ \A f \in {"intents", "nextIntent", "tick", "cmds", "nextSeq", "included",
                     "obj", "revision", "erased", "events", "nextEvent", "rng"} :
               x(7).sim[f] = k[f]
    <3>1. x(7) = RestoreRandom(i, x(6)) /\ x(6) \in Runtimes /\ x(6).ok
      BY <2>5, <2>12, <2>6 DEF Restored
    <3>2. Brings(x(6), x(7), k, {"rng"})
      BY <2>2, <3>1, RestoreRandomBrings
    <3> QED
      BY <2>12, <3>2 DEF Brings, Fields, Boot
  <2>14. x(7) = [sim |-> k, ok |-> TRUE]
    <3>1. x(7) \in Runtimes /\ x(7).sim \in State
      BY <2>5 DEF Runtimes
    <3>2. x(7).sim = k
      BY <1>1, <2>13, <3>1 DEF State
    <3> HIDE DEF State
    <3> QED
      BY <2>13, <3>1, <3>2 DEF Runtimes
  <2> QED
    BY <1>3, <2>3, <2>6, <2>14 DEF RestoreInto, x, k
<1> QED
  BY <1>2, <1>3

(* Some of finitely many numbers is the greatest.                           *)
LEMMA GreatestNumber ==
    ASSUME NEW f, NEW m \in Nat, NEW last \in Nat, m < last, \A l \in m + 1 .. last : f[l] \in Nat
    PROVE  \E t \in {f[l] : l \in m + 1 .. last} : \A u \in {f[l] : l \in m + 1 .. last} : u <= t
<1> DEFINE T(n) == {f[l] : l \in m + 1 .. n}
           P(n) == \E t \in T(n) : \A u \in T(n) : u <= t
           S == {n \in Nat : m < n /\ n <= last => P(n)}
<1>1. 0 \in S
  OBVIOUS
<1>2. ASSUME NEW n \in S PROVE n + 1 \in S
  <2> SUFFICES ASSUME m < n + 1, n + 1 <= last PROVE P(n + 1)
    OBVIOUS
  <2>1. n \in Nat /\ n + 1 \in m + 1 .. last /\ f[n + 1] \in Nat
    OBVIOUS
  <2>2. CASE m = n
    <3>1. \A l \in m + 1 .. n + 1 : l = n + 1
      BY <2>1, <2>2
    <3> QED
      BY <2>1, <2>2, <3>1
  <2>3. CASE m # n
    <3>1. m < n /\ n <= last
      BY <2>1, <2>3
    <3>2. PICK t \in T(n) : \A u \in T(n) : u <= t
      BY <1>2, <3>1
    <3>3. T(n + 1) = T(n) \cup {f[n + 1]} /\ T(n) \subseteq Nat
      <4>1. \A l : l \in m + 1 .. n + 1 <=> l \in m + 1 .. n \/ l = n + 1
        BY <2>1, <3>1
      <4>2. \A l \in m + 1 .. n : l \in m + 1 .. last
        BY <2>1, <3>1
      <4> QED
        BY <4>1, <4>2
    <3>4. CASE f[n + 1] <= t
      <4>1. t \in T(n + 1) /\ \A u \in T(n + 1) : u <= t
        BY <3>2, <3>3, <3>4
      <4> QED
        BY <4>1
    <3>5. CASE ~(f[n + 1] <= t)
      <4> DEFINE v == f[n + 1]
      <4>1. v \in T(n + 1) /\ t < v /\ t \in Nat
        BY <2>1, <3>2, <3>3, <3>5
      <4>2. \A u \in T(n) : u \in Nat /\ u <= t
        BY <3>2, <3>3
      <4> HIDE DEF T
      <4>3. \A u \in T(n + 1) : u <= v
        BY <2>1, <3>3, <4>1, <4>2
      <4> QED
        BY <4>1, <4>3
    <3> QED
      BY <3>4, <3>5
  <2> QED
    BY <2>2, <2>3
<1>3. S \in SUBSET Nat
  OBVIOUS
<1> HIDE DEF S
<1>4. S = Nat
  BY <1>1, <1>2, <1>3, EveryNumber
<1>5. last \in S
  BY <1>4
<1> QED
  BY <1>5 DEF S

(* No record after the checkpoint promises a later tick.                    *)
LEMMA PromisedLast ==
    ASSUME LogOK(wal), NEW s, s.included \in Nat
    PROVE  /\ PromisedTick(s) \in Nat \cup {-1}
           /\ \A l \in s.included + 1 .. Len(wal) :
                 IF IsCommand(wal, l) THEN wal[l].due <= PromisedTick(s)
                                      ELSE wal[l].tick <= PromisedTick(s)
<1> DEFINE f == [l \in s.included + 1 .. Len(wal) |-> IF l \in Cmds THEN wal[l].due ELSE wal[l].tick]
           ticks == {IF l \in Cmds THEN wal[l].due ELSE wal[l].tick : l \in s.included + 1 .. Len(wal)}
           IsLast(t) == t \in ticks /\ \A u \in ticks : u <= t
<1>1. Len(wal) \in Nat /\ DOMAIN wal = 1 .. Len(wal)
  BY LogType
<1>2. \A l \in s.included + 1 .. Len(wal) :
         /\ l \in 1 .. Len(wal) /\ (l \in Cmds <=> IsCommand(wal, l))
  BY <1>1 DEF Cmds, IsCommand
<1>3. \A l \in s.included + 1 .. Len(wal) :
         f[l] \in Nat /\ f[l] = IF IsCommand(wal, l) THEN wal[l].due ELSE wal[l].tick
  BY <1>1, <1>2, LogType
<1>4. PromisedTick(s) = IF ticks = {} THEN -1 ELSE CHOOSE t \in ticks : \A u \in ticks : u <= t
  BY DEF PromisedTick
<1>7. ticks = {f[l] : l \in s.included + 1 .. Len(wal)}
  OBVIOUS
<1> HIDE DEF f, ticks
<1>5. CASE s.included >= Len(wal)
  <2>1. ticks = {} /\ \A l \in s.included + 1 .. Len(wal) : FALSE
    BY <1>1, <1>5, <1>7
  <2> QED
    BY <1>4, <2>1
<1>6. CASE s.included < Len(wal)
  <2>1. \E t : IsLast(t)
    BY <1>1, <1>3, <1>6, <1>7, GreatestNumber
  <2>2. ticks # {} /\ IsLast(PromisedTick(s))
    <3>1. PICK t : IsLast(t)
      BY <2>1
    <3> QED
      BY <1>4, <3>1
  <2> QED
    BY <1>3, <1>7, <2>2
<1> QED
  BY <1>1, <1>5, <1>6

(* A checkpoint captured in y stands for the state at the next tick.        *)
LEMMA CaptureKeeps ==
    ASSUME NEW p, NEW y \in State
    PROVE  /\ KeptState(p, Capture(y)) = Later(y) /\ Capture(y).ecs_active_set = Active
           /\ Capture(y) # Nothing
<1>1. /\ Capture(y).tick = y.tick + 1 /\ Capture(y).clock = y.tick + 1 /\ y.tick \in Nat
      /\ Capture(y).world = FrozenWorld(y) /\ Capture(y).command_buffer = FrozenCommands(y)
      /\ Capture(y).event_bus = FrozenEvents(y) /\ Capture(y).ai_intents = FrozenIntents(y)
      /\ Capture(y).random_streams = y.rng /\ Capture(y).ecs_active_set = Active
  BY DEF Capture, FrozenClock, State
<1>2. Capture(y) # Nothing
  <2>1. Nothing.tick = 0 /\ Capture(y).tick # 0
    BY <1>1 DEF Nothing
  <2> QED
    BY <2>1
<1>3. Later(y) = [tick |-> y.tick + 1, obj |-> y.obj, revision |-> y.revision, erased |-> y.erased,
                  cmds |-> y.cmds, nextSeq |-> y.nextSeq, included |-> y.included,
                  events |-> y.events, nextEvent |-> y.nextEvent,
                  intents |-> y.intents, nextIntent |-> y.nextIntent, rng |-> y.rng]
  BY DEF Later, State
<1> QED
  BY <1>1, <1>2, <1>3 DEF KeptState, FrozenWorld, FrozenCommands, FrozenEvents, FrozenIntents

(* A runtime that has just begun can be saved and has nobody active.        *)
LEMMA NothingRestorable ==
    ASSUME NEW p
    PROVE  Restorable(p, Nothing)
<1>1. KeptState(p, Nothing) = Begun(p) /\ Nothing.ecs_active_set = {}
  BY DEF KeptState, Nothing
<1>2. Storable(Begun(p))
  BY BegunState DEF Storable
<1> QED
  BY <1>1, <1>2 DEF Restorable, Standing

(* WorldRuntime::activate() takes objects that no command destroys.         *)
LEMMA ActivateStores ==
    ASSUME Replayable, StorageInv, EntityInv, NEW w \in Wid, Activate(w)
    PROVE  StorageInv'
<1>1. /\ up /\ w \in Activatable /\ sim.obj[w] # Absent
      /\ program' = program /\ up' = up /\ failed' = failed /\ sim' = sim /\ wal' = wal
      /\ open' = open /\ frozen' = frozen /\ image' = image
  BY DEF Activate
<1>2. w \in Lasting
  BY <1>1 DEF Replayable
<1>3. Standing(sim, Active')
  BY <1>1, <1>2, ActivateAdds DEF StorageInv, Standing
<1> QED
  BY <1>1, <1>3 DEF StorageInv

(* A deactivation leaves state, log and checkpoints alone.                  *)
LEMMA DeactivateStores ==
    ASSUME StorageInv, EntityInv, NEW h \in handles, Deactivate(h)
    PROVE  StorageInv'
<1>1. /\ up /\ program' = program /\ up' = up /\ failed' = failed /\ sim' = sim /\ wal' = wal
      /\ open' = open /\ frozen' = frozen /\ image' = image
  BY DEF Deactivate
<1>2. Active' \subseteq Active
  BY DeactivateRemoves
<1> QED
  BY <1>1, <1>2 DEF StorageInv, Standing

(* A publication, whether it succeeds or fails.                             *)
LEMMA PublishStores ==
    ASSUME StorageInv, NEW ok, Publish(ok)
    PROVE  StorageInv'
<1>1. /\ up /\ program' = program /\ up' = up /\ failed' = failed /\ sim' = sim /\ wal' = wal
      /\ open' = open /\ ecs' = ecs /\ frozen' = Nothing /\ (image' = image \/ image' = frozen)
  BY DEF Publish
<1>2. Restorable(program, image') /\ Restorable(program, frozen')
  BY <1>1, NothingRestorable DEF StorageInv
<1>3. Active' = Active
  BY <1>1 DEF Active
<1> QED
  BY <1>1, <1>2, <1>3 DEF StorageInv

(* A crash leaves a prefix of the log and the latest checkpoint.            *)
LEMMA CrashStores ==
    ASSUME StorageInv, RuntimeCrash
    PROVE  StorageInv'
<1>1. /\ up' = FALSE /\ program' = program /\ failed' = failed /\ open' = {}
      /\ frozen' = Nothing /\ image' = image
  BY DEF RuntimeCrash
<1>2. PICK n \in 0 .. Len(wal) : wal' = SubSeq(wal, 1, n)
  BY DEF RuntimeCrash
<1>3. LogOK(wal')
  BY <1>2, PrefixOK DEF StorageInv
<1>4. Restorable(program, Nothing)
  BY NothingRestorable
<1> QED
  BY <1>1, <1>3, <1>4 DEF StorageInv

(* A command is appended to the log: its record can be read again.          *)
LEMMA SubmitStores ==
    ASSUME Replayable, StorageInv, NEW op \in Commands, NEW due \in 0 .. MaxTick, Submit(op, due)
    PROVE  /\ StorageInv' /\ Len(wal') = Len(wal) + 1 /\ Len(wal) \in Nat
           /\ IsCommand(wal', Len(wal')) /\ wal'[Len(wal')].due = due
           /\ due \in Nat /\ due > sim.tick
           /\ \A l \in 1 .. Len(wal) : wal'[l] = wal[l]
<1> DEFINE r == [kind |-> "command", due |-> due, rec |-> Encoded(op)]
           B == Append(wal, r)
<1>1. /\ up /\ program' = program /\ up' = up /\ failed' = failed /\ ecs' = ecs /\ sim' = sim
      /\ frozen' = frozen /\ image' = image /\ wal' = B /\ open' = open \cup {Len(B)}
      /\ due \in sim.tick + 1 .. sim.tick + MaxLead
  BY DEF Submit
<1>2. LogOK(wal) /\ open \subseteq Rest(wal, Boot) /\ Storable(sim)
  BY <1>1 DEF StorageInv
<1>3. sim.tick \in Nat
  BY <1>2 DEF Storable, Sound, State
<1>4. due \in Nat /\ due > sim.tick /\ due # 0
  BY <1>1, <1>3
<1>5. r.kind = "command" /\ r.due = due /\ r.rec = Encoded(op)
  OBVIOUS
<1> HIDE DEF r
<1>6. r.due \in Nat \ {0} /\ r.rec.op \in Ops /\ Decodes(r.rec)
  BY <1>4, <1>5, EncodedDecodes
<1>7. /\ LogOK(B) /\ Len(B) = Len(wal) + 1 /\ Len(wal) \in Nat /\ B[Len(wal) + 1] = r
      /\ \A l \in 1 .. Len(wal) : B[l] = wal[l]
  BY <1>2, <1>5, <1>6, OneMore
<1> HIDE DEF B
<1>8. open \cup {Len(B)} \subseteq Rest(B, Boot)
  <2>1. Boot.included = 0
    BY DEF Boot
  <2>2. \A l \in open : l \in 1 .. Len(wal) /\ IsCommand(wal, l)
    BY <1>2, <2>1 DEF Rest
  <2>3. \A l \in open : l \in 1 .. Len(B) /\ IsCommand(B, l)
    BY <1>7, <2>2 DEF IsCommand
  <2>4. Len(B) \in 1 .. Len(B) /\ IsCommand(B, Len(B))
    BY <1>5, <1>7 DEF IsCommand
  <2> QED
    BY <2>1, <2>3, <2>4 DEF Rest
<1>9. Active' = Active
  BY <1>1 DEF Active
<1>10. StorageInv'
  BY <1>1, <1>7, <1>8, <1>9 DEF StorageInv
<1> QED
  BY <1>1, <1>4, <1>5, <1>7, <1>10 DEF IsCommand

(* A command whose ticket is polled goes into the command buffer.           *)
LEMMA EnqueueStores ==
    ASSUME StorageInv, NEW l \in open, Enqueue(l)
    PROVE  StorageInv'
<1>1. /\ up /\ program' = program /\ up' = up /\ failed' = failed /\ ecs' = ecs /\ wal' = wal
      /\ frozen' = frozen /\ image' = image /\ open' = open \ {l}
      /\ sim' = Enqueued(sim, wal[l].due, l, wal[l].rec.op)
  BY DEF Enqueue
<1>2. LogOK(wal) /\ Storable(sim) /\ Standing(sim, Active)
  BY <1>1 DEF StorageInv
<1>3. l \in 1 .. Len(wal) /\ IsCommand(wal, l)
  BY DEF StorageInv, Rest, Boot
<1>4. l \in Nat /\ wal[l].due \in Nat /\ wal[l].rec.op \in Ops
  BY <1>2, <1>3, LogType
<1>5. Storable(sim') /\ sim'.obj = sim.obj
  BY <1>1, <1>2, <1>4, EnqueuedStores
<1>6. Active' = Active
  BY <1>1 DEF Active
<1> QED
  BY <1>1, <1>2, <1>5, <1>6 DEF StorageInv, Standing

(* A tick: whatever is pending, what it leaves can be saved, and so can the *)
(* checkpoint captured in it.                                               *)
LEMMA StepKeepsStored ==
    ASSUME Replayable, StorageInv, NEW save \in BOOLEAN, Step(save)
    PROVE  StorageInv'
<1> DEFINE y == Stable(sim)
           r == [kind |-> "hash", tick |-> sim.tick, hash |-> StateHash(y)]
           B == Append(wal, r)
<1>1. /\ up /\ program' = program /\ up' = up /\ failed' = failed /\ ecs' = ecs
      /\ image' = image /\ open' = open /\ wal' = B /\ sim' = Finished(y)
      /\ frozen' = IF save THEN Capture(y) ELSE frozen
  BY DEF Step
<1>2. /\ LogOK(wal) /\ open \subseteq Rest(wal, Boot) /\ Storable(sim) /\ Standing(sim, Active)
      /\ "late" \notin program
  BY <1>1 DEF StorageInv, Replayable
<1>3. /\ Storable(y) /\ y \in State /\ Storable(Later(y)) /\ Later(y).obj = y.obj
      /\ \A w \in Lasting : sim.obj[w] # Absent => y.obj[w] # Absent
  <2>1. y = Phases(program, Applied(sim))
    BY DEF Stable
  <2> HIDE DEF y
  <2> QED
    BY <1>2, <2>1, StepStores
<1>4. Finished(y) = Later(y)
  BY <1>2 DEF Finished, Later
<1> HIDE DEF y
<1>5. sim.tick \in Nat
  BY <1>2 DEF Storable, Sound, State
<1>6. LogOK(B) /\ open \subseteq Rest(B, Boot)
  <2>1. r.kind = "hash" /\ r.tick \in Nat
    BY <1>5
  <2> HIDE DEF r
  <2>2. /\ LogOK(B) /\ Len(B) = Len(wal) + 1 /\ Len(wal) \in Nat
        /\ \A l \in 1 .. Len(wal) : B[l] = wal[l]
    BY <1>2, <2>1, OneMore
  <2> HIDE DEF B
  <2>3. Boot.included = 0
    BY DEF Boot
  <2>4. \A l \in open : l \in 1 .. Len(wal) /\ IsCommand(wal, l)
    BY <1>2, <2>3 DEF Rest
  <2>5. \A l \in open : l \in 1 .. Len(B) /\ IsCommand(B, l)
    BY <2>2, <2>4 DEF IsCommand
  <2> QED
    BY <2>2, <2>3, <2>5 DEF Rest
<1> HIDE DEF B
<1>7. Standing(Later(y), Active)
  BY <1>2, <1>3 DEF Standing
<1>8. Restorable(program, Capture(y))
  <2>1. KeptState(program, Capture(y)) = Later(y) /\ Capture(y).ecs_active_set = Active
    BY <1>3, CaptureKeeps
  <2> QED
    BY <1>3, <1>7, <2>1 DEF Restorable
<1>9. Active' = Active
  BY <1>1 DEF Active
<1>10. Restorable(program, frozen')
  BY <1>1, <1>8 DEF StorageInv
<1> QED
  BY <1>1, <1>3, <1>4, <1>6, <1>7, <1>9, <1>10 DEF StorageInv

(* The runtime a start restores, and the replay from it.                    *)
RestartBase == IF image = Nothing THEN Boot ELSE KeptState(program, image)
RestartRun  == Run(EnqueuedAll(RestartBase), PromisedTick(RestartBase))

(* What a start begins with, and what it ends in: neither the checkpoint    *)
(* nor a record is refused.                                                 *)
LEMMA RestartCases ==
    ASSUME StorageInv, Restart
    PROVE  /\ ~up /\ failed = "no" /\ open = {} /\ frozen = Nothing
           /\ program' = program /\ wal' = wal /\ open' = open
           /\ frozen' = frozen /\ image' = image /\ orderly' = (orderly /\ ~Unseeded)
           /\ Storable(RestartBase) /\ Standing(RestartBase, image.ecs_active_set)
           /\ IF ~RestartRun.ok \/ Unexecuted(RestartBase)
              THEN up' = up /\ failed' \in {"fork", "outcome"}
              ELSE /\ up' = TRUE /\ failed' = failed
                   /\ sim' = IF image = Nothing /\ wal = <<>> THEN Begun(program) ELSE RestartRun.sim
                   /\ ecs' = MadeAgain(image.ecs_active_set)
<1> DEFINE k   == RestartBase
           run == RestartRun
<1>1. /\ ~up /\ failed = "no" /\ program' = program /\ wal' = wal /\ open' = open
      /\ frozen' = frozen /\ image' = image /\ orderly' = (orderly /\ ~Unseeded)
  BY DEF Restart
<1>2. open = {} /\ frozen = Nothing /\ LogOK(wal) /\ Restorable(program, image)
  BY <1>1 DEF StorageInv
<1>3. RestoreInto(image) = [sim |-> k, ok |-> TRUE]
  BY <1>2, RestorableIsRestored DEF RestartBase
<1>4. Storable(k) /\ Standing(k, image.ecs_active_set)
  <2>1. CASE image = Nothing
    <3>1. k = Boot /\ image.ecs_active_set = {}
      BY <2>1 DEF Nothing, RestartBase
    <3>2. Sound(Boot) /\ Boot.cmds = {} /\ Boot.nextSeq = 1
      BY BootState DEF Boot
    <3> QED
      BY <3>1, <3>2 DEF Storable, Standing, Numbered, FrozenCommands
  <2>2. CASE image # Nothing
    BY <1>2, <2>2 DEF Restorable, RestartBase
  <2> QED
    BY <2>1, <2>2
<1>5. \A l \in Cmds : Decodes(wal[l].rec)
  BY <1>2, LogType DEF Cmds, IsCommand
<1>6. RestoreInto(image).ok /\ RestoreInto(image).sim = k
  BY <1>3
<1>7. IF ~run.ok \/ Unexecuted(k)
      THEN up' = up /\ failed' \in {"fork", "outcome"}
      ELSE /\ up' = TRUE /\ failed' = failed
           /\ sim' = IF image = Nothing /\ wal = <<>> THEN Begun(program) ELSE run.sim
           /\ ecs' = MadeAgain(image.ecs_active_set)
  BY <1>5, <1>6 DEF Restart, RestartRun
<1> QED
  BY <1>1, <1>2, <1>4, <1>7

(* A start leaves the saved as it is, and can save what it has made.        *)
LEMMA RestartStores ==
    ASSUME Replayable, StorageInv, EntityInv, Restart
    PROVE  StorageInv'
<1> DEFINE k   == RestartBase
           e   == EnqueuedAll(k)
           run == RestartRun
<1>1. /\ ~up /\ failed = "no" /\ open = {} /\ frozen = Nothing
      /\ program' = program /\ wal' = wal /\ open' = open
      /\ frozen' = frozen /\ image' = image
      /\ Storable(k) /\ Standing(k, image.ecs_active_set)
      /\ IF ~run.ok \/ Unexecuted(k)
         THEN up' = up /\ failed' \in {"fork", "outcome"}
         ELSE /\ up' = TRUE /\ failed' = failed
              /\ sim' = IF image = Nothing /\ wal = <<>> THEN Begun(program) ELSE run.sim
              /\ ecs' = MadeAgain(image.ecs_active_set)
  BY RestartCases
<1> HIDE DEF k
<1>2. /\ LogOK(wal) /\ program \in Programs /\ "late" \notin program
      /\ Restorable(program, image) /\ open \subseteq Rest(wal, Boot)
  BY DEF StorageInv, Replayable
<1>3. PromisedTick(k) + 1 \in Nat
  <2>1. k.included \in Nat
    BY <1>1 DEF Storable, Sound, State
  <2>2. PromisedTick(k) \in Nat \cup {-1}
    BY <1>2, <2>1, PromisedLast
  <2> QED
    BY <2>2
<1>4. Storable(e) /\ e.obj = k.obj
  BY <1>1, <1>2, EnqueuedAllStores
<1> DEFINE n == PromisedTick(k) + 1
<1>5. run = RunTo(e, n)
  BY DEF RestartRun, Run, k
<1> HIDE DEF run, e, n
<1>6. Storable(run.sim) /\ \A w \in Lasting : k.obj[w] # Absent => run.sim.obj[w] # Absent
  BY <1>2, <1>3, <1>4, <1>5, RunStores DEF n
<1>7. CASE ~run.ok \/ Unexecuted(k)
  BY <1>1, <1>2, <1>7 DEF StorageInv
<1>8. CASE ~(~run.ok \/ Unexecuted(k))
  <2>1. up' = TRUE /\ ecs' = MadeAgain(image.ecs_active_set)
    BY <1>1, <1>8
  <2>2. Active' \subseteq image.ecs_active_set
    <3>1. IsFiniteSet(image.ecs_active_set)
      BY DEF EntityInv, ImageInv
    <3> QED
      BY <2>1, <3>1, MadeAgainActive DEF Active
  <2>3. Storable(sim') /\ Standing(sim', Active')
    <3>1. CASE image = Nothing /\ wal = <<>>
      <4>1. sim' = Begun(program) /\ image.ecs_active_set = {}
        BY <1>1, <1>8, <3>1 DEF Nothing
      <4>2. Storable(Begun(program))
        BY BegunState DEF Storable
      <4> QED
        BY <2>2, <4>1, <4>2 DEF Standing
    <3>2. CASE ~(image = Nothing /\ wal = <<>>)
      <4>1. sim' = run.sim
        BY <1>1, <1>8, <3>2
      <4> QED
        BY <1>1, <1>6, <2>2, <4>1 DEF Standing
    <3> QED
      BY <3>1, <3>2
  <2> QED
    BY <1>1, <1>2, <1>8, <2>1, <2>3 DEF StorageInv
<1> QED
  BY <1>7, <1>8

(* What a running process knows while nothing has been enqueued out of      *)
(* order.                                                                   *)
LEMMA RunningType ==
    ASSUME StorageInv, FollowInv, up
    PROVE  /\ LogOK(wal) /\ HashesOK(program, wal) /\ failed = "no"
           /\ Kept(program, wal, image) /\ Kept(program, wal, frozen)
           /\ Matches(program, wal, sim) /\ sim.tick \in Nat /\ sim.included \in 0 .. Len(wal)
           /\ open = Rest(wal, sim) /\ RestInTime(wal, sim)
           /\ LastIncluded(wal, sim.included) /\ HashesBefore(wal, Len(wal), sim.tick)
           /\ NoLater(KeptState(program, image), sim) /\ NoLater(KeptState(program, frozen), sim)
<1>1. LogOK(wal)
  BY DEF StorageInv
<1>2. /\ HashesOK(program, wal) /\ failed = "no"
      /\ Kept(program, wal, image) /\ Kept(program, wal, frozen)
      /\ Matches(program, wal, sim)
      /\ open = Rest(wal, sim) /\ RestInTime(wal, sim)
      /\ LastIncluded(wal, sim.included) /\ HashesBefore(wal, Len(wal), sim.tick)
      /\ NoLater(KeptState(program, image), sim) /\ NoLater(KeptState(program, frozen), sim)
  BY DEF FollowInv, RunningInv
<1>3. sim.tick \in Nat /\ sim.included \in 0 .. Len(wal)
  BY <1>2, MatchesType DEF PendingOf
<1> QED
  BY <1>1, <1>2, <1>3

(* The actions that leave state, log and checkpoints alone.                 *)
LEMMA SameFollows ==
    ASSUME FollowInv, UNCHANGED <<program, up, failed, sim, wal, open, frozen, image>>
    PROVE  FollowInv'
BY DEF FollowInv, RunningInv

(* A publication, whether it succeeds or fails, keeps one image and one     *)
(* frozen state that stand for the log.                                     *)
LEMMA PublishFollows ==
    ASSUME StorageInv, FollowInv, NEW ok, Publish(ok)
    PROVE  FollowInv'
<1>1. /\ up /\ program' = program /\ up' = up /\ failed' = failed /\ sim' = sim /\ wal' = wal
      /\ open' = open /\ frozen' = Nothing /\ (image' = image \/ image' = frozen)
  BY DEF Publish
<1>2. LogOK(wal) /\ sim.tick \in Nat /\ sim.included \in Nat
  BY <1>1, RunningType
<1>3. Kept(program, wal, Nothing)
  BY <1>2, NothingKept
<1>4. NoLater(KeptState(program, Nothing), sim)
  <2>1. KeptState(program, Nothing) = Begun(program)
    BY DEF KeptState
  <2> QED
    BY <1>2, <2>1, BegunState DEF NoLater
<1> QED
  BY <1>1, <1>3, <1>4 DEF FollowInv, RunningInv

(* A crash takes records from the end of the log: hashes, and commands that *)
(* the runtime has not been given.                                          *)
LEMMA CrashFollows ==
    ASSUME StorageInv, FollowInv, RuntimeCrash
    PROVE  FollowInv'
<1>1. /\ up /\ program' = program /\ up' = FALSE /\ failed' = failed
      /\ frozen' = Nothing /\ image' = image
  BY DEF RuntimeCrash
<1>2. PICK n \in 0 .. Len(wal) : /\ \A i \in n + 1 .. Len(wal) : wal[i].kind = "hash" \/ i \in open
                                 /\ wal' = SubSeq(wal, 1, n)
  BY DEF RuntimeCrash
<1>3. /\ LogOK(wal) /\ HashesOK(program, wal) /\ failed = "no" /\ Kept(program, wal, image)
      /\ sim.tick \in Nat /\ sim.included \in 0 .. Len(wal)
      /\ open = Rest(wal, sim) /\ RestInTime(wal, sim)
      /\ LastIncluded(wal, sim.included) /\ HashesBefore(wal, Len(wal), sim.tick)
      /\ NoLater(KeptState(program, image), sim)
  BY <1>1, RunningType
<1> DEFINE A == wal'
           s == KeptState(program, image)
<1>4. /\ LogOK(A) /\ Len(A) = n /\ n \in Nat /\ n <= Len(wal)
      /\ \A l \in 1 .. n : A[l] = wal[l]
  BY <1>2, <1>3, PrefixOK
<1>5. Len(wal) \in Nat
  BY <1>3, LogType
<1>6. s.tick \in Nat /\ s.included \in Nat /\ s.tick <= sim.tick /\ s.included <= sim.included
  <2> HIDE DEF s
  <2> QED
    BY <1>3, KeptType DEF NoLater, s
<1> HIDE DEF A, s
<1>7. ASSUME NEW l \in n + 1 .. Len(wal), IsCommand(wal, l)
      PROVE  l \in Rest(wal, sim) /\ wal[l].due >= sim.tick
  <2>1. l \in Rest(wal, sim)
    BY <1>2, <1>3, <1>7 DEF IsCommand
  <2>2. InTime(sim, wal[l].due)
    BY <1>3, <2>1 DEF RestInTime
  <2>3. wal[l].due \in Nat
    BY <1>3, <1>4, <1>5, <1>7, LogType
  <2> QED
    BY <1>3, <2>1, <2>2, <2>3 DEF InTime
<1>8. Extends(A, wal, sim.tick)
  BY <1>3, <1>4, <1>7 DEF Extends
<1>9. sim.included <= n
  <2> SUFFICES ASSUME ~(sim.included <= n) PROVE FALSE
    OBVIOUS
  <2>1. sim.included \in n + 1 .. Len(wal) /\ sim.included # 0
    BY <1>3, <1>4, <1>5
  <2>2. IsCommand(wal, sim.included)
    BY <1>3, <2>1 DEF LastIncluded
  <2>3. sim.included \in Rest(wal, sim)
    BY <1>7, <2>1, <2>2
  <2> QED
    BY <1>3, <2>3 DEF Rest
<1>10. s.included <= Len(A)
  BY <1>3, <1>4, <1>6, <1>9
<1>11. Kept(program, A, image)
  BY <1>3, <1>6, <1>8, <1>10, KeptInShorter DEF s
<1>12. HashesOK(program, A)
  BY <1>3, <1>8, HashesInShorter
<1>13. Kept(program, A, Nothing)
  BY <1>4, NothingKept
<1> QED
  BY <1>1, <1>3, <1>11, <1>12, <1>13 DEF FollowInv, A

(* A command appended to the log for a later tick: no tick that has been    *)
(* executed changes, and the runtime can still be given the command.        *)
LEMMA SubmitFollows ==
    ASSUME Replayable, StorageInv, FollowInv,
           NEW op \in Commands, NEW due \in 0 .. MaxTick, Submit(op, due)
    PROVE  FollowInv'
<1> DEFINE B == wal'
           l == Len(wal) + 1
<1>1. /\ up /\ program' = program /\ up' = up /\ failed' = failed /\ sim' = sim
      /\ frozen' = frozen /\ image' = image /\ open' = open \cup {Len(B)}
  BY DEF Submit
<1>2. /\ LogOK(wal) /\ HashesOK(program, wal) /\ failed = "no"
      /\ Kept(program, wal, image) /\ Kept(program, wal, frozen)
      /\ Matches(program, wal, sim) /\ sim.tick \in Nat /\ sim.included \in 0 .. Len(wal)
      /\ open = Rest(wal, sim) /\ RestInTime(wal, sim)
      /\ LastIncluded(wal, sim.included) /\ HashesBefore(wal, Len(wal), sim.tick)
      /\ NoLater(KeptState(program, image), sim) /\ NoLater(KeptState(program, frozen), sim)
  BY <1>1, RunningType
<1>3. /\ Len(B) = l /\ Len(wal) \in Nat /\ IsCommand(B, l) /\ B[l].due = due
      /\ due \in Nat /\ due > sim.tick /\ \A k \in 1 .. Len(wal) : B[k] = wal[k]
  BY SubmitStores
<1>4. LogOK(B)
  BY SubmitStores DEF StorageInv
<1> HIDE DEF B
<1>5. Extends(wal, B, due)
  <2>1. \A k \in Len(wal) + 1 .. Len(B) : k = l
    BY <1>3
  <2> QED
    BY <1>2, <1>3, <1>4, <2>1 DEF Extends
<1>6. Matches(program, B, sim)
  BY <1>2, <1>3, <1>5, MatchesStays
<1>7. RestInTime(B, sim)
  <2> SUFFICES ASSUME NEW k \in Rest(B, sim) PROVE InTime(sim, B[k].due)
    BY DEF RestInTime
  <2>1. CASE k \in Rest(wal, sim) /\ wal[k] = B[k]
    BY <1>2, <2>1 DEF RestInTime
  <2>2. CASE B[k].due \in Nat /\ B[k].due >= due
    BY <1>2, <1>3, <2>2 DEF InTime
  <2> QED
    BY <1>2, <1>3, <1>5, <2>1, <2>2, RestGrows
<1>8. open' = Rest(B, sim)
  <2>1. \A k \in Rest(wal, sim) : k \in Rest(B, sim)
    BY <1>2, <1>3, <1>5, RestGrows
  <2>2. l \in Rest(B, sim)
    BY <1>2, <1>3 DEF Rest
  <2>3. \A k \in Rest(B, sim) : k \in Rest(wal, sim) \/ k = l
    <3>1. \A k \in Rest(B, sim) : k \in Rest(wal, sim) \/ k \in Len(wal) + 1 .. Len(B)
      BY <1>2, <1>3, <1>5, RestGrows
    <3> QED
      BY <1>3, <3>1
  <2> HIDE DEF l
  <2> QED
    BY <1>1, <1>2, <1>3, <2>1, <2>2, <2>3
<1>9. \A k \in 1 .. Len(B) : k \in 1 .. Len(wal) \/ k = l
  BY <1>3
<1>10. LastIncluded(B, sim.included) /\ HashesBefore(B, Len(B), sim.tick)
  <2>1. sim.included = 0 \/ sim.included \in 1 .. Len(wal)
    BY <1>2, <1>3
  <2>2. LastIncluded(B, sim.included)
    BY <1>2, <1>3, <2>1 DEF LastIncluded, IsCommand
  <2>3. HashesBefore(B, Len(B), sim.tick)
    BY <1>2, <1>3, <1>9 DEF HashesBefore, IsCommand
  <2> QED
    BY <2>2, <2>3
<1>11. HashesOK(program, B)
  <2>1. HashesBefore(wal, Len(wal), due)
    <3>1. \A k \in 1 .. Len(wal) : ~IsCommand(wal, k) => wal[k].tick \in Nat
      BY <1>2, LogType
    <3> QED
      BY <1>2, <1>3, <3>1 DEF HashesBefore
  <2>2. \A k \in 1 .. Len(wal) : ~IsCommand(B, k) => B[k].hash = HashAt(program, B, B[k].tick)
    BY <1>2, <1>3, <1>5, <2>1, HashesStay
  <2>3. DOMAIN B = 1 .. Len(B)
    BY <1>4, LogType
  <2> QED
    BY <1>3, <1>9, <2>2, <2>3 DEF HashesOK
<1>12. Kept(program, B, image) /\ Kept(program, B, frozen)
  <2>1. KeptState(program, image).tick \in Nat /\ KeptState(program, frozen).tick \in Nat
    BY <1>2, KeptType
  <2>2. KeptState(program, image).tick < due /\ KeptState(program, frozen).tick < due
    BY <1>2, <1>3, <2>1 DEF NoLater
  <2> QED
    BY <1>2, <1>3, <1>5, <2>2, KeptStays
<1> HIDE DEF l
<1> QED
  BY <1>1, <1>2, <1>6, <1>7, <1>8, <1>10, <1>11, <1>12 DEF FollowInv, RunningInv, B

(* The next command of the log is given to the runtime in time: it is       *)
(* executed where a replay executes it.                                     *)
LEMMA EnqueueFollows ==
    ASSUME StorageInv, FollowInv, NEW l \in open, Enqueue(l), orderly'
    PROVE  FollowInv'
<1>1. /\ up /\ program' = program /\ up' = up /\ failed' = failed /\ wal' = wal
      /\ frozen' = frozen /\ image' = image /\ open' = open \ {l}
      /\ sim' = Enqueued(sim, wal[l].due, l, wal[l].rec.op)
      /\ \A k \in open : k >= l
  BY DEF Enqueue
<1>2. /\ LogOK(wal) /\ Matches(program, wal, sim) /\ sim.tick \in Nat
      /\ sim.included \in 0 .. Len(wal)
      /\ open = Rest(wal, sim) /\ RestInTime(wal, sim)
      /\ HashesBefore(wal, Len(wal), sim.tick)
      /\ NoLater(KeptState(program, image), sim) /\ NoLater(KeptState(program, frozen), sim)
  BY <1>1, RunningType
<1>3. Len(wal) \in Nat
  BY <1>2, LogType
<1>4. l \in 1 .. Len(wal) /\ IsCommand(wal, l) /\ sim.included < l /\ InTime(sim, wal[l].due)
  <2>1. l \in sim.included + 1 .. Len(wal) /\ IsCommand(wal, l)
    BY <1>2 DEF Rest
  <2>2. InTime(sim, wal[l].due)
    BY <1>2 DEF RestInTime
  <2> QED
    BY <1>2, <1>3, <2>1, <2>2
<1>5. \A k \in sim.included + 1 .. l - 1 : ~IsCommand(wal, k)
  <2> SUFFICES ASSUME NEW k \in sim.included + 1 .. l - 1, IsCommand(wal, k) PROVE FALSE
    OBVIOUS
  <2>1. k \in Rest(wal, sim) /\ k < l
    BY <1>2, <1>3, <1>4 DEF Rest
  <2> QED
    BY <1>1, <1>2, <2>1
<1>6. /\ Matches(program, wal, sim') /\ sim'.included = l /\ sim'.tick = sim.tick
      /\ \A due : InTime(sim, due) => InTime(sim', due)
  BY <1>1, <1>2, <1>4, <1>5, EnqueuedMatches
<1>7. open' = Rest(wal, sim')
  <2>1. ASSUME NEW k
        PROVE  k \in Rest(wal, sim') <=> k \in Rest(wal, sim) /\ k # l
    <3>1. k \in l + 1 .. Len(wal) => k \in sim.included + 1 .. Len(wal) /\ k # l
      BY <1>2, <1>3, <1>4
    <3>2. k \in Rest(wal, sim) /\ k # l => k \in l + 1 .. Len(wal)
      BY <1>1, <1>2, <1>3, <1>4 DEF Rest
    <3> QED
      BY <1>6, <3>1, <3>2 DEF Rest
  <2> QED
    BY <1>1, <1>2, <2>1
<1>8. RestInTime(wal, sim')
  BY <1>1, <1>2, <1>6, <1>7 DEF RestInTime
<1>9. LastIncluded(wal, sim'.included)
  BY <1>4, <1>6 DEF LastIncluded
<1>10. NoLater(KeptState(program, image), sim') /\ NoLater(KeptState(program, frozen), sim')
  <2>1. /\ KeptState(program, image).included \in Nat
        /\ KeptState(program, frozen).included \in Nat
    <3>1. Kept(program, wal, image) /\ Kept(program, wal, frozen)
      BY DEF FollowInv
    <3> QED
      BY <1>2, <3>1, KeptType
  <2> QED
    BY <1>2, <1>4, <1>6, <2>1 DEF NoLater
<1> QED
  BY <1>1, <1>2, <1>6, <1>7, <1>8, <1>9, <1>10 DEF FollowInv, RunningInv

(* A step executes the tick as the log has it, appends its hash and may     *)
(* freeze a checkpoint of it; no command for the tick is still open.        *)
LEMMA StepFollows ==
    ASSUME Replayable, StorageInv, FollowInv, NEW save \in BOOLEAN, Step(save), orderly'
    PROVE  FollowInv'
<1> DEFINE y == Stable(sim)
           r == [kind |-> "hash", tick |-> sim.tick, hash |-> StateHash(y)]
           B == Append(wal, r)
           l == Len(wal) + 1
           t == sim.tick + 1
<1>1. /\ up /\ program' = program /\ up' = up /\ failed' = failed /\ open' = open
      /\ image' = image /\ wal' = B /\ sim' = Finished(y)
      /\ frozen' = IF save THEN Capture(y) ELSE frozen
      /\ \A k \in open : InTime(Finished(y), wal[k].due)
  BY DEF Step
<1>2. /\ LogOK(wal) /\ HashesOK(program, wal) /\ failed = "no"
      /\ Kept(program, wal, image) /\ Kept(program, wal, frozen)
      /\ Matches(program, wal, sim) /\ sim.tick \in Nat /\ sim.included \in 0 .. Len(wal)
      /\ open = Rest(wal, sim)
      /\ LastIncluded(wal, sim.included) /\ HashesBefore(wal, Len(wal), sim.tick)
      /\ NoLater(KeptState(program, image), sim) /\ NoLater(KeptState(program, frozen), sim)
  BY <1>1, RunningType
<1>3. "late" \notin program
  BY DEF StorageInv, Replayable
<1>4. Finished(y) = Later(y)
  BY <1>3 DEF Finished, Later
<1>5. /\ y \in State /\ Later(y).tick = y.tick + 1 /\ y.tick = sim.tick
  <2>1. Storable(sim) /\ y = Phases(program, Applied(sim))
    BY <1>1 DEF StorageInv, Stable
  <2> HIDE DEF y
  <2> QED
    BY <2>1, StepStores
<1>6. AllLater(wal, sim.included, sim.tick)
  <2> SUFFICES ASSUME NEW k \in sim.included + 1 .. Len(wal), IsCommand(wal, k)
               PROVE  wal[k].due > sim.tick
    BY DEF AllLater
  <2> HIDE DEF y
  <2>1. InTime(Later(y), wal[k].due)
    BY <1>1, <1>2, <1>4 DEF Rest
  <2>2. wal[k].due \in Nat
    <3>1. k \in 1 .. Len(wal)
      BY <1>2, LogType
    <3> QED
      BY <1>2, <3>1, LogType
  <2> QED
    BY <1>2, <1>5, <2>1, <2>2 DEF InTime
<1>7. /\ Matches(program, wal, Later(y)) /\ Sound(y) /\ y.included = sim.included
      /\ StateHash(y) = HashAt(program, wal, sim.tick)
  <2>1. y = Phases(program, Applied(sim))
    BY DEF Stable
  <2> HIDE DEF y
  <2> QED
    BY <1>2, <1>6, <2>1, MatchesLater
<1> HIDE DEF y
<1>8. /\ Later(y).tick = t /\ Later(y).included = sim.included
  BY <1>5, <1>7, LaterType DEF Boot
<1>9. /\ LogOK(B) /\ Len(B) = l /\ Len(wal) \in Nat /\ B[l] = r
       /\ \A k \in 1 .. Len(wal) : B[k] = wal[k]
  <2>1. r.kind = "hash" /\ r.tick \in Nat
    BY <1>2
  <2> HIDE DEF r
  <2> QED
    BY <1>2, <2>1, OneMore
<1>10. /\ ~IsCommand(B, l) /\ l \in 1 .. Len(B) /\ B[l].tick = sim.tick /\ B[l].hash = StateHash(y)
  BY <1>9 DEF IsCommand
<1>11. t \in Nat /\ sim.tick < t
  BY <1>2
<1> HIDE DEF B, r, t
<1>12. \A k \in 1 .. Len(B) : k \in 1 .. Len(wal) \/ k = l
  BY <1>9
<1>13. \A k \in Len(wal) + 1 .. Len(B) : k = l
  BY <1>9
<1> HIDE DEF l
<1>14. Extends(wal, B, t)
  <2>1. Len(wal) <= Len(B)
    BY <1>9 DEF l
  <2> QED
    BY <1>2, <1>9, <1>10, <1>13, <2>1 DEF Extends
<1>15. Matches(program, B, Later(y))
  <2>1. Later(y).tick \in Nat /\ Later(y).tick <= t /\ Later(y).included \in Nat
        /\ Later(y).included <= Len(wal)
    BY <1>2, <1>8, <1>11
  <2> QED
    BY <1>7, <1>11, <1>14, <2>1, MatchesStays
<1>16. \A k \in 1 .. Len(wal) :
          ~IsCommand(B, k) => /\ B[k].tick \in Nat /\ B[k].tick < t
                              /\ B[k].hash = HashAt(program, B, B[k].tick)
  <2>1. HashesBefore(wal, Len(wal), t)
    <3>1. \A k \in 1 .. Len(wal) : ~IsCommand(wal, k) => wal[k].tick \in Nat
      BY <1>2, LogType
    <3> QED
      BY <1>2, <1>11, <3>1 DEF HashesBefore
  <2> QED
    BY <1>2, <1>11, <1>14, <2>1, HashesStay
<1>17. HashAt(program, wal, sim.tick) = HashAt(program, B, sim.tick)
  <2>1. sim.tick \in 0 .. t
    BY <1>2, <1>11
  <2> QED
    BY <1>11, <1>14, <2>1, HistoryStays
<1>18. HashesOK(program, B)
  <2>1. DOMAIN B = 1 .. Len(B)
    BY <1>9, LogType
  <2> QED
    BY <1>7, <1>10, <1>12, <1>16, <1>17, <2>1 DEF HashesOK
<1>19. HashesBefore(B, Len(B), t)
  BY <1>10, <1>11, <1>12, <1>16 DEF HashesBefore
<1>20. /\ Kept(program, B, image) /\ Kept(program, B, frozen)
       /\ NoLater(KeptState(program, image), Later(y))
       /\ NoLater(KeptState(program, frozen), Later(y))
  <2>1. KeptState(program, image).tick \in Nat /\ KeptState(program, frozen).tick \in Nat
    BY <1>2, KeptType
  <2>2. KeptState(program, image).tick < t /\ KeptState(program, frozen).tick < t
    BY <1>2, <1>11, <2>1 DEF NoLater
  <2>3. Kept(program, B, image) /\ Kept(program, B, frozen)
    BY <1>2, <1>11, <1>14, <2>2, KeptStays
  <2> QED
    BY <1>2, <1>8, <1>11, <2>1, <2>2, <2>3 DEF NoLater
<1>21. open = Rest(B, Later(y)) /\ RestInTime(B, Later(y))
  <2>1. Rest(wal, Later(y)) = open
    BY <1>2, <1>8 DEF Rest
  <2>2. Later(y).included \in 0 .. Len(wal)
    BY <1>2, <1>8
  <2>3. \A k \in open : k \in Rest(B, Later(y)) /\ wal[k] = B[k]
    BY <1>11, <1>14, <2>1, <2>2, RestGrows
  <2>4. \A k \in Rest(B, Later(y)) : k \in open
    <3>1. \A k \in Rest(B, Later(y)) :
             k \in open \/ (k \in Len(wal) + 1 .. Len(B) /\ IsCommand(B, k))
      BY <1>11, <1>14, <2>1, <2>2, RestGrows
    <3> QED
      BY <1>10, <1>13, <3>1
  <2> QED
    BY <1>1, <1>4, <2>3, <2>4 DEF RestInTime
<1>22. LastIncluded(B, sim.included) /\ HashesBefore(B, sim.included, t)
  <2>1. sim.included = 0 \/ sim.included \in 1 .. Len(wal)
    BY <1>2, <1>9
  <2>2. \A k \in 1 .. sim.included : k \in 1 .. Len(B)
    BY <1>2, <1>9 DEF l
  <2>3. HashesBefore(B, sim.included, t)
    BY <1>19, <2>2 DEF HashesBefore
  <2> QED
    BY <1>2, <1>9, <2>1, <2>3 DEF LastIncluded, IsCommand
<1>23. /\ Kept(program, B, Capture(y)) /\ NoLater(KeptState(program, Capture(y)), Later(y))
  <2>1. KeptState(program, Capture(y)) = Later(y)
    BY <1>5, CaptureKeeps
  <2>2. NoLater(Later(y), Later(y))
    BY <1>2, <1>8, <1>11 DEF NoLater
  <2> QED
    BY <1>8, <1>15, <1>21, <1>22, <2>1, <2>2 DEF Kept
<1>24. Kept(program, B, frozen') /\ NoLater(KeptState(program, frozen'), Later(y))
  BY <1>1, <1>20, <1>23
<1> QED
  BY <1>1, <1>2, <1>4, <1>8, <1>15, <1>18, <1>19, <1>20, <1>21, <1>22, <1>24
     DEF FollowInv, RunningInv

(* A start with no checkpoint and no record begins as a new world does; no  *)
(* step is repeated.                                                        *)
LEMMA FirstStartFollows ==
    ASSUME Replayable, StorageInv, FollowInv, Restart, image = Nothing, wal = <<>>
    PROVE  FollowInv'
<1> DEFINE k   == RestartBase
           e   == EnqueuedAll(k)
           run == RestartRun
<1>1. /\ failed = "no" /\ open = {} /\ frozen = Nothing
      /\ program' = program /\ wal' = wal /\ open' = open
      /\ frozen' = frozen /\ image' = image /\ Storable(k)
      /\ IF ~run.ok \/ Unexecuted(k)
         THEN up' = up /\ failed' \in {"fork", "outcome"}
         ELSE /\ up' = TRUE /\ failed' = failed
              /\ sim' = IF image = Nothing /\ wal = <<>> THEN Begun(program) ELSE run.sim
              /\ ecs' = MadeAgain(image.ecs_active_set)
  BY RestartCases
<1>2. /\ LogOK(wal) /\ HashesOK(program, wal) /\ Len(wal) = 0
      /\ Kept(program, wal, image) /\ Kept(program, wal, frozen)
  BY DEF StorageInv, FollowInv
<1> HIDE DEF k
<1>3. k.included \in Nat /\ Cmds = {}
  BY <1>1, <1>2 DEF Storable, Sound, State, Cmds
<1>4. PromisedTick(k) = -1
  <2>1. k.included + 1 .. Len(wal) = {}
    BY <1>2, <1>3
  <2>2. {IF l \in Cmds THEN wal[l].due ELSE wal[l].tick : l \in k.included + 1 .. Len(wal)} = {}
    BY <2>1
  <2> QED
    BY <2>2 DEF PromisedTick
<1>5. run.ok
  <2>1. run = RunTo(e, PromisedTick(k) + 1)
    BY DEF RestartRun, Run, k
  <2>2. PromisedTick(k) + 1 = 0
    BY <1>4
  <2>3. Storable(e)
    BY <1>1, <1>2, EnqueuedAllStores
  <2> HIDE DEF e, run
  <2>4. RunTo(e, 0) = [sim |-> e, ok |-> TRUE]
    <3>1. "late" \notin program /\ 0 \in Nat
      BY DEF StorageInv, Replayable
    <3> QED
      BY <2>3, <3>1, RunStores
  <2> QED
    BY <2>1, <2>2, <2>4
<1>6. ~Unexecuted(k)
  BY <1>3 DEF Unexecuted
<1>7. up' = TRUE /\ failed' = "no" /\ sim' = Begun(program)
  BY <1>1, <1>5, <1>6
<1> DEFINE b == Begun(program)
<1>8. /\ Matches(program, wal, b) /\ RestInTime(wal, b) /\ LastIncluded(wal, b.included)
      /\ b.tick = 0 /\ b.included = 0
  BY <1>2, BegunMatches, BegunState
<1>9. KeptState(program, image) = b /\ KeptState(program, frozen) = b
  BY <1>1 DEF KeptState
<1> HIDE DEF b
<1>10. Rest(wal, b) = {} /\ HashesBefore(wal, Len(wal), b.tick) /\ NoLater(b, b)
  BY <1>2, <1>8 DEF Rest, HashesBefore, NoLater
<1> QED
  BY <1>1, <1>2, <1>7, <1>8, <1>9, <1>10 DEF FollowInv, RunningInv, b

(* A start from what a crash has left is not refused, and the runtime is    *)
(* where the log says: the commands after the checkpoint are enqueued and   *)
(* every recorded tick is run again.                                        *)
LEMMA ReplayFollows ==
    ASSUME Replayable, StorageInv, FollowInv, Restart, ~Unseeded,
           ~(image = Nothing /\ wal = <<>>)
    PROVE  FollowInv'
<1> DEFINE k   == RestartBase
           e   == EnqueuedAll(k)
           run == RestartRun
<1>1. /\ failed = "no" /\ open = {} /\ frozen = Nothing
      /\ program' = program /\ wal' = wal /\ open' = open
      /\ frozen' = frozen /\ image' = image
      /\ IF ~run.ok \/ Unexecuted(k)
         THEN up' = up /\ failed' \in {"fork", "outcome"}
         ELSE /\ up' = TRUE /\ failed' = failed
              /\ sim' = IF image = Nothing /\ wal = <<>> THEN Begun(program) ELSE run.sim
              /\ ecs' = MadeAgain(image.ecs_active_set)
  BY RestartCases
<1>2. /\ LogOK(wal) /\ HashesOK(program, wal)
      /\ Kept(program, wal, image) /\ Kept(program, wal, frozen) /\ "late" \notin program
  BY DEF StorageInv, FollowInv, Replayable
<1>3. k = KeptState(program, image)
  <2>1. CASE image = Nothing
    <3>1. "seed" \notin program
      BY <2>1 DEF Unseeded
    <3> QED
      BY <2>1, <3>1 DEF RestartBase, KeptState, Begun
  <2>2. CASE image # Nothing
    BY <2>2 DEF RestartBase
  <2> QED
    BY <2>1, <2>2
<1> HIDE DEF k
<1>4. /\ Matches(program, wal, k) /\ k.tick \in Nat /\ k.included \in 0 .. Len(wal)
      /\ RestInTime(wal, k) /\ LastIncluded(wal, k.included) /\ HashesBefore(wal, k.included, k.tick)
  BY <1>2, <1>3, KeptType
<1>5. /\ PromisedTick(k) \in Nat \cup {-1} /\ Len(wal) \in Nat
      /\ \A l \in k.included + 1 .. Len(wal) :
            IF IsCommand(wal, l) THEN wal[l].due <= PromisedTick(k)
                                 ELSE wal[l].tick <= PromisedTick(k)
  BY <1>2, <1>4, PromisedLast, LogType
<1>6. /\ Matches(program, wal, e) /\ e.tick = k.tick
      /\ NoneAfter(wal, e.included) /\ LastIncluded(wal, e.included) /\ k.included <= e.included
  BY <1>2, <1>4, EnqueuedToMatches
<1> DEFINE n == PromisedTick(k) + 1
<1>7. n \in Nat /\ run = RunTo(e, n)
  BY <1>5 DEF RestartRun, Run, k
<1> HIDE DEF e, n, run
<1>8. /\ run.ok /\ Matches(program, wal, run.sim) /\ run.sim.tick = Larger(e.tick, n)
      /\ run.sim.included = e.included
  BY <1>2, <1>6, <1>7, RunMatches
<1> DEFINE s == run.sim
<1>9. s.tick \in Nat /\ k.tick <= s.tick /\ n <= s.tick /\ s.included \in Nat
  <2>1. Larger(k.tick, n) \in Nat /\ k.tick <= Larger(k.tick, n) /\ n <= Larger(k.tick, n)
    BY <1>4, <1>7 DEF Larger
  <2>2. s.included \in Nat
    BY <1>8, MatchesType
  <2> QED
    BY <1>6, <1>8, <2>1, <2>2
<1>10. ~Unexecuted(k)
  <2> SUFFICES ASSUME PromisedTick(k) < k.tick, NEW l \in Cmds, l > k.included PROVE FALSE
    BY DEF Unexecuted
  <2>1. l \in k.included + 1 .. Len(wal) /\ IsCommand(wal, l) /\ wal[l].due \in Nat
    BY <1>2, <1>4, <1>5, LogType DEF Cmds, IsCommand
  <2>2. InTime(k, wal[l].due)
    BY <1>4, <2>1 DEF RestInTime, Rest
  <2> QED
    BY <1>4, <1>5, <2>1, <2>2 DEF InTime
<1>11. up' = TRUE /\ failed' = "no" /\ sim' = s
  BY <1>1, <1>8, <1>10
<1>12. HashesBefore(wal, Len(wal), s.tick)
  <2> SUFFICES ASSUME NEW l \in 1 .. Len(wal), ~IsCommand(wal, l)
               PROVE  wal[l].tick < s.tick
    BY DEF HashesBefore
  <2>1. wal[l].tick \in Nat
    BY <1>2, LogType
  <2> HIDE DEF s
  <2>2. CASE l <= k.included
    <3>1. wal[l].tick < k.tick
      BY <1>4, <2>1, <2>2 DEF HashesBefore
    <3> QED
      BY <1>4, <1>9, <2>1, <3>1
  <2>3. CASE l > k.included
    <3>1. wal[l].tick <= PromisedTick(k)
      BY <1>4, <1>5, <2>1, <2>3
    <3>2. PromisedTick(k) < n
      BY <1>5 DEF n
    <3> QED
      BY <1>5, <1>7, <1>9, <2>1, <3>1, <3>2
  <2> QED
    BY <1>4, <2>1, <2>2, <2>3
<1>13. Rest(wal, s) = {} /\ LastIncluded(wal, s.included)
  BY <1>6, <1>8 DEF Rest, NoneAfter
<1>14. NoLater(k, s)
  BY <1>6, <1>8, <1>9 DEF NoLater
<1>15. NoLater(KeptState(program, frozen), s)
  <2>1. KeptState(program, frozen) = Begun(program)
    BY <1>1 DEF KeptState
  <2> HIDE DEF s
  <2> QED
    BY <1>9, <2>1, BegunState DEF NoLater
<1>16. Matches(program, wal, s)
  BY <1>8
<1> HIDE DEF s
<1>17. RunningInv'
  BY <1>1, <1>3, <1>11, <1>12, <1>13, <1>14, <1>15, <1>16 DEF RunningInv, RestInTime
<1> QED
  BY <1>1, <1>2, <1>11, <1>17 DEF FollowInv

(* Every action of the runtime keeps what is saved in order.                *)
LEMMA StorageStep ==
    ASSUME Replayable, StorageInv, EntityInv, [RuntimeNext]_runtimeVars
    PROVE  StorageInv'
<1>1. ASSUME NEW op \in Commands, NEW due \in 0 .. MaxTick, Submit(op, due)
      PROVE  StorageInv'
  BY <1>1, SubmitStores
<1>2. ASSUME NEW l \in open, Enqueue(l)
      PROVE  StorageInv'
  BY <1>2, EnqueueStores
<1>3. ASSUME NEW w \in Wid, Activate(w)
      PROVE  StorageInv'
  BY <1>3, ActivateStores
<1>4. ASSUME NEW h \in handles, Deactivate(h)
      PROVE  StorageInv'
  BY <1>4, DeactivateStores
<1>5. ASSUME NEW save \in BOOLEAN, Step(save)
      PROVE  StorageInv'
  BY <1>5, StepKeepsStored
<1>6. ASSUME NEW ok \in BOOLEAN, Publish(ok)
      PROVE  StorageInv'
  BY <1>6, PublishStores
<1>7. CASE RuntimeCrash
  BY <1>7, CrashStores
<1>8. CASE Restart
  BY <1>8, RestartStores
<1>9. CASE UNCHANGED runtimeVars
  <2>1. Active' = Active
    BY <1>9 DEF Active, runtimeVars
  <2> QED
    BY <1>9, <2>1 DEF StorageInv, runtimeVars
<1> QED
  BY <1>1, <1>2, <1>3, <1>4, <1>5, <1>6, <1>7, <1>8, <1>9 DEF RuntimeNext

(* No action ends disorder: what a replay cannot repeat has happened for    *)
(* good.                                                                    *)
LEMMA DisorderLasts ==
    ASSUME [RuntimeNext]_runtimeVars, orderly'
    PROVE  orderly
BY DEF RuntimeNext, runtimeVars, Submit, Enqueue, Activate, Deactivate, Step, Publish,
       RuntimeCrash, Restart

(* Every action keeps the runtime, the checkpoints and the hashes where the *)
(* log says, unless it is one that a replay cannot repeat.                  *)
LEMMA FollowStep ==
    ASSUME Replayable, StorageInv, FollowInv, [RuntimeNext]_runtimeVars, orderly'
    PROVE  FollowInv'
<1>1. ASSUME NEW op \in Commands, NEW due \in 0 .. MaxTick, Submit(op, due)
      PROVE  FollowInv'
  BY <1>1, SubmitFollows
<1>2. ASSUME NEW l \in open, Enqueue(l)
      PROVE  FollowInv'
  BY <1>2, EnqueueFollows
<1>3. ASSUME NEW w \in Wid, Activate(w)
      PROVE  FollowInv'
  BY <1>3, SameFollows DEF Activate
<1>4. ASSUME NEW h \in handles, Deactivate(h)
      PROVE  FollowInv'
  BY <1>4, SameFollows DEF Deactivate
<1>5. ASSUME NEW save \in BOOLEAN, Step(save)
      PROVE  FollowInv'
  BY <1>5, StepFollows
<1>6. ASSUME NEW ok \in BOOLEAN, Publish(ok)
      PROVE  FollowInv'
  BY <1>6, PublishFollows
<1>7. CASE RuntimeCrash
  BY <1>7, CrashFollows
<1>8. CASE Restart
  <2>1. ~Unseeded
    BY <1>8 DEF Restart
  <2> QED
    BY <1>8, <2>1, FirstStartFollows, ReplayFollows
<1>9. CASE UNCHANGED runtimeVars
  BY <1>9, SameFollows DEF runtimeVars
<1> QED
  BY <1>1, <1>2, <1>3, <1>4, <1>5, <1>6, <1>7, <1>8, <1>9 DEF RuntimeNext

(* A runtime with an empty log, no checkpoint and a new world has nothing   *)
(* to recover.                                                              *)
LEMMA RecoveryInit ==
    ASSUME RuntimeInit
    PROVE  RecoveryInv
<1>1. /\ program \in Programs /\ up = TRUE /\ failed = "no" /\ sim = Begun(program)
      /\ ecs = NoEntities /\ wal = <<>> /\ open = {} /\ frozen = Nothing /\ image = Nothing
  BY DEF RuntimeInit
<1>2. wal \in Seq({wal[l] : l \in DOMAIN wal}) /\ Len(wal) = 0 /\ DOMAIN wal = {}
  <2> DEFINE T == {wal[l] : l \in DOMAIN wal}
  <2> HIDE DEF T
  <2>1. wal \in Seq(T) /\ Len(wal) = 0 /\ DOMAIN wal = {}
    BY <1>1
  <2> QED
    BY <2>1 DEF T
<1>3. LogOK(wal) /\ HashesOK(program, wal)
  BY <1>2 DEF LogOK, HashesOK
<1>4. Kept(program, wal, Nothing) /\ Restorable(program, Nothing)
  BY <1>3, NothingKept, NothingRestorable
<1> DEFINE b == Begun(program)
<1>5. /\ Matches(program, wal, b) /\ RestInTime(wal, b) /\ LastIncluded(wal, b.included)
      /\ b.tick = 0 /\ b.included = 0 /\ Storable(b)
  BY <1>3, BegunMatches, BegunState DEF Storable
<1>6. KeptState(program, image) = b /\ KeptState(program, frozen) = b
  BY <1>1 DEF KeptState
<1>7. Active = {}
  BY <1>1 DEF Active, NoEntities
<1>8. sim = b
  BY <1>1
<1> HIDE DEF b
<1>9. Rest(wal, b) = {} /\ HashesBefore(wal, Len(wal), b.tick) /\ NoLater(b, b)
  BY <1>2, <1>5 DEF Rest, HashesBefore, NoLater
<1>10. StorageInv
  BY <1>1, <1>3, <1>4, <1>5, <1>7, <1>8 DEF StorageInv, Standing
<1>11. FollowInv
  BY <1>1, <1>3, <1>4, <1>5, <1>6, <1>8, <1>9 DEF FollowInv, RunningInv
<1> QED
  BY <1>10, <1>11 DEF RecoveryInv

(* The inductive invariant: whatever happens, what is saved can be restored *)
(* and its records read; and until a command is enqueued too late or        *)
(* overtaken, or a seed is lost, what a running process, a checkpoint and   *)
(* every hash of the log stand for is what the commands of the log say,     *)
(* across crashes at any point and starts from any checkpoint.              *)
THEOREM RecoveryInvariant == ASSUME Replayable PROVE RuntimeSpec => []RecoveryInv
<1>1. RuntimeInit => RecoveryInv
  BY RecoveryInit
<1>2. RecoveryInv /\ EntityInv /\ [RuntimeNext]_runtimeVars => RecoveryInv'
  <2> SUFFICES ASSUME RecoveryInv, EntityInv, [RuntimeNext]_runtimeVars
               PROVE  RecoveryInv'
    OBVIOUS
  <2>1. StorageInv /\ (orderly => FollowInv)
    BY DEF RecoveryInv
  <2>2. StorageInv'
    BY <2>1, StorageStep
  <2>3. orderly' => FollowInv'
    BY <2>1, DisorderLasts, FollowStep
  <2> QED
    BY <2>2, <2>3 DEF RecoveryInv
<1> QED
  BY <1>1, <1>2, EntityInvariant, PTL DEF RuntimeSpec

(* A process is at every tick where one that was never stopped would be,    *)
(* however its commands arrived between the log and the buffer: the state   *)
(* is a function of the durable log, for any callbacks, commands,           *)
(* checkpoints and crashes, unless a command was enqueued too late or       *)
(* overtaken, or a seed was lost (restore_into, poll_durable_tickets and    *)
(* the replay of main.cpp).                                                 *)
THEOREM StatesFollowFromTheLog ==
    ASSUME Replayable PROVE RuntimeSpec => []StateFollowsFromLog
<1>1. RecoveryInv => StateFollowsFromLog
  BY FollowsFromInv
<1> QED
  BY <1>1, RecoveryInvariant, PTL

(* No checkpoint and no record the process itself wrote is ever refused,    *)
(* and no hash and no command without an outcome unless a command was       *)
(* enqueued too late or overtaken, or a seed was lost (main.cpp, the exits  *)
(* with code 5).                                                            *)
THEOREM RestartsSucceed == ASSUME Replayable PROVE RuntimeSpec => []RestartSucceeds
<1>1. RecoveryInv => RestartSucceeds
  BY DEF RecoveryInv, StorageInv, FollowInv, RestartSucceeds
<1> QED
  BY <1>1, RecoveryInvariant, PTL

=============================================================================
