----------------------------- MODULE WalWriter -----------------------------
(***************************************************************************)
(* The write-ahead log of a durable world: WalWriter (one background       *)
(* worker, a bounded queue, group commit, segment rotation, a read-only    *)
(* fault state), the directory scan a restart performs, and the disk under *)
(* both.  Callers hold tickets; the worker alone assigns LSNs.             *)
(*                                                                         *)
(* Data abstraction.  A record is [lsn, ticket]: the payload is named by   *)
(* the ticket of the append call that carried it.  The records of all      *)
(* segments form one sequence, log; its first split records are in closed  *)
(* segments, the others in the segment that carries the .active suffix.    *)
(* Segments are measured in records, byte limits and ages are choices.     *)
(***************************************************************************)
EXTENDS Integers, Sequences

CONSTANTS
    Ticket,           \* append() calls; each call is made at most once
    Relaxed,          \* the calls made with Durability::relaxed
    AllowRelaxed,     \* WalConfig.allow_relaxed
    Large,            \* calls whose payload is within 28 bytes of max_record_bytes
    QueueMax,         \* WalConfig.queue_max_records
    BatchMax,         \* WalConfig.group_commit_max_records
    SegmentMax,       \* records that fit WalConfig.segment_max_bytes
    MaxLsn,           \* the last LSN, 2^64 - 1 in the code
    LinkOnDataSync,   \* does fdatasync of a new file also persist its name?
    TruncateMayFail,  \* can truncate_file fail while the tail is trimmed?
    MaxCrash          \* bound of the model: crashes in one behaviour

ASSUME WalConstants ==
    /\ Relaxed \subseteq Ticket /\ Large \subseteq Ticket
    /\ QueueMax \in Nat \ {0} /\ BatchMax \in Nat \ {0} /\ SegmentMax \in Nat \ {0}
    /\ MaxLsn \in Nat \ {0} /\ MaxCrash \in Nat
    /\ AllowRelaxed \in BOOLEAN /\ LinkOnDataSync \in BOOLEAN
    /\ TruncateMayFail \in BOOLEAN

VARIABLES
    pc,           \* where the worker is ("down": no process, "refused": start() failed)
    queue,        \* appends not yet taken by the worker
    batch,        \* the group being committed
    lsns,         \* LSNs of the records of batch written so far
    done,         \* tickets of batch fulfilled so far
    nextLsn, lastDurable,
    fault, exhausted, stopping,
    hasFile,      \* active_segment is open
    unsynced,     \* unsynced_writes
    log, split,
    csynced,      \* records of closed segments on stable storage
    synced,       \* records on stable storage when every closed one is
    activeName,   \* first LSN in the name of the active file, 0 when there is none
    header,       \* the active file has its segment header
    stable,       \* the active file was synced since its header was written
    tornAt,       \* garbage follows this many records; NoTear when there is none
    renamed,      \* first LSN of a segment renamed but not yet dir-synced, or 0
    outcome, got, \* what the caller of each ticket knows
    admitted,     \* history: the order of successful append() calls
    crashes

worker == <<pc, batch, lsns, done, nextLsn, lastDurable, hasFile, unsynced>>
files  == <<split, csynced, activeName, header, stable, renamed>>
disk   == <<log, synced, tornAt, files>>
caller == <<outcome, got>>
vars   == <<worker, queue, fault, exhausted, stopping, disk, caller, admitted, crashes>>

NoTear == -1
Record == [lsn : Nat, ticket : Ticket]
Gone   == {"down", "refused"}

-----------------------------------------------------------------------------
(* append(): the caller's side, under the queue mutex.                      *)

CanAppend(t) ==
    /\ ~exhausted /\ ~stopping /\ ~fault
    /\ t \in Relaxed => AllowRelaxed
    /\ Len(queue) < QueueMax

AppendOk(t) ==
    /\ pc \notin Gone /\ outcome[t] = "new"
    /\ CanAppend(t)
    /\ queue' = Append(queue, t)
    /\ admitted' = Append(admitted, t)
    /\ outcome' = [outcome EXCEPT ![t] = "pending"]
    /\ UNCHANGED <<worker, fault, exhausted, stopping, disk, got, crashes>>

AppendRefused(t) ==
    /\ pc \notin Gone /\ outcome[t] = "new"
    /\ ~CanAppend(t)
    /\ outcome' = [outcome EXCEPT ![t] = "refused"]
    /\ UNCHANGED <<worker, queue, fault, exhausted, stopping, disk, got, admitted, crashes>>

(* shutdown(): the worker drains the queue and then leaves its loop.        *)
Shutdown ==
    /\ pc \notin Gone /\ ~stopping
    /\ stopping' = TRUE
    /\ UNCHANGED <<worker, queue, fault, exhausted, disk, caller, admitted, crashes>>

-----------------------------------------------------------------------------
(* run(): the group commit window.  The mutex is released while the worker  *)
(* waits for more records, so appends interleave with TakeOne; the byte     *)
(* limit and the deadline may close the batch at any size.                  *)

(* Mutant: the newest append is taken first.                                *)
TakeNewest ==
    /\ \/ pc = "idle"
       \/ pc = "collect" /\ ~stopping
    /\ queue # <<>> /\ Len(batch) < BatchMax
    /\ batch' = Append(batch, queue[Len(queue)])
    /\ queue' = SubSeq(queue, 1, Len(queue) - 1)
    /\ pc' = "collect"
    /\ UNCHANGED <<lsns, done, nextLsn, lastDurable, hasFile, unsynced, fault,
                   exhausted, stopping, disk, caller, admitted, crashes>>

TakeOne ==
    /\ \/ pc = "idle"
       \/ pc = "collect" /\ ~stopping
    /\ queue # <<>> /\ Len(batch) < BatchMax
    /\ batch' = Append(batch, Head(queue))
    /\ queue' = Tail(queue)
    /\ pc' = "collect"
    /\ UNCHANGED <<lsns, done, nextLsn, lastDurable, hasFile, unsynced, fault,
                   exhausted, stopping, disk, caller, admitted, crashes>>

CloseBatch ==
    /\ pc = "collect"
    /\ pc' = IF fault THEN "fail" ELSE "write"
    /\ UNCHANGED <<batch, lsns, done, nextLsn, lastDurable, hasFile, unsynced, queue,
                   fault, exhausted, stopping, disk, caller, admitted, crashes>>

(* Mutant: shutdown ends the thread without draining the queue.             *)
ExitUndrained ==
    /\ pc = "idle" /\ stopping
    /\ pc' = "stopped"
    /\ hasFile' = FALSE
    /\ UNCHANGED <<batch, lsns, done, nextLsn, lastDurable, unsynced, queue, fault,
                   exhausted, stopping, disk, caller, admitted, crashes>>

(* The queue is drained: a last best-effort sync, then the thread ends.     *)
WorkerExit ==
    /\ pc = "idle" /\ queue = <<>> /\ stopping
    /\ pc' = "stopped"
    /\ hasFile' = FALSE
    /\ \E flushed \in BOOLEAN :
         /\ flushed => hasFile /\ unsynced /\ ~fault
         /\ synced' = IF flushed THEN Len(log) ELSE synced
         /\ stable' = (stable \/ flushed)
         /\ renamed' = IF flushed THEN 0 ELSE renamed
    /\ UNCHANGED <<batch, lsns, done, nextLsn, lastDurable, unsynced, queue, fault,
                   exhausted, stopping, log, split, csynced, activeName, header,
                   tornAt, caller, admitted, crashes>>

-----------------------------------------------------------------------------
(* process_batch(): one record after the other, each into a segment that    *)
(* ensure_segment_for() has made ready.                                     *)

MoreToWrite == pc = "write" /\ Len(lsns) < Len(batch)
Durables    == {i \in 1..Len(batch) : batch[i] \notin Relaxed}

(* What a step of the worker that only touches the disk leaves alone.       *)
WorkerFrame == UNCHANGED <<batch, done, lastDurable, queue, fault, stopping,
                           caller, admitted, crashes>>

CreateSegment ==
    /\ MoreToWrite /\ ~hasFile
    /\ pc' = "header"
    /\ activeName' = nextLsn
    /\ header' = FALSE /\ stable' = FALSE
    /\ WorkerFrame
    /\ UNCHANGED <<lsns, nextLsn, hasFile, unsynced, exhausted, log, split, csynced,
                   synced, tornAt, renamed>>

WriteHeader ==
    /\ pc = "header"
    /\ header' = TRUE
    /\ hasFile' = TRUE /\ unsynced' = TRUE
    /\ pc' = "write"
    /\ WorkerFrame
    /\ UNCHANGED <<lsns, nextLsn, exhausted, log, split, csynced, synced,
                   activeName, stable, tornAt, renamed>>

(* Mutant: a segment is closed without a sync.                              *)
RotateUnsynced ==
    /\ MoreToWrite /\ hasFile
    /\ Len(log) > split
    /\ pc' = "rename"
    /\ WorkerFrame
    /\ UNCHANGED <<lsns, nextLsn, hasFile, unsynced, exhausted, disk>>

(* rotate_segment(): sync, then rename away .active, then sync the directory.*)
RotateSync ==
    /\ MoreToWrite /\ hasFile
    /\ Len(log) > split
    /\ synced' = Len(log) /\ stable' = TRUE /\ renamed' = 0
    /\ pc' = "rename"
    /\ WorkerFrame
    /\ UNCHANGED <<lsns, nextLsn, hasFile, unsynced, exhausted, log, split, csynced,
                   activeName, header, tornAt>>

RotateRename ==
    /\ pc = "rename"
    /\ split' = Len(log)
    /\ csynced' = IF csynced = split THEN synced ELSE csynced
    /\ renamed' = activeName
    /\ activeName' = 0 /\ header' = FALSE /\ stable' = FALSE
    /\ pc' = "dirsync"
    /\ WorkerFrame
    /\ UNCHANGED <<lsns, nextLsn, hasFile, unsynced, exhausted, log, synced, tornAt>>

RotateSyncDir ==
    /\ pc = "dirsync"
    /\ renamed' = 0
    /\ hasFile' = FALSE
    /\ pc' = "write"
    /\ WorkerFrame
    /\ UNCHANGED <<lsns, nextLsn, unsynced, exhausted, log, split, csynced, synced,
                   activeName, header, stable, tornAt>>

WriteRecord ==
    /\ MoreToWrite /\ hasFile
    /\ Len(log) - split < SegmentMax
    /\ log' = Append(log, [lsn |-> nextLsn, ticket |-> batch[Len(lsns) + 1]])
    /\ lsns' = Append(lsns, nextLsn)
    /\ exhausted' = (exhausted \/ nextLsn = MaxLsn)
    /\ nextLsn' = IF nextLsn = MaxLsn THEN nextLsn ELSE nextLsn + 1
    /\ unsynced' = TRUE
    /\ WorkerFrame
    /\ UNCHANGED <<pc, hasFile, synced, tornAt, files>>

(* Mutant: no batch is synced before its tickets are fulfilled.             *)
EndWritesUnsynced ==
    /\ pc = "write" /\ Len(lsns) = Len(batch)
    /\ pc' = "fulfil"
    /\ WorkerFrame
    /\ UNCHANGED <<lsns, nextLsn, hasFile, unsynced, exhausted, disk>>

EndWrites ==
    /\ pc = "write" /\ Len(lsns) = Len(batch)
    /\ pc' = IF Durables # {} THEN "sync" ELSE "fulfil"
    /\ WorkerFrame
    /\ UNCHANGED <<lsns, nextLsn, hasFile, unsynced, exhausted, disk>>

SyncBatch ==
    /\ pc = "sync"
    /\ synced' = Len(log) /\ stable' = TRUE /\ renamed' = 0
    /\ unsynced' = FALSE
    /\ pc' = "fulfil"
    /\ WorkerFrame
    /\ UNCHANGED <<lsns, nextLsn, hasFile, exhausted, log, split, csynced,
                   activeName, header, tornAt>>

(* Any file operation of the batch may fail; a failed write may leave part  *)
(* of a header or of a record behind.                                       *)
IoError ==
    /\ MoreToWrite \/ pc \in {"header", "rename", "dirsync", "sync"}
    /\ tornAt' \in IF pc = "header" \/ (MoreToWrite /\ hasFile)
                   THEN {tornAt, Len(log)} ELSE {tornAt}
    /\ pc' = "fail"
    /\ WorkerFrame
    /\ UNCHANGED <<lsns, nextLsn, hasFile, unsynced, exhausted, log, synced, files>>

(* Mutant: only durable records get their status.                           *)
AdmissionUnset(t) == IF t \in Relaxed THEN "unset" ELSE "durable"

AdmissionStatus(t) == IF t \in Relaxed THEN "relaxed" ELSE "durable"

(* Tickets are fulfilled one at a time, in the order of the batch.          *)
Fulfil ==
    /\ pc = "fulfil" /\ done < Len(batch)
    /\ LET t == batch[done + 1] IN
         /\ outcome' = [outcome EXCEPT ![t] = AdmissionStatus(t)]
         /\ got' = [got EXCEPT ![t] = lsns[done + 1]]
    /\ done' = done + 1
    /\ UNCHANGED <<pc, batch, lsns, nextLsn, lastDurable, hasFile, unsynced, queue,
                   fault, exhausted, stopping, disk, admitted, crashes>>

FinishBatch ==
    /\ pc = "fulfil" /\ done = Len(batch)
    /\ lastDurable' = IF Durables # {} THEN lsns[Len(lsns)] ELSE lastDurable
    /\ batch' = <<>> /\ lsns' = <<>> /\ done' = 0
    /\ pc' = "idle"
    /\ UNCHANGED <<nextLsn, hasFile, unsynced, queue, fault, exhausted, stopping,
                   disk, caller, admitted, crashes>>

(* Every ticket of the batch learns the error, then enter_fault(): the flag *)
(* is raised before the queue is swapped out under its mutex.               *)
FailTickets(S) == outcome' = [t \in Ticket |-> IF t \in S THEN "failed" ELSE outcome[t]]
Elements(s)    == {s[i] : i \in 1..Len(s)}

FailBatch ==
    /\ pc = "fail"
    /\ FailTickets(Elements(batch))
    /\ batch' = <<>> /\ lsns' = <<>>
    /\ pc' = "setfault"
    /\ UNCHANGED <<done, nextLsn, lastDurable, hasFile, unsynced, queue, fault,
                   exhausted, stopping, disk, got, admitted, crashes>>

SetFault ==
    /\ pc = "setfault"
    /\ fault' = TRUE
    /\ pc' = "drain"
    /\ UNCHANGED <<batch, lsns, done, nextLsn, lastDurable, hasFile, unsynced, queue,
                   exhausted, stopping, disk, caller, admitted, crashes>>

DrainQueue ==
    /\ pc = "drain"
    /\ FailTickets(Elements(queue))
    /\ queue' = <<>>
    /\ hasFile' = FALSE
    /\ pc' = "idle"
    /\ UNCHANGED <<batch, lsns, done, nextLsn, lastDurable, unsynced, fault, exhausted,
                   stopping, disk, got, admitted, crashes>>

-----------------------------------------------------------------------------
(* Crashes.  Memory is lost with the process; a power loss also takes what  *)
(* was not on stable storage.                                               *)

MemoryLost ==
    /\ pc # "down" /\ crashes < MaxCrash
    /\ crashes' = crashes + 1
    /\ pc' = "down"
    /\ queue' = <<>> /\ batch' = <<>> /\ lsns' = <<>> /\ done' = 0
    /\ nextLsn' = 1 /\ lastDurable' = 0
    /\ fault' = FALSE /\ exhausted' = FALSE /\ stopping' = FALSE
    /\ hasFile' = FALSE /\ unsynced' = FALSE
    /\ outcome' = [t \in Ticket |-> IF outcome[t] = "pending" THEN "lost" ELSE outcome[t]]
    /\ UNCHANGED <<got, admitted>>

Least(a, b) == IF a < b THEN a ELSE b

(* What survives a power loss for certain.                                  *)
StableCount == IF csynced < split THEN csynced ELSE synced

KilledProcess ==
    /\ MemoryLost
    /\ tornAt' \in IF MoreToWrite /\ hasFile THEN {tornAt, Len(log)} ELSE {tornAt}
    /\ UNCHANGED <<log, synced, files>>

(* The active file survives, or there is none.  A file never synced may     *)
(* have lost its header, and all its records with it.                       *)
PowerLoss ==
    /\ MemoryLost
    /\ \E n \in StableCount..Len(log), h \in {header, header /\ stable} :
         /\ header /\ ~h => n <= split
         /\ log' = SubSeq(log, 1, n)
         /\ synced' = n
         /\ csynced' = Least(csynced, n)
         /\ header' = h
         /\ tornAt' \in IF activeName = 0 THEN {NoTear} ELSE {NoTear, n}
    /\ stable' = (activeName # 0)
    /\ renamed' = 0
    /\ UNCHANGED <<split, activeName>>

(* The name of the active file was not on stable storage yet.               *)
PowerLossNoFile ==
    /\ MemoryLost
    /\ activeName # 0
    /\ stable => ~LinkOnDataSync
    /\ \E n \in Least(StableCount, split)..split :
         /\ log' = SubSeq(log, 1, n)
         /\ synced' = n
         /\ csynced' = Least(csynced, n)
    /\ activeName' = 0 /\ header' = FALSE /\ stable' = FALSE
    /\ tornAt' = NoTear /\ renamed' = 0
    /\ UNCHANGED split

(* The rename of the last closed segment is undone; a file created after it *)
(* is gone as well.                                                         *)
PowerLossUndoRename ==
    /\ MemoryLost
    /\ renamed # 0 /\ ~stable /\ csynced = split
    /\ log' = SubSeq(log, 1, split)
    /\ synced' = split
    /\ split' = renamed - 1 /\ csynced' = renamed - 1
    /\ activeName' = renamed /\ header' = TRUE /\ stable' = TRUE
    /\ renamed' = 0 /\ tornAt' = NoTear

-----------------------------------------------------------------------------
(* scan_wal_directory() and start().  decode_record() compares the whole    *)
(* body with max_record_bytes where append() compared the payload, so a     *)
(* Large record that was written cannot be read.                            *)

Decodable(i) == log[i].ticket \notin Large /\ (tornAt # NoTear => i <= tornAt)

(* The longest prefix of the records the scan reads.                        *)
Readable ==
    CHOOSE n \in 0..Len(log) :
        /\ \A i \in 1..n : Decodable(i)
        /\ n < Len(log) => ~Decodable(n + 1)

(* The scan fails closed: damage in a closed segment, a header or a record  *)
(* out of sequence, or no LSN after the last one read.                      *)
ScanFails ==
    \/ Readable < split
    \/ activeName # 0 /\ header /\ activeName # split + 1
    \/ \E i \in 1..Readable : log[i].lsn # i \/ i = MaxLsn

StartRefused ==
    /\ pc = "down"
    /\ ScanFails
    /\ pc' = "refused"
    /\ UNCHANGED <<batch, lsns, done, nextLsn, lastDurable, hasFile, unsynced, queue,
                   fault, exhausted, stopping, disk, caller, admitted, crashes>>

(* Mutant: the writer resumes at the last LSN of the scan.                  *)
NextIsLast == Readable

NextAfterScan == Readable + 1

(* start(): trim the tail (the result of truncate_file is not looked at),   *)
(* take the next LSN from the scan, reopen the active file and rewrite its  *)
(* header when it is empty.                                                 *)
Start ==
    /\ pc = "down"
    /\ ~ScanFails
    /\ \E trimmed \in {TRUE, ~TruncateMayFail} :
         /\ log' = IF trimmed THEN SubSeq(log, 1, Readable) ELSE log
         /\ tornAt' = IF trimmed \/ (Readable = Len(log) /\ tornAt = NoTear)
                      THEN NoTear ELSE Readable
         /\ synced' = IF trimmed THEN Least(synced, Readable) ELSE synced
         /\ header' = (activeName # 0 /\ (header \/ trimmed \/ tornAt = NoTear))
    /\ stable' = (stable /\ header)
    /\ nextLsn' = NextAfterScan
    /\ lastDurable' = Readable
    /\ hasFile' = (activeName # 0)
    /\ pc' = "idle"
    /\ UNCHANGED <<batch, lsns, done, unsynced, queue, fault, exhausted, stopping,
                   split, csynced, activeName, renamed, caller, admitted, crashes>>

-----------------------------------------------------------------------------
Init ==
    /\ pc = "down"
    /\ queue = <<>> /\ batch = <<>> /\ lsns = <<>> /\ done = 0
    /\ nextLsn = 1 /\ lastDurable = 0
    /\ fault = FALSE /\ exhausted = FALSE /\ stopping = FALSE
    /\ hasFile = FALSE /\ unsynced = FALSE
    /\ log = <<>> /\ split = 0 /\ csynced = 0 /\ synced = 0
    /\ activeName = 0 /\ header = FALSE /\ stable = FALSE
    /\ tornAt = NoTear /\ renamed = 0
    /\ outcome = [t \in Ticket |-> "new"] /\ got = [t \in Ticket |-> 0]
    /\ admitted = <<>> /\ crashes = 0

CallerStep == Shutdown \/ \E t \in Ticket : AppendOk(t) \/ AppendRefused(t)

WorkerStep ==
    \/ TakeOne \/ CloseBatch \/ WorkerExit
    \/ CreateSegment \/ WriteHeader \/ WriteRecord \/ EndWrites \/ SyncBatch
    \/ RotateSync \/ RotateRename \/ RotateSyncDir
    \/ IoError \/ Fulfil \/ FinishBatch
    \/ FailBatch \/ SetFault \/ DrainQueue

Crash == KilledProcess \/ PowerLoss \/ PowerLossNoFile \/ PowerLossUndoRename

Next == CallerStep \/ WorkerStep \/ Crash \/ Start \/ StartRefused

Spec == Init /\ [][Next]_vars

(* The operating system schedules the worker thread, and its file calls     *)
(* return.  Nothing obliges a caller, a crash or a restart to happen.       *)
FairSpec == Spec /\ WF_vars(WorkerStep)

-----------------------------------------------------------------------------
(* Properties.                                                              *)

TypeOK ==
    /\ pc \in {"down", "refused", "idle", "collect", "write", "header", "rename",
               "dirsync", "sync", "fulfil", "fail", "setfault", "drain", "stopped"}
    /\ queue \in Seq(Ticket) /\ batch \in Seq(Ticket) /\ lsns \in Seq(Nat)
    /\ done \in Nat /\ nextLsn \in Nat /\ lastDurable \in Nat
    /\ fault \in BOOLEAN /\ exhausted \in BOOLEAN /\ stopping \in BOOLEAN
    /\ hasFile \in BOOLEAN /\ unsynced \in BOOLEAN
    /\ header \in BOOLEAN /\ stable \in BOOLEAN
    /\ log \in Seq(Record)
    /\ split \in Nat /\ csynced \in Nat /\ synced \in Nat
    /\ activeName \in Nat /\ renamed \in Nat /\ tornAt \in Nat \cup {NoTear}
    /\ outcome \in [Ticket -> {"new", "pending", "durable", "relaxed", "failed",
                               "refused", "lost"}]
    /\ got \in [Ticket -> Nat]
    /\ admitted \in Seq(Ticket) /\ crashes \in Nat

(* The LSN space has been used up.                                          *)
LsnsLeft == Len(log) < MaxLsn

(* A caller that was told durable_accepted finds its record at the LSN it   *)
(* was given in everything a later scan reads, through kills, power losses, *)
(* failed writes, rotations and restarts.  Durable promise of AppendTicket. *)
DurableStays ==
    LsnsLeft => \A t \in Ticket :
        outcome[t] = "durable" => /\ got[t] \in 1..Readable
                                  /\ log[got[t]].ticket = t

(* LSNs follow the order in which append() calls entered the queue, also    *)
(* over restarts: group commit and completion order never reorder them.     *)
LsnsFollowAdmission ==
    LsnsLeft => \A i, j \in 1..Len(admitted) :
        /\ i < j
        /\ outcome[admitted[i]] = "durable" /\ outcome[admitted[j]] = "durable"
        => got[admitted[i]] < got[admitted[j]]

(* Whatever crash interrupts the writer, the next start() finds a directory *)
(* it accepts: only the active tail is ever damaged.                        *)
RestartAccepts == LsnsLeft => pc # "refused"

(* Every accepted append gets an answer: through faults, a full queue and   *)
(* shutdown, no ticket is left waiting for ever.                            *)
EveryTicketEnds == \A t \in Ticket : (outcome[t] = "pending") ~> (outcome[t] # "pending")

(* The inductive strengthening of DurableStays and RestartAccepts, for a    *)
(* disk that LinkOnDataSync describes, a truncate_file that works and no    *)
(* Large record.                                                            *)
Working == pc \in {"idle", "collect", "write", "header", "rename", "dirsync", "sync", "fulfil"}
InBatch == pc \in {"write", "header", "rename", "dirsync", "sync", "fulfil"}

(* Only the active tail is unsynced, and garbage only follows the last record.*)
DiskInv ==
    /\ tornAt \in {NoTear, Len(log)}
    /\ csynced = split /\ split <= synced /\ synced <= Len(log)
    /\ ~(stable /\ header) => synced = split
    /\ ~header => Len(log) = split
    /\ activeName = 0 => ~header
    /\ activeName # 0 => /\ activeName <= split + 1
                         /\ split < MaxLsn => activeName = split + 1
    /\ renamed <= split
    /\ \A i \in 1..Len(log) : i <= MaxLsn => log[i].lsn = i

(* The worker's view of the disk.                                           *)
WriterInv ==
    /\ InBatch => ~fault
    /\ pc = "drain" => fault
    /\ Working /\ ~fault =>
         /\ tornAt = NoTear
         /\ nextLsn = Least(Len(log) + 1, MaxLsn)
         /\ pc \notin {"header", "dirsync"} => hasFile = header
    /\ pc = "header" => ~header /\ activeName # 0
    /\ pc \in {"rename", "dirsync"} => synced = Len(log)
    /\ pc = "rename" => header /\ stable /\ split < Len(log)
    /\ pc = "dirsync" => ~header
    /\ pc = "refused" => ~LsnsLeft

(* When a batch has been written, each of its records has its LSN.          *)
LsnsMatch == pc \in {"sync", "fulfil"} => Len(lsns) = Len(batch)

(* The records written for the batch are where lsns says.                   *)
BatchInv ==
    /\ IF pc = "fulfil" THEN done <= Len(batch) ELSE done = 0
    /\ ~InBatch /\ pc # "fail" => lsns = <<>>
    /\ InBatch => Len(lsns) <= Len(batch)
    /\ LsnsMatch
    /\ InBatch => \A i \in 1..Len(lsns) :
         /\ lsns[i] \in 1..Len(log)
         /\ lsns[i] < MaxLsn => log[lsns[i]].ticket = batch[i]
    /\ pc = "fulfil" /\ Durables # {} => synced = Len(log)

(* What was promised is on stable storage.                                  *)
PromiseInv ==
    \A t \in Ticket : outcome[t] = "durable" =>
        /\ got[t] \in 1..synced
        /\ got[t] < MaxLsn => log[got[t]].ticket = t

WalInv == TypeOK /\ DiskInv /\ WriterInv /\ BatchInv /\ PromiseInv

(* The order of the records.  What the worker and the queue hold is the end *)
(* of the sequence of accepted calls, of which the first Past are over.     *)
Past == Len(admitted) - Len(batch) - Len(queue)

QueueInv ==
    /\ Past \in Nat
    /\ ~InBatch /\ pc \notin {"collect", "fail"} => batch = <<>>
    /\ \A i \in 1..Len(batch) : batch[i] = admitted[Past + i]
    /\ \A i \in 1..Len(queue) : queue[i] = admitted[Past + Len(batch) + i]
    /\ \A i, j \in 1..Len(admitted) : admitted[i] = admitted[j] => i = j
    /\ \A i \in 1..Len(admitted) :
          IF i <= Past + done THEN outcome[admitted[i]] \notin {"new", "pending"}
                              ELSE outcome[admitted[i]] = "pending"

(* No call is written twice, none before its turn.                          *)
LogInv ==
    /\ Len(lsns) <= Len(batch)
    /\ \A i \in 1..Len(log) : outcome[log[i].ticket] # "new"
    /\ \A i, j \in 1..Len(log) : log[i].ticket = log[j].ticket => i = j
    /\ \A i \in 1..Len(log), j \in 1..Len(admitted) :
          j > Past + Len(lsns) => log[i].ticket # admitted[j]

(* The records of the batch are the last ones of the log, behind every      *)
(* record promised before; promises follow the order of the calls.          *)
Written == Len(log) - Len(lsns)

PromiseOrder ==
    /\ InBatch =>
          /\ Written \in Nat
          /\ \A i \in 1..Len(lsns) : /\ lsns[i] = Least(Written + i, MaxLsn)
                                     /\ log[Written + i].ticket = batch[i]
          /\ \A i \in 1..Past : outcome[admitted[i]] = "durable" => got[admitted[i]] <= Written
          /\ \A i \in 1..done : outcome[batch[i]] = "durable" => got[batch[i]] = lsns[i]
    /\ \A i, j \in 1..Len(admitted) :
          /\ i < j /\ got[admitted[j]] < MaxLsn
          /\ outcome[admitted[i]] = "durable" /\ outcome[admitted[j]] = "durable"
          => got[admitted[i]] < got[admitted[j]]

OrderInv == WalInv /\ QueueInv /\ LogInv /\ PromiseOrder

(* The writer implements the log its callers rely on.  An abstract promise  *)
(* is a ticket fulfilled with durable_accepted; the content is what the     *)
(* next scan would read.                                                    *)
Promised == [t \in Ticket |-> IF outcome[t] = "durable" THEN got[t] ELSE 0]
Content  == [i \in 1..Readable |-> log[i].ticket]

Abstract == INSTANCE DurableLog WITH content <- Content, promised <- Promised

ImplementsDurableLog == Abstract!Spec

(* last_durable_lsn() names a record that a power loss cannot take.         *)
LastDurableIsStable == lastDurable <= StableCount
=============================================================================
