-------------------------- MODULE CheckpointStore --------------------------
(***************************************************************************)
(* The checkpoint directory of one branch: a publication in the background *)
(* of a running daemon (data, then manifest, each by a rename and a        *)
(* directory sync, then verification, retention and pruning of the WAL),   *)
(* forks made by gw-replay beside it, kills, power losses, failing reads   *)
(* and removals, and the recovery point the next start chooses.            *)
(*                                                                         *)
(* Data abstraction.  A publication is named by the generation suffix of   *)
(* its two files, so no file is ever overwritten; what a checkpoint holds  *)
(* is its anchor.  Temporary files are never read and are left out.  The   *)
(* WAL is its records 1..last and the first LSNs of its segments; what a   *)
(* crash does to the newest records and segment is WalWriter's subject.    *)
(***************************************************************************)
EXTENDS Integers, FiniteSets, FiniteSetsExt

CONSTANTS
    MaxGen,         \* bound of the model: publications
    MaxLsn,         \* bound of the model: records
    Child,          \* branches forked from this one
    Keep,           \* CheckpointConfig.keep_last_checkpoints
    PruneWal,       \* CheckpointConfig.prune_wal_after_publish
    ForkWhileLive,  \* does gw-replay fork while the daemon publishes?
    IoFails,        \* bound of the model: failing file operations
    Rots,           \* bound of the model: pairs that stop being readable
    Stops           \* bound of the model: kills and power losses

ASSUME StoreConstants ==
    /\ MaxGen \in Nat /\ MaxLsn \in Nat /\ Keep \in Nat \ {0}
    /\ PruneWal \in BOOLEAN /\ ForkWhileLive \in BOOLEAN
    /\ IoFails \in Nat /\ Rots \in Nat /\ Stops \in Nat

Gen == 1..MaxGen

VARIABLES
    up,            \* a daemon runs on this directory
    tick,          \* ticks completed since the world began, as the daemon counts
    included,      \* what the next capture reports as included_lsn
    last,          \* last record of the WAL
    cuts,          \* history: the first LSN of every segment ever started
    segs,          \* the segments that exist
    segsS,         \* the same as of the last sync of the WAL directory
    pc, gen,       \* the publication in progress
    anchor,        \* generation -> [tick, lsn]
    data, man,     \* generations whose files are in the directory
    dataS, manS,   \* the same as of the last directory sync
    rotten,        \* generations a read of which fails
    listed, pins,  \* what retention works from
    victim,        \* the generation retention is removing, 0 between two
    doomed,        \* the segments pruning has still to remove
    fork,          \* child -> generation its manifest names, 0 before
    choosing,      \* child -> generation gw-replay chose, 0 when it does not run
    reported,      \* history: the best tick publish() returned success for
    fails, rots, stops

wal   == <<last, cuts, segs, segsS>>
files == <<data, man, dataS, manS>>
plan  == <<pc, gen, listed, pins, victim, doomed>>
forks == <<fork, choosing>>
other == <<reported, fails, rots, stops>>
vars  == <<up, tick, included, wal, plan, anchor, files, rotten, forks, other>>

Init ==
    /\ up = TRUE /\ tick = 0 /\ included = 0
    /\ last = 0 /\ cuts = {1} /\ segs = {1} /\ segsS = {1}
    /\ pc = "idle" /\ gen = 0 /\ listed = {} /\ pins = {} /\ victim = 0 /\ doomed = {}
    /\ anchor = [g \in Gen |-> [tick |-> 0, lsn |-> 0]]
    /\ data = {} /\ man = {} /\ dataS = {} /\ manS = {} /\ rotten = {}
    /\ fork = [c \in Child |-> 0] /\ choosing = [c \in Child |-> 0]
    /\ reported = 0 /\ fails = 0 /\ rots = 0 /\ stops = 0

(* verify_checkpoint_pair() succeeds: lengths, checksums, anchors and      *)
(* provider schemas agree, which only an unreadable file can break here.   *)
Complete(g) == g \in man /\ g \in data /\ g \notin rotten

-----------------------------------------------------------------------------
(* What the daemon does meanwhile.                                         *)

(* The writer commits a record, in a new segment when it rotates, which    *)
(* syncs the directory.                                                    *)
Commit(rotate) ==
    /\ up /\ last < MaxLsn
    /\ last' = last + 1
    /\ IF rotate
       THEN cuts' = cuts \cup {last + 1} /\ segs' = segs \cup {last + 1} /\ segsS' = segs'
       ELSE UNCHANGED <<cuts, segs, segsS>>
    /\ UNCHANGED <<up, tick, included, plan, anchor, files, rotten, forks, other>>

(* CheckpointCoordinator::capture at a tick boundary, when the publication *)
(* before it has ended: the clock moved, delivery reached some record.     *)
Capture(lsn) ==
    /\ up /\ pc = "idle" /\ gen < MaxGen
    /\ lsn \in included..last
    /\ ForkWhileLive \/ \A c \in Child : choosing[c] = 0
    /\ tick' = tick + 1
    /\ included' = lsn
    /\ gen' = gen + 1
    /\ anchor' = [anchor EXCEPT ![gen + 1] = [tick |-> tick + 1, lsn |-> lsn]]
    /\ pc' = "data"
    /\ UNCHANGED <<up, wal, listed, pins, victim, doomed, files, rotten, forks, other>>

-----------------------------------------------------------------------------
(* CheckpointCoordinator::publish, in the background.                      *)

Step(from, to) == up /\ pc = from /\ pc' = to

(* atomic_publish: rename of the temporary file, then the directory sync.  *)
NameData ==
    /\ Step("data", "data_sync")
    /\ data' = data \cup {gen}
    /\ UNCHANGED <<up, tick, included, wal, gen, listed, pins, victim, doomed, anchor, man,
                   dataS, manS, rotten, forks, other>>

SyncDirectory == dataS' = data /\ manS' = man /\ UNCHANGED <<data, man>>

SyncData ==
    /\ Step("data_sync", "manifest")
    /\ SyncDirectory
    /\ UNCHANGED <<up, tick, included, wal, gen, listed, pins, victim, doomed, anchor, rotten,
                   forks, other>>

NameManifest ==
    /\ Step("manifest", "manifest_sync")
    /\ man' = man \cup {gen}
    /\ UNCHANGED <<up, tick, included, wal, gen, listed, pins, victim, doomed, anchor, data,
                   dataS, manS, rotten, forks, other>>

SyncManifest ==
    /\ Step("manifest_sync", "verify")
    /\ SyncDirectory
    /\ UNCHANGED <<up, tick, included, wal, gen, listed, pins, victim, doomed, anchor, rotten,
                   forks, other>>

(* A file operation of atomic_publish fails: publish() gives up.  When it  *)
(* is the manifest's, the data file is removed, although the name of the   *)
(* manifest may already be there.                                          *)
PublishFails ==
    /\ up /\ pc \in {"data", "data_sync", "manifest", "manifest_sync"}
    /\ fails < IoFails
    /\ fails' = fails + 1
    /\ pc' = "idle"
    /\ data' = IF pc \in {"manifest", "manifest_sync"} THEN data \ {gen} ELSE data
    /\ UNCHANGED <<up, tick, included, wal, gen, listed, pins, victim, doomed, anchor, man, dataS,
                   manS, rotten, forks, reported, rots, stops>>

(* The pair is opened again; then every manifest is listed and the pins of *)
(* all branches are read, once.                                            *)
Pinned == {fork[c] : c \in Child} \ {0}

Verify ==
    /\ up /\ pc = "verify"
    /\ IF Complete(gen)
       THEN /\ pc' = "retain" /\ listed' = man /\ pins' = Pinned
            /\ reported' = Max({reported, anchor[gen].tick})
       ELSE pc' = "idle" /\ UNCHANGED <<listed, pins, reported>>
    /\ UNCHANGED <<up, tick, included, wal, gen, victim, doomed, anchor, files, rotten,
                   forks, fails, rots, stops>>

(* Mutant: the pins of branches are not looked at.                         *)
UnpinnedToo == {g \in listed : g # gen}

(* The oldest manifest that may go; equal ticks are in any order.          *)
Removable == {g \in listed : g # gen /\ g \notin pins}
Oldest    == {g \in Removable : \A h \in Removable : anchor[g].tick <= anchor[h].tick}

(* Its data goes first (when the pair is complete), then the manifest.  A  *)
(* removal that fails is passed over.                                      *)
Removal(fails_) == fails' = fails + (IF fails_ THEN 1 ELSE 0) /\ fails' <= IoFails

RetireData(g, fails_) ==
    /\ up /\ pc = "retain" /\ Cardinality(listed) > Keep
    /\ g \in Oldest
    /\ Removal(fails_)
    /\ data' = IF ~fails_ /\ Complete(g) THEN data \ {g} ELSE data
    /\ victim' = g
    /\ pc' = "unlink"
    /\ UNCHANGED <<up, tick, included, wal, gen, listed, pins, doomed, anchor, man, dataS, manS,
                   rotten, forks, reported, rots, stops>>

RetireManifest(fails_) ==
    /\ Step("unlink", "retain")
    /\ Removal(fails_)
    /\ man' = IF fails_ THEN man ELSE man \ {victim}
    /\ listed' = listed \ {victim}
    /\ victim' = 0
    /\ UNCHANGED <<up, tick, included, wal, gen, pins, doomed, anchor, data, dataS, manS, rotten,
                   forks, reported, rots, stops>>

(* Mutant: a segment goes when its last record but one is covered.         *)
NearlyCovered(s) ==
    \E t \in segs : t > s /\ (\A u \in segs : u <= s \/ u >= t) /\ t - 2 <= anchor[gen].lsn

(* prune_covered_segments: a segment whose successor exists and starts no  *)
(* later than the record after included_lsn.                               *)
Covered(s) ==
    \E t \in segs : t > s /\ (\A u \in segs : u <= s \/ u >= t) /\ t - 1 <= anchor[gen].lsn

(* What pruning will remove is settled by one listing of the directory; a  *)
(* listing that fails ends it.                                             *)
EndRetention(fails_) ==
    /\ up /\ pc = "retain"
    /\ Cardinality(listed) <= Keep \/ Removable = {}
    /\ pc' = IF PruneWal THEN "prune" ELSE "idle"
    /\ listed' = {} /\ pins' = {}
    /\ fails_ => PruneWal /\ anchor[gen].lsn # 0
    /\ Removal(fails_)
    /\ doomed' = IF PruneWal /\ anchor[gen].lsn # 0 /\ ~fails_
                 THEN {s \in segs : Covered(s)} ELSE {}
    /\ UNCHANGED <<up, tick, included, wal, gen, victim, anchor, files, rotten, forks, reported,
                   rots, stops>>

(* In order of the first LSN.  A removal that fails is passed over and the *)
(* next segment is removed: the log may be left with a hole.               *)
PruneOne(fails_) ==
    /\ up /\ pc = "prune" /\ doomed # {}
    /\ Removal(fails_)
    /\ segs' = IF fails_ THEN segs ELSE segs \ {Min(doomed)}
    /\ doomed' = doomed \ {Min(doomed)}
    /\ UNCHANGED <<up, tick, included, last, cuts, segsS, pc, gen, listed, pins, victim, anchor,
                   files, rotten, forks, reported, rots, stops>>

EndPrune ==
    /\ Step("prune", "idle")
    /\ doomed = {}
    /\ UNCHANGED <<up, tick, included, wal, gen, listed, pins, victim, doomed, anchor, files,
                   rotten, forks, other>>

-----------------------------------------------------------------------------
(* gw-replay fork: fork_branch_at_checkpoint of any listed valid pair, the *)
(* child's directories, then its manifest by an atomic publication.        *)
ChooseBase(c, g) ==
    /\ ForkWhileLive \/ pc = "idle"
    /\ fork[c] = 0 /\ choosing[c] = 0
    /\ Complete(g)
    /\ choosing' = [choosing EXCEPT ![c] = g]
    /\ UNCHANGED <<up, tick, included, wal, plan, anchor, files, rotten, fork, other>>

PublishFork(c) ==
    /\ ForkWhileLive \/ pc = "idle"
    /\ choosing[c] # 0
    /\ fork' = [fork EXCEPT ![c] = choosing[c]]
    /\ choosing' = [choosing EXCEPT ![c] = 0]
    /\ UNCHANGED <<up, tick, included, wal, plan, anchor, files, rotten, other>>

(* The tool fails or is stopped before its manifest.                       *)
ForkFails(c) ==
    /\ choosing[c] # 0
    /\ choosing' = [choosing EXCEPT ![c] = 0]
    /\ UNCHANGED <<up, tick, included, wal, plan, anchor, files, rotten, fork, other>>

-----------------------------------------------------------------------------
(* Faults.                                                                 *)

(* A file of a pair can no longer be read as it was written.               *)
Rot(g) ==
    /\ rots < Rots /\ g \in data \cup man /\ g \notin rotten
    /\ rotten' = rotten \cup {g}
    /\ rots' = rots + 1
    /\ UNCHANGED <<up, tick, included, wal, plan, anchor, files, forks, reported, fails, stops>>

Down ==
    /\ up /\ stops < Stops
    /\ up' = FALSE
    /\ stops' = stops + 1
    /\ pc' = "idle" /\ listed' = {} /\ pins' = {} /\ victim' = 0 /\ doomed' = {}

Kill ==
    /\ Down
    /\ UNCHANGED <<tick, included, wal, gen, anchor, files, rotten, forks, reported, fails,
                   rots>>

(* A power loss: every name changed since the last sync of its directory   *)
(* may be the old or the new one; w are the pruned segments that return,   *)
(* for nothing syncs the WAL directory after a removal but a rotation.     *)
PowerLoss(d, m, w) ==
    /\ Down
    /\ d \in SUBSET (data \cup dataS) /\ data \cap dataS \subseteq d
    /\ m \in SUBSET (man \cup manS) /\ man \cap manS \subseteq m
    /\ data' = d /\ dataS' = d /\ man' = m /\ manS' = m
    /\ w \subseteq segsS \ segs
    /\ segs' = segs \cup w /\ segsS' = segs'
    /\ UNCHANGED <<tick, included, last, cuts, gen, anchor, rotten, forks, reported, fails, rots>>

-----------------------------------------------------------------------------
(* RecoveryPlanner::build.                                                 *)

Candidates == {g \in Gen : Complete(g)}
Latest     == {g \in Candidates : \A h \in Candidates : anchor[h].tick <= anchor[g].tick}

(* The records a scan that starts at the first segment reads, provided no  *)
(* segment is missing in between.                                          *)
Contiguous == segs # {} => {c \in cuts : c >= Min(segs)} \subseteq segs
FirstLsn   == IF segs = {} THEN 0 ELSE Min(segs)

(* Mutant: build() does not compare the first segment with the checkpoint. *)
AnyStart(lsn) == Contiguous /\ (FirstLsn # 0 /\ last >= FirstLsn => lsn <= last)

StartsFrom(lsn) ==
    /\ Contiguous
    /\ FirstLsn # 0 => FirstLsn <= lsn + 1
    /\ FirstLsn # 0 /\ last >= FirstLsn => lsn <= last

StartsAnew == Contiguous /\ FirstLsn \in {0, 1}

Accepts == IF Candidates = {} THEN StartsAnew ELSE \A g \in Latest : StartsFrom(anchor[g].lsn)

(* The checkpoint is restored and the records after it are replayed.       *)
RestartFrom(g) ==
    /\ ~up /\ g \in Latest /\ StartsFrom(anchor[g].lsn)
    /\ up' = TRUE
    /\ tick' = anchor[g].tick
    /\ included' = anchor[g].lsn
    /\ UNCHANGED <<wal, plan, anchor, files, rotten, forks, other>>

RestartAnew ==
    /\ ~up /\ Candidates = {} /\ StartsAnew
    /\ up' = TRUE /\ tick' = 0 /\ included' = 0
    /\ UNCHANGED <<wal, plan, anchor, files, rotten, forks, other>>

Next ==
    \/ \E rotate \in BOOLEAN : Commit(rotate)
    \/ \E l \in 0..MaxLsn : Capture(l)
    \/ NameData \/ SyncData \/ NameManifest \/ SyncManifest \/ PublishFails \/ Verify
    \/ \E f \in BOOLEAN : RetireManifest(f) \/ \E g \in Gen : RetireData(g, f)
    \/ \E f \in BOOLEAN : EndRetention(f) \/ PruneOne(f)
    \/ EndPrune
    \/ \E c \in Child : PublishFork(c) \/ ForkFails(c) \/ \E g \in Gen : ChooseBase(c, g)
    \/ \E g \in Gen : Rot(g)
    \/ Kill
    \/ \E d, m \in SUBSET Gen : \E w \in SUBSET segsS : PowerLoss(d, m, w)
    \/ RestartAnew \/ \E g \in Gen : RestartFrom(g)

Spec == Init /\ [][Next]_vars

-----------------------------------------------------------------------------
At == {"idle", "data", "data_sync", "manifest", "manifest_sync", "verify", "retain",
       "unlink", "prune"}

(* Types of the publication, the directory and the recovery's inputs.      *)
TypeOK ==
    /\ up \in BOOLEAN /\ pc \in At /\ gen \in 0..MaxGen /\ victim \in 0..MaxGen
    /\ tick \in Nat /\ included \in 0..last /\ last \in 0..MaxLsn
    /\ doomed \subseteq segs /\ segs \subseteq segsS
    /\ segsS \subseteq cuts /\ cuts \subseteq Nat \ {0}
    /\ anchor \in [Gen -> [tick : Nat, lsn : 0..MaxLsn]]
    /\ data \subseteq Gen /\ man \subseteq Gen /\ dataS \subseteq Gen /\ manS \subseteq Gen
    /\ rotten \subseteq Gen /\ listed \subseteq Gen /\ pins \subseteq Gen
    /\ fork \in [Child -> 0..MaxGen] /\ choosing \in [Child -> 0..MaxGen]

(* The segment that was started for record l exists.                       *)
Inside(l) == \E s \in segs : s <= l /\ \A c \in cuts : c <= s \/ c > l

(* Every record after n can be read, and so can the next one to come.      *)
Held(n) == \A l \in (n + 1)..(last + 1) : Inside(l)

(* Whatever stops the daemon and whichever removals fail: as long as every *)
(* pair can be read, the only thing that can keep the next start from its  *)
(* latest checkpoint is a hole, and that checkpoint is not older than the  *)
(* best one publish() reported and has every record behind it (publish():  *)
(* data before manifest, verification before retention, the new pair never *)
(* removed; prune_covered_segments; RecoveryPlanner::build).               *)
ReportedIsKept ==
    rots = 0 =>
        /\ Contiguous => Accepts
        /\ reported > 0 => Latest # {} /\ \A g \in Latest : /\ anchor[g].tick >= reported
                                                          /\ Held(anchor[g].lsn)

(* Stronger, and false: a removal that failed, or that a power loss took   *)
(* back, leaves an older segment beyond a hole of records no checkpoint    *)
(* needs, and scan_wal_directory refuses the whole directory for it.       *)
NeverRefused == rots = 0 => Accepts

(* A start that is accepted replays every record after its checkpoint,     *)
(* also when it must fall back to an older pair whose records may have     *)
(* been pruned (prune_covered_segments against the checks of build()).     *)
NothingSkipped ==
    /\ \A g \in Latest : StartsFrom(anchor[g].lsn) =>
          \A l \in (anchor[g].lsn + 1)..last : Inside(l)
    /\ Candidates = {} /\ StartsAnew => \A l \in 1..last : Inside(l)

(* A running daemon never takes away the checkpoint a branch was forked    *)
(* from (publish(), pinned_checkpoints).  A power loss may: gw-replay, like *)
(* a restart, trusts a name that no directory sync covered yet.            *)
BaseStays ==
    [][up /\ up' => \A c \in Child : fork[c] \in data \cap man => fork[c] \in data' \cap man']_vars

(* What the proofs need: how the properties above are kept.                *)
Publishing == pc \in {"data", "data_sync", "manifest", "manifest_sync", "verify"}
Retaining  == pc \in {"retain", "unlink", "prune"}

(* The newest segment stays; pruning removes what ends before the record    *)
(* behind the checkpoint it follows.                                       *)
SegInv ==
    /\ 1 \in cuts /\ cuts \subseteq 1..(last + 1)
    /\ \E s \in segs : \A c \in cuts : c <= s
    /\ doomed # {} => pc = "prune"
    /\ \A s \in doomed : \E t \in cuts : s < t /\ t - 1 <= anchor[gen].lsn

(* Files belong to publications that have begun.                           *)
DirInv ==
    /\ data \cup man \cup dataS \cup manS \subseteq 1..gen
    /\ tick <= gen /\ \A g \in Gen : anchor[g].lsn <= last /\ anchor[g].tick <= gen
    /\ pc # "idle" => up /\ gen # 0 /\ tick # 0 /\ anchor[gen] = [tick |-> tick, lsn |-> included]
    /\ pc = "verify" => dataS = data /\ manS = man
    /\ pc = "unlink" => victim # gen /\ victim \notin pins
    /\ rots = 0 => rotten = {}

(* A fork was made of a publication before the one in progress, and         *)
(* retention knows of it.                                                  *)
ForkInv ==
    /\ \A c \in Child : fork[c] \in 0..gen /\ choosing[c] \in 0..gen
    /\ Publishing => \A c \in Child : fork[c] # gen
    /\ pc # "idle" => \A c \in Child : choosing[c] = 0
    /\ pc \in {"retain", "unlink"} => pins = Pinned

(* A pair that is complete whatever a power loss does, not older than what *)
(* was reported, whose records are all in the WAL, and such that no newer  *)
(* pair that may turn up, now or after a crash, needs an older record.     *)
Possible == (data \cup dataS) \cap (man \cup manS)

Best(b) ==
    /\ b \in data \cap dataS \cap man \cap manS
    /\ anchor[b].tick >= reported
    /\ Held(anchor[b].lsn)
    /\ \A h \in Possible : anchor[h].tick >= anchor[b].tick => anchor[h].lsn >= anchor[b].lsn
    /\ up => tick >= anchor[b].tick /\ included >= anchor[b].lsn
    /\ Publishing => b # gen
    /\ Retaining => b = gen

(* While every file can be read: the daemon is ahead of every pair, and    *)
(* either nothing was reported and nothing removed, or there is a best pair.*)
BestInv ==
    rots = 0 =>
        /\ up => \A h \in data \cap man :
                    /\ anchor[h].tick <= tick
                    /\ Publishing /\ h # gen => anchor[h].tick < tick
        /\ reported = 0 => segs = cuts /\ ~Retaining
        /\ reported > 0 => \E b \in Gen : Best(b)

StoreInv == TypeOK /\ reported \in Nat /\ rots \in Nat /\ SegInv /\ DirInv /\ BestInv
=============================================================================
