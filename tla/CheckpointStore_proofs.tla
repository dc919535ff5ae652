----------------------- MODULE CheckpointStore_proofs -----------------------
(***************************************************************************)
(* Proofs about CheckpointStore: what publish() reported is recovered, no  *)
(* accepted start skips a record, and a fork keeps its base, for any       *)
(* number of publications, records, faults, stops and branches.            *)
(***************************************************************************)
EXTENDS CheckpointStore, WellFoundedInduction, TLAPS

-----------------------------------------------------------------------------
(* Least and greatest elements.                                            *)

LEMMA MinIsLeast ==
    ASSUME NEW S \in SUBSET Nat, S # {}
    PROVE  Min(S) \in S /\ \A x \in S : Min(S) <= x
<1> DEFINE R == {ss \in Nat \X Nat : ss[1] < ss[2]}
<1>1. IsWellFoundedOn(R, Nat)
  BY NatLessThanWellFounded DEF OpToRel
<1>2. PICK m \in S : \A x \in S : ~(<<x, m>> \in R)
  <2> HIDE DEF R
  <2> QED
    BY <1>1, WFMin
<1>3. \A x \in S : m <= x
  <2> SUFFICES ASSUME NEW x \in S PROVE m <= x
    OBVIOUS
  <2>1. x \in Nat /\ m \in Nat
    OBVIOUS
  <2>2. x < m => <<x, m>> \in R
    BY <2>1
  <2> QED
    BY <1>2, <2>1, <2>2
<1> QED
  BY <1>3 DEF Min

LEMMA HasGreatest ==
    ASSUME NEW n \in Nat, NEW S \in SUBSET (0..n), S # {}
    PROVE  \E m \in S : \A x \in S : x <= m
<1> DEFINE T == {n - x : x \in S}
<1>1. T \in SUBSET Nat /\ T # {}
  <2>1. \A x \in S : x \in Nat /\ n - x \in Nat
    OBVIOUS
  <2> QED
    BY <2>1
<1>2. Min(T) \in T /\ \A y \in T : Min(T) <= y
  BY <1>1, MinIsLeast
<1>3. PICK m \in S : Min(T) = n - m
  BY <1>2
<1>4. \A x \in S : n - m <= n - x
  BY <1>2, <1>3
<1> QED
  BY <1>4

-----------------------------------------------------------------------------
(* The invariant, conjunct by conjunct.                                    *)

LEMMA TypeStep == StoreInv /\ [Next]_vars => TypeOK' /\ reported' \in Nat /\ rots' \in Nat
<1> SUFFICES ASSUME TypeOK, reported \in Nat, rots \in Nat, DirInv, [Next]_vars
             PROVE  TypeOK' /\ reported' \in Nat /\ rots' \in Nat
  BY DEF StoreInv
<1> USE DEF wal, files, plan, forks, other
<1>0. MaxGen \in Nat /\ MaxLsn \in Nat
  BY StoreConstants
<1>1. ASSUME NEW r \in BOOLEAN, Commit(r) PROVE TypeOK' /\ reported' \in Nat /\ rots' \in Nat
  <2>1. /\ last' \in 0..MaxLsn /\ included \in 0..last'
        /\ doomed' \subseteq segs' /\ segs' \subseteq segsS' /\ segsS' \subseteq cuts'
        /\ cuts' \subseteq Nat \ {0}
    <3>1. /\ last \in Nat /\ last < MaxLsn /\ last' = last + 1 /\ included \in 0..last
          /\ cuts \subseteq Nat \ {0} /\ segsS \subseteq cuts /\ segs \subseteq segsS
          /\ doomed \subseteq segs /\ doomed' = doomed
      BY <1>0, <1>1 DEF Commit, TypeOK
    <3>2. \/ UNCHANGED <<cuts, segs, segsS>>
          \/ cuts' = cuts \cup {last + 1} /\ segs' = segs \cup {last + 1} /\ segsS' = segs'
      BY <1>1 DEF Commit
    <3>3. last + 1 \in Nat \ {0}
      BY <3>1
    <3>4. last' \in 0..MaxLsn /\ included \in 0..last'
      BY <1>0, <3>1
    <3> QED
      BY <3>1, <3>2, <3>3, <3>4
  <2> QED
    BY <1>1, <2>1 DEF Commit, TypeOK
<1>2. ASSUME NEW l \in 0..MaxLsn, Capture(l) PROVE TypeOK' /\ reported' \in Nat /\ rots' \in Nat
  <2>1. gen' \in 0..MaxGen /\ tick' \in Nat /\ pc' \in At /\ included' \in 0..last
    BY <1>0, <1>2 DEF Capture, TypeOK, At
  <2>2. [tick |-> tick + 1, lsn |-> l] \in [tick : Nat, lsn : 0..MaxLsn]
    BY DEF TypeOK
  <2>3. anchor' \in [Gen -> [tick : Nat, lsn : 0..MaxLsn]]
    BY <1>2, <2>2 DEF Capture, TypeOK
  <2> QED
    BY <1>2, <2>1, <2>3 DEF Capture, TypeOK
<1>3. CASE NameData \/ SyncData \/ NameManifest \/ SyncManifest \/ PublishFails
  <2>1. pc # "idle" => gen \in Gen
    BY <1>0 DEF TypeOK, DirInv, Gen
  <2>2. /\ pc # "idle" /\ pc' \in At
        /\ data' \subseteq data \cup {gen} /\ man' \subseteq man \cup {gen}
        /\ dataS' \in {dataS, data} /\ manS' \in {manS, man}
    BY <1>3 DEF NameData, SyncData, NameManifest, SyncManifest, PublishFails, Step, SyncDirectory, At
  <2>3. UNCHANGED <<up, tick, included, wal, gen, listed, pins, victim, doomed, anchor,
                    rotten, forks, reported, rots>>
    BY <1>3 DEF NameData, SyncData, NameManifest, SyncManifest, PublishFails
  <2>4. data' \subseteq Gen /\ man' \subseteq Gen /\ dataS' \subseteq Gen /\ manS' \subseteq Gen
    BY <2>1, <2>2 DEF TypeOK
  <2> QED
    BY <2>2, <2>3, <2>4 DEF TypeOK
<1>4. CASE Verify
  <2>1. pins' \subseteq Gen /\ listed' \subseteq Gen /\ pc' \in At
    <3>1. \A c \in Child : fork[c] \in {0} \cup Gen
      BY <1>0 DEF TypeOK, Gen
    <3> QED
      BY <1>4, <3>1 DEF Verify, Pinned, TypeOK, At
  <2>2. reported' \in Nat
    <3>1. CASE Complete(gen)
      <4>1. anchor[gen].tick \in Nat
        BY <3>1 DEF Complete, TypeOK
      <4>2. Max({reported, anchor[gen].tick}) \in {reported, anchor[gen].tick}
        <5>1. \E x \in {reported, anchor[gen].tick} :
                 \A y \in {reported, anchor[gen].tick} : x >= y
          BY <4>1
        <5> QED
          BY <5>1 DEF Max
      <4> QED
        BY <1>4, <3>1, <4>1, <4>2 DEF Verify
    <3> QED
      BY <1>4, <3>1 DEF Verify
  <2> QED
    BY <1>4, <2>1, <2>2 DEF Verify, TypeOK
<1>5. ASSUME NEW g \in Gen, NEW f \in BOOLEAN, RetireData(g, f)
      PROVE  TypeOK' /\ reported' \in Nat /\ rots' \in Nat
  <2>1. data' \subseteq Gen /\ victim' \in 0..MaxGen /\ pc' \in At
    BY <1>0, <1>5 DEF RetireData, TypeOK, At, Gen
  <2> QED
    BY <1>5, <2>1 DEF RetireData, TypeOK
<1>6. ASSUME NEW f \in BOOLEAN, RetireManifest(f)
      PROVE  TypeOK' /\ reported' \in Nat /\ rots' \in Nat
  <2>1. man' \subseteq Gen /\ listed' \subseteq Gen /\ victim' \in 0..MaxGen /\ pc' \in At
    BY <1>0, <1>6 DEF RetireManifest, Step, TypeOK, At
  <2> QED
    BY <1>6, <2>1 DEF RetireManifest, TypeOK
<1>7. ASSUME NEW f \in BOOLEAN, EndRetention(f) \/ PruneOne(f)
      PROVE  TypeOK' /\ reported' \in Nat /\ rots' \in Nat
  <2>1. CASE EndRetention(f)
    <3>1. listed' \subseteq Gen /\ pins' \subseteq Gen /\ doomed' \subseteq segs /\ pc' \in At
      BY <2>1 DEF EndRetention, At
    <3> QED
      BY <2>1, <3>1 DEF EndRetention, TypeOK
  <2>2. CASE PruneOne(f)
    <3>1. segs' \subseteq segs /\ doomed' \subseteq segs'
      BY <2>2 DEF PruneOne, TypeOK
    <3> QED
      BY <2>2, <3>1 DEF PruneOne, TypeOK
  <2> QED
    BY <1>7, <2>1, <2>2
<1>16. CASE EndPrune
  BY <1>16 DEF EndPrune, Step, TypeOK, At
<1>8. ASSUME NEW c \in Child, PublishFork(c) \/ ForkFails(c) \/ \E g \in Gen : ChooseBase(c, g)
      PROVE  TypeOK' /\ reported' \in Nat /\ rots' \in Nat
  <2>1. fork' \in [Child -> 0..MaxGen] /\ choosing' \in [Child -> 0..MaxGen]
    <3>1. \A g \in Gen \cup {0} : g \in 0..MaxGen
      BY <1>0 DEF Gen
    <3>2. choosing[c] \in 0..MaxGen
      BY DEF TypeOK
    <3> QED
      BY <1>8, <3>1, <3>2 DEF PublishFork, ForkFails, ChooseBase, TypeOK
  <2> QED
    BY <1>8, <2>1 DEF PublishFork, ForkFails, ChooseBase, TypeOK
<1>9. ASSUME NEW g \in Gen, Rot(g) PROVE TypeOK' /\ reported' \in Nat /\ rots' \in Nat
  BY <1>9 DEF Rot, TypeOK
<1>10. ASSUME Down PROVE /\ up' \in BOOLEAN /\ pc' \in At /\ victim' \in 0..MaxGen
                         /\ listed' \subseteq Gen /\ pins' \subseteq Gen /\ doomed' = {}
  <2>1. pc' = "idle" /\ victim' = 0 /\ listed' = {} /\ pins' = {} /\ doomed' = {} /\ up' = FALSE
    BY <1>10 DEF Down
  <2>2. victim' \in 0..MaxGen
    BY <1>0, <2>1
  <2>3. pc' \in At
    BY <2>1 DEF At
  <2> QED
    BY <2>1, <2>2, <2>3
<1>11. CASE Kill
  BY <1>10, <1>11 DEF Kill, TypeOK
<1>12. ASSUME NEW d \in SUBSET Gen, NEW m \in SUBSET Gen, NEW w \in SUBSET segsS,
              PowerLoss(d, m, w)
       PROVE  TypeOK' /\ reported' \in Nat /\ rots' \in Nat
  <2>1. segs' \subseteq segsS /\ segsS' = segs' /\ doomed' = {}
    BY <1>10, <1>12 DEF PowerLoss, TypeOK
  <2> QED
    BY <1>10, <1>12, <2>1 DEF PowerLoss, TypeOK
<1>13. CASE RestartAnew
  <2>1. up' \in BOOLEAN /\ tick' \in Nat /\ included' \in 0..last
    BY <1>0, <1>13 DEF RestartAnew, TypeOK
  <2> QED
    BY <1>13, <2>1 DEF RestartAnew, TypeOK
<1>14. ASSUME NEW g \in Gen, RestartFrom(g) PROVE TypeOK' /\ reported' \in Nat /\ rots' \in Nat
  <2>1. anchor[g].tick \in Nat /\ anchor[g].lsn \in 0..last
    BY <1>0, <1>14 DEF DirInv, TypeOK
  <2> QED
    BY <1>14, <2>1 DEF RestartFrom, TypeOK
<1>15. CASE UNCHANGED vars
  BY <1>15 DEF vars, TypeOK
<1> QED
  BY <1>1, <1>2, <1>3, <1>4, <1>5, <1>6, <1>7, <1>8, <1>9, <1>11, <1>12, <1>13, <1>14, <1>15, <1>16
     DEF Next

(* A commit, the pruning and a power loss touch the WAL; what is doomed ends *)
(* before a later segment that is not.                                      *)
LEMMA SegStep == StoreInv /\ [Next]_vars => SegInv'
<1> SUFFICES ASSUME TypeOK, SegInv, DirInv, [Next]_vars PROVE SegInv'
  BY DEF StoreInv
<1> USE DEF wal, files, plan, forks, other
<1>0. /\ last \in Nat /\ cuts \subseteq 1..(last + 1) /\ segs \subseteq cuts /\ doomed \subseteq segs
      /\ \A c \in cuts : c \in Nat /\ 1 <= c /\ c <= last + 1
      /\ 1 \in cuts /\ \E s \in segs : \A c \in cuts : c <= s
  BY StoreConstants DEF TypeOK, SegInv
<1>1. ASSUME NEW r \in BOOLEAN, Commit(r) PROVE SegInv'
  <2>1. /\ last' = last + 1 /\ UNCHANGED <<pc, doomed, gen, anchor>>
        /\ \/ UNCHANGED <<cuts, segs>>
           \/ cuts' = cuts \cup {last + 1} /\ segs' = segs \cup {last + 1}
    BY <1>1 DEF Commit
  <2>2. cuts' \subseteq 1..(last' + 1) /\ 1 \in cuts'
    <3>1. /\ last + 1 \in 1..(last' + 1)
          /\ \A c \in cuts : c \in 1..(last' + 1)
      BY <1>0, <2>1
    <3> QED
      BY <1>0, <2>1, <3>1
  <2>3. \E s \in segs' : \A c \in cuts' : c <= s
    <3>1. CASE cuts' = cuts \cup {last + 1} /\ segs' = segs \cup {last + 1}
      <4>1. \A c \in cuts' : c <= last + 1
        BY <1>0, <3>1
      <4> QED
        BY <3>1, <4>1
    <3>2. CASE UNCHANGED <<cuts, segs>>
      BY <1>0, <3>2
    <3> QED
      BY <2>1, <3>1, <3>2
  <2>4. cuts \subseteq cuts'
    BY <2>1
  <2> QED
    BY <2>1, <2>2, <2>3, <2>4 DEF SegInv
<1>2. ASSUME NEW f \in BOOLEAN, PruneOne(f) PROVE SegInv'
  <2>1. /\ pc = "prune" /\ doomed # {} /\ doomed' \subseteq doomed
        /\ segs \ {Min(doomed)} \subseteq segs'
        /\ UNCHANGED <<cuts, last, pc, gen, anchor>>
    BY <1>2 DEF PruneOne
  <2>2. Min(doomed) \in doomed
    BY <1>0, <2>1, MinIsLeast
  <2>3. PICK t \in cuts : Min(doomed) < t
    BY <2>2 DEF SegInv
  <2>4. PICK s \in segs : \A c \in cuts : c <= s
    BY <1>0
  <2>5. s # Min(doomed)
    BY <1>0, <2>2, <2>3, <2>4
  <2>6. s \in segs'
    BY <2>1, <2>4, <2>5
  <2> QED
    BY <2>1, <2>4, <2>6 DEF SegInv
<1>3. ASSUME NEW f \in BOOLEAN, EndRetention(f) PROVE SegInv'
  <2>1. /\ UNCHANGED <<wal, gen, anchor>>
        /\ doomed' # {} => pc' = "prune"
        /\ \A s \in doomed' : s \in segs /\ Covered(s)
    BY <1>3 DEF EndRetention
  <2>2. ASSUME NEW s \in doomed' PROVE \E t \in cuts : s < t /\ t - 1 <= anchor[gen].lsn
    <3>1. PICK t \in segs : t > s /\ t - 1 <= anchor[gen].lsn
      BY <2>1 DEF Covered
    <3> QED
      BY <1>0, <2>1, <3>1
  <2> QED
    BY <2>1, <2>2 DEF SegInv
<1>4. ASSUME UNCHANGED <<last, cuts>>, segs \subseteq segs', doomed' = {} PROVE SegInv'
  BY <1>4 DEF SegInv
<1>5. ASSUME NEW d \in SUBSET Gen, NEW m \in SUBSET Gen, NEW w \in SUBSET segsS, PowerLoss(d, m, w)
      PROVE  SegInv'
  BY <1>4, <1>5 DEF PowerLoss, Down
<1>6. CASE Kill \/ EndPrune
  BY <1>4, <1>6 DEF Kill, Down, EndPrune
<1>7. CASE \/ \E l \in 0..MaxLsn : Capture(l)
           \/ NameData \/ SyncData \/ NameManifest \/ SyncManifest \/ PublishFails \/ Verify
           \/ \E f \in BOOLEAN : RetireManifest(f) \/ \E g \in Gen : RetireData(g, f)
  <2>1. pc # "prune" /\ doomed' = doomed /\ UNCHANGED wal
    BY <1>7 DEF Capture, NameData, SyncData, NameManifest, SyncManifest, PublishFails, Verify,
                RetireData, RetireManifest, Step
  <2>2. doomed' = {}
    BY <2>1 DEF SegInv
  <2> QED
    BY <1>4, <2>1, <2>2
<1>8. ASSUME UNCHANGED <<wal, plan, anchor>> PROVE SegInv'
  BY <1>8 DEF SegInv
<1>9. CASE \/ UNCHANGED vars \/ RestartAnew
           \/ \E c \in Child : PublishFork(c) \/ ForkFails(c) \/ \E g \in Gen : ChooseBase(c, g)
           \/ \E g \in Gen : Rot(g) \/ RestartFrom(g)
  BY <1>8, <1>9 DEF vars, RestartAnew, PublishFork, ForkFails, ChooseBase, Rot, RestartFrom
<1> QED
  BY <1>1, <1>2, <1>3, <1>5, <1>6, <1>7, <1>9 DEF Next

LEMMA DirStep == StoreInv /\ [Next]_vars => DirInv'
<1> SUFFICES ASSUME TypeOK, rots \in Nat, DirInv, [Next]_vars PROVE DirInv'
  BY DEF StoreInv
<1> USE DEF wal, files, plan, forks, other
<1>0. /\ MaxGen \in Nat /\ gen \in 0..MaxGen /\ last \in Nat /\ tick \in Nat
      /\ \A g \in Gen : anchor[g].tick \in Nat /\ anchor[g].lsn \in Nat
  BY StoreConstants DEF TypeOK
<1>1. ASSUME NEW r \in BOOLEAN, Commit(r) PROVE DirInv'
  <2>1. /\ last' = last + 1
        /\ UNCHANGED <<up, tick, included, plan, anchor, files, rotten, rots>>
    BY <1>1 DEF Commit
  <2>2. \A g \in Gen : anchor[g].lsn <= last'
    BY <1>0, <2>1 DEF DirInv
  <2> QED
    BY <2>1, <2>2 DEF DirInv
<1>2. ASSUME NEW l \in 0..MaxLsn, Capture(l) PROVE DirInv'
  <2>1. /\ gen' = gen + 1 /\ gen + 1 \in Gen /\ tick' = tick + 1 /\ included' = l /\ l <= last /\ up
        /\ anchor' = [anchor EXCEPT ![gen + 1] = [tick |-> tick + 1, lsn |-> l]]
        /\ pc' = "data"
        /\ UNCHANGED <<up, last, files, rotten, rots>>
    BY <1>0, <1>2 DEF Capture, Gen
  <2>2. anchor'[gen + 1] = [tick |-> tick + 1, lsn |-> l]
    BY <2>1 DEF TypeOK
  <2>3. \A g \in Gen : g # gen + 1 => anchor'[g] = anchor[g]
    BY <2>1 DEF TypeOK
  <2>4. \A g \in Gen : anchor'[g].lsn <= last /\ anchor'[g].tick <= gen + 1
    <3> SUFFICES ASSUME NEW g \in Gen PROVE anchor'[g].lsn <= last /\ anchor'[g].tick <= gen + 1
      OBVIOUS
    <3>1. tick <= gen /\ anchor[g].lsn <= last /\ anchor[g].tick <= gen
      BY DEF DirInv
    <3>2. CASE g = gen + 1
      BY <1>0, <2>1, <2>2, <3>1, <3>2
    <3>3. CASE g # gen + 1
      BY <1>0, <2>3, <3>1, <3>3
    <3> QED
      BY <3>2, <3>3
  <2>5. tick' <= gen' /\ gen' # 0 /\ tick' # 0
    BY <1>0, <2>1 DEF DirInv
  <2>6. \A g \in 1..gen : g \in 1..gen'
    BY <1>0, <2>1
  <2> QED
    BY <2>1, <2>2, <2>4, <2>5, <2>6 DEF DirInv
<1>3. CASE NameData \/ SyncData \/ NameManifest \/ SyncManifest \/ PublishFails
  <2>1. /\ pc # "idle" /\ pc' # "unlink"
        /\ data' \subseteq data \cup {gen} /\ man' \subseteq man \cup {gen}
        /\ dataS' \in {dataS, data} /\ manS' \in {manS, man}
        /\ pc' = "verify" => dataS' = data' /\ manS' = man'
    BY <1>3 DEF NameData, SyncData, NameManifest, SyncManifest, PublishFails, Step, SyncDirectory
  <2>2. UNCHANGED <<up, tick, included, wal, gen, pins, victim, anchor, rotten, rots>>
    BY <1>3 DEF NameData, SyncData, NameManifest, SyncManifest, PublishFails
  <2>3. gen \in 1..gen
    BY <1>0, <2>1 DEF DirInv
  <2> QED
    BY <2>1, <2>2, <2>3 DEF DirInv
<1>4. CASE Verify
  <2>1. /\ pc = "verify" /\ pc' \in {"retain", "idle"} /\ up /\ up' = up
        /\ UNCHANGED <<tick, included, wal, gen, anchor, files, rotten, rots>>
    BY <1>4 DEF Verify
  <2> QED
    BY <2>1 DEF DirInv
<1>5. ASSUME NEW g \in Gen, NEW f \in BOOLEAN, RetireData(g, f) PROVE DirInv'
  <2>1. /\ pc = "retain" /\ pc' = "unlink" /\ data' \subseteq data
        /\ victim' = g /\ g # gen /\ g \notin pins
        /\ UNCHANGED <<up, tick, included, wal, gen, anchor, man, dataS, manS, rotten, pins, rots>>
    BY <1>5 DEF RetireData, Oldest, Removable
  <2> QED
    BY <2>1 DEF DirInv
<1>6. ASSUME NEW f \in BOOLEAN, RetireManifest(f) PROVE DirInv'
  <2>1. /\ pc = "unlink" /\ pc' = "retain" /\ man' \subseteq man
        /\ UNCHANGED <<up, tick, included, wal, gen, anchor, data, dataS, manS, rotten, rots>>
    BY <1>6 DEF RetireManifest, Step
  <2> QED
    BY <2>1 DEF DirInv
<1>7. CASE EndPrune \/ \E f \in BOOLEAN : EndRetention(f) \/ PruneOne(f)
  <2>1. /\ pc # "idle" /\ pc' \notin {"verify", "unlink"}
        /\ UNCHANGED <<up, tick, included, last, gen, anchor, files, rotten, rots>>
    BY <1>7 DEF EndRetention, PruneOne, EndPrune, Step
  <2> QED
    BY <2>1 DEF DirInv
<1>8. ASSUME NEW c \in Child, PublishFork(c) \/ ForkFails(c) \/ \E g \in Gen : ChooseBase(c, g)
      PROVE  DirInv'
  <2>1. UNCHANGED <<up, tick, included, wal, plan, anchor, files, rotten, rots>>
    BY <1>8 DEF PublishFork, ForkFails, ChooseBase
  <2> QED
    BY <2>1 DEF DirInv
<1>9. ASSUME NEW g \in Gen, Rot(g) PROVE DirInv'
  <2>1. rots' # 0 /\ UNCHANGED <<up, tick, included, wal, plan, anchor, files>>
    BY <1>9 DEF Rot
  <2> QED
    BY <2>1 DEF DirInv
<1>10. CASE Kill
  <2>1. /\ pc' = "idle" /\ UNCHANGED <<tick, included, wal, gen, anchor, files, rotten, rots>>
    BY <1>10 DEF Kill, Down
  <2> QED
    BY <2>1 DEF DirInv
<1>11. ASSUME NEW d \in SUBSET Gen, NEW m \in SUBSET Gen, NEW w \in SUBSET segsS,
              PowerLoss(d, m, w)
       PROVE  DirInv'
  <2>1. /\ pc' = "idle" /\ UNCHANGED <<tick, included, last, gen, anchor, rotten, rots>>
        /\ data' \subseteq data \cup dataS /\ man' \subseteq man \cup manS
        /\ dataS' = data' /\ manS' = man'
    BY <1>11 DEF PowerLoss, Down
  <2> QED
    BY <2>1 DEF DirInv
<1>12. CASE RestartAnew
  <2>1. tick' = 0 /\ ~up /\ UNCHANGED <<wal, plan, anchor, files, rotten, rots>>
    BY <1>12 DEF RestartAnew
  <2>2. tick' <= gen
    BY <1>0, <2>1
  <2> QED
    BY <2>1, <2>2 DEF DirInv
<1>13. ASSUME NEW g \in Gen, RestartFrom(g) PROVE DirInv'
  <2>1. tick' = anchor[g].tick /\ ~up /\ UNCHANGED <<wal, plan, anchor, files, rotten, rots>>
    BY <1>13 DEF RestartFrom
  <2>2. tick' <= gen
    BY <1>0, <2>1 DEF DirInv
  <2> QED
    BY <2>1, <2>2 DEF DirInv
<1>14. CASE UNCHANGED vars
  BY <1>14 DEF vars, DirInv
<1> QED
  BY <1>1, <1>2, <1>3, <1>4, <1>5, <1>6, <1>7, <1>8, <1>9, <1>10, <1>11, <1>12, <1>13, <1>14
     DEF Next

(* What a commit adds lies in the newest segment, or starts one.           *)
LEMMA HeldStays ==
    ASSUME StoreInv, NEW r \in BOOLEAN, Commit(r), NEW n \in Nat, Held(n)
    PROVE  n <= last => Held(n)'
<1> SUFFICES ASSUME n <= last, NEW l \in (n + 1)..(last' + 1) PROVE Inside(l)'
  BY DEF Held
<1>0. /\ last \in Nat /\ last' = last + 1 /\ l \in Nat
      /\ \A c \in cuts : c \in Nat /\ c <= last + 1
      /\ \A s \in segs : s \in cuts
      /\ \/ UNCHANGED <<cuts, segs>>
         \/ cuts' = cuts \cup {last + 1} /\ segs' = segs \cup {last + 1}
  BY StoreConstants DEF StoreInv, TypeOK, SegInv, Commit
<1>1. CASE l <= last
  <2>1. PICK s \in segs : s <= l /\ \A c \in cuts : c <= s \/ c > l
    BY <1>0, <1>1 DEF Held, Inside
  <2>2. s \in segs' /\ \A c \in cuts' : c <= s \/ c > l
    BY <1>0, <1>1, <2>1
  <2> QED
    BY <2>1, <2>2 DEF Inside
<1>2. CASE l > last
  <2>1. CASE cuts' = cuts \cup {last + 1} /\ segs' = segs \cup {last + 1}
    <3>1. last + 1 <= l /\ \A c \in cuts' : c <= last + 1
      BY <1>0, <1>2, <2>1
    <3> QED
      BY <2>1, <3>1 DEF Inside
  <2>2. CASE UNCHANGED <<cuts, segs>>
    <3>1. PICK s \in segs : s <= last + 1 /\ \A c \in cuts : c <= s \/ c > last + 1
      BY <1>0 DEF Held, Inside
    <3>2. s <= l /\ \A c \in cuts : c <= s
      BY <1>0, <1>2, <3>1
    <3> QED
      BY <2>2, <3>2 DEF Inside
  <2> QED
    BY <1>0, <2>1, <2>2
<1> QED
  BY <1>0, <1>1, <1>2

(* Before anything was pruned every record is inside a segment.            *)
LEMMA AllHeld ==
    ASSUME StoreInv, segs = cuts, NEW n \in Nat
    PROVE  Held(n)
<1> SUFFICES ASSUME NEW l \in (n + 1)..(last + 1) PROVE Inside(l)
  BY DEF Held
<1> DEFINE S == {c \in cuts : c <= l}
<1>1. last \in Nat /\ l \in Nat /\ 1 <= l /\ 1 \in cuts /\ cuts \subseteq Nat
  BY StoreConstants DEF StoreInv, TypeOK, SegInv
<1>2. \A c \in S : c \in 0..l
  BY <1>1
<1>3. S \in SUBSET (0..l) /\ 1 \in S
  BY <1>1, <1>2
<1>4. PICK s \in S : \A x \in S : x <= s
  <2> HIDE DEF S
  <2> QED
    BY <1>1, <1>3, HasGreatest
<1>5. \A c \in cuts : c <= s \/ c > l
  BY <1>1, <1>4
<1> QED
  BY <1>4, <1>5 DEF Inside

(* Most steps leave the clock, the anchors and what was reported alone, add *)
(* no pair but the one in progress, and take no best pair away.             *)
LEMMA QuietStep ==
    ASSUME StoreInv, rots = 0, up' => up,
           UNCHANGED <<tick, included, gen, anchor, reported>>,
           segs = cuts => segs' = cuts', \A n \in Nat : n <= last /\ Held(n) => Held(n)',
           Publishing' => Publishing, Retaining' => Retaining,
           \A h \in Possible' : h \in Possible \/ (pc # "idle" /\ h = gen),
           up' => \A h \in data' \cap man' : h \in data \cap man \/ (pc # "idle" /\ h = gen),
           \A b \in Gen : Best(b) => b \in data' \cap dataS' \cap man' \cap manS'
    PROVE  BestInv'
<1>0. /\ tick \in Nat /\ included \in Nat /\ reported \in Nat /\ \A g \in Gen : anchor[g].tick \in Nat
      /\ pc # "idle" => anchor[gen] = [tick |-> tick, lsn |-> included] /\ up
  BY DEF StoreInv, TypeOK, DirInv
<1>1. ASSUME up', NEW h \in data' \cap man'
      PROVE  /\ anchor[h].tick <= tick
             /\ Publishing' /\ h # gen => anchor[h].tick < tick
  BY <1>0, <1>1 DEF StoreInv, BestInv
<1>2. reported = 0 => segs' = cuts' /\ ~Retaining'
  BY DEF StoreInv, BestInv
<1>3. ASSUME NEW b \in Gen, Best(b) PROVE Best(b)'
  <2>1. ASSUME NEW h \in Possible', anchor[h].tick >= anchor[b].tick
        PROVE  anchor[h].lsn >= anchor[b].lsn
    <3>1. CASE h \in Possible
      BY <1>3, <2>1, <3>1 DEF Best
    <3>2. CASE pc # "idle" /\ h = gen
      BY <1>0, <1>3, <3>2 DEF Best
    <3> QED
      BY <3>1, <3>2
  <2>2. Held(anchor[b].lsn)'
    <3>1. anchor[b].lsn \in Nat /\ anchor[b].lsn <= last
      BY StoreConstants DEF StoreInv, TypeOK, DirInv
    <3>2. Held(anchor[b].lsn)
      BY <1>3 DEF Best
    <3> QED
      BY <3>1, <3>2 DEF Held
  <2>3. b \in data' \cap dataS' \cap man' \cap manS'
    BY <1>3
  <2>4. /\ anchor[b].tick >= reported
        /\ up' => tick >= anchor[b].tick /\ included >= anchor[b].lsn
        /\ Publishing' => b # gen
        /\ Retaining' => b = gen
    BY <1>3 DEF Best
  <2> QED
    BY <2>1, <2>2, <2>3, <2>4 DEF Best
<1>4. reported > 0 => \E b \in Gen : Best(b)
  BY DEF StoreInv, BestInv
<1> QED
  BY <1>1, <1>2, <1>3, <1>4 DEF BestInv

(* A best pair is found when a publication was verified, and stays until    *)
(* the next one.                                                            *)
LEMMA BestStep == StoreInv /\ [Next]_vars => BestInv'
<1> SUFFICES ASSUME StoreInv, [Next]_vars, rots' = 0 PROVE BestInv'
  BY DEF BestInv
<1> USE DEF wal, files, plan, forks, other
<1>0. TypeOK /\ reported \in Nat /\ rots \in Nat /\ SegInv /\ DirInv
  BY DEF StoreInv
<1>t. /\ MaxGen \in Nat /\ gen \in 0..MaxGen /\ tick \in Nat /\ included \in Nat /\ last \in Nat
      /\ \A g \in Gen : anchor[g].tick \in Nat /\ anchor[g].lsn \in Nat
  BY <1>0, StoreConstants DEF TypeOK
<1>f. /\ \A h \in data \cup man \cup dataS \cup manS : h \in 1..gen /\ h \in Gen
      /\ Possible \subseteq Gen
  BY <1>0 DEF DirInv, TypeOK, Possible
<1>d. /\ pc # "idle" => up /\ tick # 0 /\ anchor[gen] = [tick |-> tick, lsn |-> included] /\ gen \in Gen
      /\ pc = "verify" => dataS = data /\ manS = man
      /\ pc = "unlink" => victim # gen
  BY <1>0, <1>t DEF DirInv, Gen
<1>r. rots = 0 /\ rotten = {}
  <2>1. ASSUME NEW g \in Gen, Rot(g) PROVE FALSE
    BY <1>0, <2>1 DEF Rot
  <2>2. ASSUME ~\E g \in Gen : Rot(g) PROVE rots' = rots
    BY <2>2 DEF Next, vars, Commit, Capture, NameData, SyncData, NameManifest, SyncManifest,
                PublishFails, Verify, RetireData, RetireManifest, EndRetention, PruneOne, EndPrune,
                ChooseBase, PublishFork, ForkFails, Kill, PowerLoss, RestartAnew, RestartFrom
  <2> QED
    BY <1>0, <2>1, <2>2 DEF DirInv
<1>a. /\ up => \A h \in data \cap man :
                 /\ anchor[h].tick <= tick
                 /\ Publishing /\ h # gen => anchor[h].tick < tick
      /\ reported = 0 => segs = cuts /\ ~Retaining
      /\ reported > 0 => \E b \in Gen : Best(b)
  BY <1>r DEF StoreInv, BestInv
<1>h. ASSUME UNCHANGED <<last, cuts, segs>> \/ \E r \in BOOLEAN : Commit(r)
      PROVE  (segs = cuts => segs' = cuts') /\ \A n \in Nat : n <= last /\ Held(n) => Held(n)'
  <2>1. CASE UNCHANGED <<last, cuts, segs>>
    BY <2>1 DEF Held, Inside
  <2>2. ASSUME NEW r \in BOOLEAN, Commit(r), NEW n \in Nat, n <= last, Held(n) PROVE Held(n)'
    BY <2>2, HeldStays
  <2>3. ASSUME NEW r \in BOOLEAN, Commit(r), segs = cuts PROVE segs' = cuts'
    BY <2>3 DEF Commit
  <2> QED
    BY <1>h, <2>1, <2>2, <2>3
<1> USE DEF Publishing, Retaining
<1>1. CASE \/ EndPrune \/ UNCHANGED vars
           \/ \E r \in BOOLEAN : EndRetention(r) \/ Commit(r)
           \/ \E c \in Child : PublishFork(c) \/ ForkFails(c) \/ \E g \in Gen : ChooseBase(c, g)
  <2>1. /\ UNCHANGED <<up, tick, included, gen, anchor, reported, files>>
        /\ UNCHANGED <<last, cuts, segs>> \/ \E r \in BOOLEAN : Commit(r)
        /\ pc' = pc \/ (pc \in {"retain", "prune"} /\ pc' \in {"prune", "idle"})
    BY <1>1 DEF EndRetention, EndPrune, Step, vars, Commit, PublishFork, ForkFails, ChooseBase
  <2>2. Possible' = Possible
    BY <2>1 DEF Possible
  <2>3. (segs = cuts => segs' = cuts') /\ \A n \in Nat : n <= last /\ Held(n) => Held(n)'
    BY <1>h, <2>1
  <2>4. /\ Publishing' => Publishing
        /\ Retaining' => Retaining
    BY <2>1
  <2> HIDE DEF Publishing, Retaining
  <2>5. /\ \A b \in Gen : Best(b) => b \in data' \cap dataS' \cap man' \cap manS'
        /\ \A h \in Possible' : h \in Possible \/ (pc # "idle" /\ h = gen)
        /\ up' => \A h \in data' \cap man' : h \in data \cap man \/ (pc # "idle" /\ h = gen)
    BY <2>1, <2>2 DEF Best
  <2>6. (up' => up) /\ UNCHANGED <<tick, included, gen, anchor, reported>>
    BY <2>1
  <2> QED
    BY <1>r, <2>3, <2>4, <2>5, <2>6, QuietStep
<1>2. CASE NameData \/ NameManifest
  <2>1. /\ UNCHANGED <<up, tick, included, gen, anchor, reported, last, cuts, segs, dataS, manS>>
        /\ data \subseteq data' /\ man \subseteq man'
        /\ data' \subseteq data \cup {gen} /\ man' \subseteq man \cup {gen}
        /\ pc # "idle" /\ Publishing /\ ~Retaining'
    BY <1>2 DEF NameData, NameManifest, Step
  <2>2. \A h \in Possible' : h \in Possible \/ (pc # "idle" /\ h = gen)
    BY <2>1 DEF Possible
  <2> HIDE DEF Publishing, Retaining
  <2>3. \A b \in Gen : Best(b) => b \in data' \cap dataS' \cap man' \cap manS'
    BY <2>1 DEF Best
  <2> QED
    BY <1>h, <1>r, <2>1, <2>2, <2>3, QuietStep
<1>3. CASE SyncData \/ SyncManifest
  <2>1. /\ UNCHANGED <<up, tick, included, gen, anchor, reported, last, cuts, segs, data, man>>
        /\ dataS' = data /\ manS' = man /\ Publishing /\ ~Retaining'
    BY <1>3 DEF SyncData, SyncManifest, Step, SyncDirectory
  <2>2. \A h \in Possible' : h \in Possible \/ (pc # "idle" /\ h = gen)
    BY <2>1 DEF Possible
  <2> HIDE DEF Publishing, Retaining
  <2>3. \A b \in Gen : Best(b) => b \in data' \cap dataS' \cap man' \cap manS'
    BY <2>1 DEF Best
  <2> QED
    BY <1>h, <1>r, <2>1, <2>2, <2>3, QuietStep
<1>4. CASE PublishFails \/ \E g \in Gen, f \in BOOLEAN : RetireData(g, f)
  <2>1. /\ UNCHANGED <<up, tick, included, gen, anchor, reported, last, cuts, segs, man, dataS, manS>>
        /\ data' \subseteq data
        /\ Publishing' => Publishing
        /\ Retaining' => Retaining
    BY <1>4 DEF PublishFails, RetireData
  <2>2. \A h \in Possible' : h \in Possible \/ (pc # "idle" /\ h = gen)
    BY <2>1 DEF Possible
  <2>3. ASSUME NEW b \in Gen, Best(b) PROVE b \in data'
    <3>1. CASE PublishFails
      BY <2>3, <3>1 DEF PublishFails, Best
    <3>2. ASSUME NEW g \in Gen, NEW f \in BOOLEAN, RetireData(g, f) PROVE b \in data'
      BY <2>3, <3>2 DEF RetireData, Oldest, Removable, Best
    <3> QED
      BY <1>4, <3>1, <3>2
  <2>4. Publishing' => Publishing
    BY <1>4 DEF PublishFails, RetireData
  <2>5. Retaining' => Retaining
    BY <1>4 DEF PublishFails, RetireData
  <2> HIDE DEF Publishing, Retaining
  <2>6. \A b \in Gen : Best(b) => b \in data' \cap dataS' \cap man' \cap manS'
    BY <2>1, <2>3 DEF Best
  <2> QED
    BY <1>h, <1>r, <2>1, <2>2, <2>4, <2>5, <2>6, QuietStep
<1>5. ASSUME NEW f \in BOOLEAN, RetireManifest(f) PROVE BestInv'
  <2>1. /\ UNCHANGED <<up, tick, included, gen, anchor, reported, last, cuts, segs, data, dataS, manS>>
        /\ man' \subseteq man /\ man \ {victim} \subseteq man'
        /\ ~Publishing' /\ Retaining /\ pc = "unlink"
    BY <1>5 DEF RetireManifest, Step
  <2>2. \A h \in Possible' : h \in Possible \/ (pc # "idle" /\ h = gen)
    BY <2>1 DEF Possible
  <2> HIDE DEF Publishing, Retaining
  <2>3. \A b \in Gen : Best(b) => b \in data' \cap dataS' \cap man' \cap manS'
    BY <1>d, <2>1 DEF Best
  <2> QED
    BY <1>h, <1>r, <2>1, <2>2, <2>3, QuietStep
<1>6. CASE Kill
  <2>1. /\ UNCHANGED <<tick, included, gen, anchor, reported, last, cuts, segs, files>> /\ ~up'
        /\ ~Publishing' /\ ~Retaining'
    BY <1>6 DEF Kill, Down
  <2>2. Possible' = Possible
    BY <2>1 DEF Possible
  <2> HIDE DEF Publishing, Retaining
  <2> QED
    BY <1>h, <1>r, <2>1, <2>2, QuietStep DEF Best
<1>7. ASSUME NEW d \in SUBSET Gen, NEW m \in SUBSET Gen, NEW w \in SUBSET segsS,
              PowerLoss(d, m, w)
       PROVE  BestInv'
  <2>1. /\ UNCHANGED <<tick, included, gen, anchor, reported, last, cuts>> /\ ~up'
        /\ segs \subseteq segs' /\ segs' \subseteq cuts
        /\ ~Publishing' /\ ~Retaining'
        /\ dataS' = data' /\ manS' = man'
        /\ data' \subseteq data \cup dataS /\ data \cap dataS \subseteq data'
        /\ man' \subseteq man \cup manS /\ man \cap manS \subseteq man'
    BY <1>0, <1>7 DEF PowerLoss, Down, TypeOK
  <2>4. (segs = cuts => segs' = cuts') /\ \A n \in Nat : n <= last /\ Held(n) => Held(n)'
    BY <2>1 DEF Held, Inside
  <2> HIDE DEF Publishing, Retaining
  <2>2. \A h \in Possible' : h \in Possible
    BY <2>1 DEF Possible
  <2>3. \A b \in Gen : Best(b) => b \in data' \cap dataS' \cap man' \cap manS'
    BY <2>1 DEF Best
  <2> QED
    BY <1>r, <2>1, <2>2, <2>3, <2>4, QuietStep
<1>8. ASSUME NEW l \in 0..MaxLsn, Capture(l) PROVE BestInv'
  <2>1. /\ gen' = gen + 1 /\ gen + 1 \in Gen /\ tick' = tick + 1 /\ included' = l /\ l >= included
        /\ anchor' = [anchor EXCEPT ![gen + 1] = [tick |-> tick + 1, lsn |-> l]] /\ up
        /\ UNCHANGED <<up, last, cuts, segs, files, reported>>
        /\ Publishing' /\ ~Retaining' /\ Possible' = Possible
    BY <1>t, <1>8 DEF Capture, Gen, Possible
  <2> HIDE DEF Publishing, Retaining
  <2>2. \A h \in data \cup man \cup dataS \cup manS : h # gen + 1 /\ anchor'[h] = anchor[h]
    BY <1>0, <1>t, <1>f, <2>1 DEF TypeOK
  <2>3. ASSUME NEW h \in data' \cap man' PROVE anchor'[h].tick < tick' /\ anchor'[h].tick <= tick'
    <3>1. anchor[h].tick <= tick /\ h \in Gen /\ anchor'[h] = anchor[h]
      BY <1>a, <1>f, <2>1, <2>2
    <3> QED
      BY <1>t, <2>1, <3>1
  <2>4. ASSUME NEW b \in Gen, Best(b) PROVE Best(b)'
    <3>1. b \in data \cap dataS \cap man \cap manS /\ anchor'[b] = anchor[b] /\ b # gen'
      BY <2>1, <2>2, <2>4 DEF Best
    <3>2. \A h \in Possible : anchor'[h] = anchor[h]
      BY <2>2 DEF Possible
    <3>3. tick' >= anchor[b].tick /\ included' >= anchor[b].lsn
      BY <1>t, <2>1, <2>4 DEF Best
    <3>4. b \in data' \cap dataS' \cap man' \cap manS' /\ anchor'[b].tick >= reported'
      BY <2>1, <2>4, <3>1 DEF Best
    <3>5. Held(anchor[b].lsn)'
      BY <2>1, <2>4, <3>1 DEF Best, Held, Inside
    <3>6. \A h \in Possible' : anchor'[h].tick >= anchor'[b].tick => anchor'[h].lsn >= anchor'[b].lsn
      BY <2>1, <2>4, <3>1, <3>2 DEF Best
    <3> QED
      BY <2>1, <3>1, <3>3, <3>4, <3>5, <3>6 DEF Best
  <2>5. reported' = 0 => segs' = cuts' /\ ~Retaining'
    BY <1>a, <2>1
  <2>6. reported' > 0 => \E b \in Gen : Best(b)'
    BY <1>a, <2>1, <2>4
  <2> QED
    BY <2>3, <2>5, <2>6 DEF BestInv
<1>9. CASE Verify
  <2>1. /\ UNCHANGED <<up, tick, included, gen, anchor, last, cuts, segs, files, rotten>> /\ up /\ pc = "verify"
        /\ Possible' = Possible
    BY <1>9 DEF Verify, Possible
  <2>2. CASE ~Complete(gen)
    <3>1. reported' = reported /\ ~Publishing' /\ ~Retaining'
      BY <1>9, <2>2 DEF Verify
    <3> HIDE DEF Publishing, Retaining
    <3>2. \A b \in Gen : Best(b) => b \in data' \cap dataS' \cap man' \cap manS'
      BY <2>1 DEF Best
    <3> QED
      BY <1>h, <1>r, <2>1, <3>1, <3>2, QuietStep
  <2>3. CASE Complete(gen)
    <3>1. reported' = Max({reported, anchor[gen].tick}) /\ ~Publishing' /\ Retaining'
      BY <1>9, <2>3 DEF Verify
    <3>2. gen \in data \cap dataS \cap man \cap manS /\ Possible = data \cap man /\ Publishing
      BY <1>d, <2>1, <2>3 DEF Complete, Possible
    <3> HIDE DEF Publishing, Retaining
    <3>3. gen \in Gen /\ anchor[gen].tick = tick /\ anchor[gen].lsn = included
      BY <1>d, <2>1
    <3>4. tick >= reported
      <4>1. ASSUME NEW b \in Gen, Best(b) PROVE tick >= reported
        BY <1>0, <1>t, <2>1, <4>1 DEF Best
      <4> QED
        BY <1>0, <1>a, <1>t, <4>1
    <3>5. reported' = tick
      <4>1. \A x \in {reported, tick} : (\A y \in {reported, tick} : x >= y) <=> x = tick
        BY <1>0, <1>t, <3>4
      <4>2. Max({reported, tick}) = tick
        BY <4>1 DEF Max
      <4> QED
        BY <3>1, <3>3, <4>2
    <3>6. \A h \in Possible : anchor[h].tick >= tick => h = gen
      <4> SUFFICES ASSUME NEW h \in Possible, h # gen PROVE ~(anchor[h].tick >= tick)
        OBVIOUS
      <4>1. anchor[h].tick < tick /\ h \in Gen
        BY <1>a, <1>f, <2>1, <3>2
      <4> QED
        BY <1>t, <4>1
    <3>7. Held(included)
      <4>1. CASE reported = 0
        BY <1>a, <1>t, <4>1, AllHeld
      <4>2. ASSUME NEW b \in Gen, Best(b) PROVE Held(included)
        <5>1. Held(anchor[b].lsn) /\ included >= anchor[b].lsn
          BY <2>1, <4>2 DEF Best
        <5>2. \A l \in (included + 1)..(last + 1) : l \in (anchor[b].lsn + 1)..(last + 1)
          BY <1>t, <5>1
        <5> QED
          BY <5>1, <5>2 DEF Held
      <4> QED
        BY <1>0, <1>a, <4>1, <4>2
    <3>8. tick > 0
      BY <1>d, <1>t, <2>1
    <3>9. ASSUME NEW b \in Gen, b = gen PROVE Best(b)'
      <4>1. gen' = gen /\ anchor' = anchor /\ segs' = segs /\ up
        BY <2>1
      <4>2. b \in data' \cap dataS' \cap man' \cap manS'
        BY <2>1, <3>2, <3>9
      <4>3. anchor[b].tick >= reported' /\ tick >= anchor[b].tick /\ included >= anchor[b].lsn
        BY <1>t, <3>3, <3>5, <3>9
      <4>4. \A h \in Possible' : anchor[h].tick >= anchor[b].tick => anchor[h].lsn >= anchor[b].lsn
        BY <1>t, <2>1, <3>3, <3>6, <3>9
      <4>5. Held(anchor[b].lsn)'
        BY <2>1, <3>3, <3>7, <3>9 DEF Held, Inside
      <4> QED
        BY <2>1, <3>1, <3>9, <4>1, <4>2, <4>3, <4>4, <4>5 DEF Best
    <3>10. \A h \in data' \cap man' : anchor'[h].tick <= tick'
      BY <1>a, <2>1
    <3>11. reported' # 0
      BY <3>5, <3>8
    <3>12. \E b \in Gen : Best(b)'
      BY <3>3, <3>9
    <3> QED
      BY <3>1, <3>10, <3>11, <3>12 DEF BestInv
  <2> QED
    BY <2>2, <2>3
<1>10. ASSUME NEW f \in BOOLEAN, PruneOne(f) PROVE BestInv'
  <2> DEFINE m == Min(doomed)
  <2>1. /\ segs \ {m} \subseteq segs' /\ doomed # {} /\ pc = "prune" /\ up
        /\ UNCHANGED <<up, tick, included, last, cuts, pc, gen, anchor, reported, files>>
        /\ Possible' = Possible
    BY <1>10 DEF PruneOne, Possible
  <2>2. m \in doomed
    <3>1. doomed \subseteq Nat
      BY <1>0 DEF TypeOK
    <3> QED
      BY <2>1, <3>1, MinIsLeast
  <2>3. PICK t \in cuts : m < t /\ t - 1 <= anchor[gen].lsn
    BY <1>0, <2>2 DEF SegInv
  <2>4. /\ t \in Nat /\ m \in Nat /\ gen \in Gen /\ anchor[gen].lsn \in Nat
        /\ \A s \in segs : s \in Nat
    BY <1>0, <1>d, <1>t, <2>1, <2>2, <2>3 DEF TypeOK
  <2> HIDE DEF m
  <2>5. Held(anchor[gen].lsn) => Held(anchor[gen].lsn)'
    <3> SUFFICES ASSUME Held(anchor[gen].lsn), NEW l \in (anchor[gen].lsn + 1)..(last + 1)
                 PROVE  Inside(l)'
      BY <2>1 DEF Held
    <3>1. PICK s \in segs : s <= l /\ \A c \in cuts : c <= s \/ c > l
      BY DEF Held, Inside
    <3>2. t <= l /\ t <= s
      BY <1>t, <2>3, <2>4, <3>1
    <3>3. s \in segs'
      BY <2>1, <2>3, <2>4, <3>1, <3>2
    <3> QED
      BY <2>1, <3>1, <3>3 DEF Inside
  <2>6. reported # 0 /\ Retaining /\ ~Publishing
    BY <1>a, <2>1
  <2>7. PICK b \in Gen : Best(b)
    BY <1>0, <1>a, <2>6
  <2> HIDE DEF Publishing, Retaining
  <2>8. Retaining' = Retaining /\ Publishing' = Publishing
    BY <2>1 DEF Retaining, Publishing
  <2>9. b = gen
    BY <2>6, <2>7 DEF Best
  <2>10. Best(b)'
    BY <2>1, <2>5, <2>6, <2>7, <2>8, <2>9 DEF Best
  <2>11. \A h \in data' \cap man' : anchor'[h].tick <= tick'
    BY <1>a, <2>1
  <2>12. \E c \in Gen : Best(c)'
    BY <2>10
  <2> QED
    BY <2>1, <2>6, <2>8, <2>11, <2>12 DEF BestInv
<1>11. CASE RestartAnew
  <2>1. /\ UNCHANGED <<pc, gen, anchor, reported, last, cuts, segs, files>> /\ ~up
        /\ Candidates = {} /\ Possible' = Possible
    BY <1>11 DEF RestartAnew, Possible
  <2>2. data \cap man = {}
    BY <1>f, <1>r, <2>1 DEF Candidates, Complete
  <2>3. reported = 0
    BY <1>0, <1>a, <2>2 DEF Best
  <2>4. ~Retaining'
    BY <1>d, <2>1
  <2> HIDE DEF Publishing, Retaining
  <2> QED
    BY <1>a, <2>1, <2>2, <2>3, <2>4 DEF BestInv
<1>12. ASSUME NEW g \in Gen, RestartFrom(g) PROVE BestInv'
  <2>1. /\ UNCHANGED <<pc, gen, anchor, reported, last, cuts, segs, files>> /\ ~up /\ g \in Latest
        /\ tick' = anchor[g].tick /\ included' = anchor[g].lsn /\ Possible' = Possible
    BY <1>12 DEF RestartFrom, Possible
  <2>2. Candidates = data \cap man
    BY <1>f, <1>r DEF Candidates, Complete
  <2>3. g \in data \cap man /\ \A h \in data \cap man : anchor[h].tick <= anchor[g].tick
    BY <2>1, <2>2 DEF Latest
  <2>4. ~Publishing' /\ ~Retaining'
    BY <1>d, <2>1
  <2> HIDE DEF Publishing, Retaining
  <2>5. ASSUME NEW b \in Gen, Best(b) PROVE Best(b)'
    <3>1. b \in data \cap man /\ g \in Possible
      BY <2>3, <2>5 DEF Best, Possible
    <3>2. anchor[g].tick >= anchor[b].tick
      BY <1>t, <2>3, <3>1
    <3>3. anchor[g].lsn >= anchor[b].lsn
      BY <2>5, <3>1, <3>2 DEF Best
    <3>4. tick' >= anchor'[b].tick /\ included' >= anchor'[b].lsn
      BY <2>1, <3>2, <3>3
    <3>5. Held(anchor[b].lsn)'
      BY <2>1, <2>5 DEF Best, Held, Inside
    <3> QED
      BY <2>1, <2>4, <2>5, <3>4, <3>5 DEF Best
  <2>6. \A h \in data' \cap man' : anchor'[h].tick <= tick'
    BY <2>1, <2>3
  <2>7. reported' = 0 => segs' = cuts'
    BY <1>a, <2>1
  <2>8. reported' > 0 => \E b \in Gen : Best(b)'
    BY <1>a, <2>1, <2>5
  <2> QED
    BY <2>4, <2>6, <2>7, <2>8 DEF BestInv
<1> QED
  <2>1. ~\E g \in Gen : Rot(g)
    BY <1>0, <1>r DEF Rot
  <2> QED
    BY <1>1, <1>2, <1>3, <1>4, <1>5, <1>6, <1>7, <1>8, <1>9, <1>10, <1>11, <1>12, <2>1 DEF Next

LEMMA InitStore == Init => StoreInv
<1> SUFFICES ASSUME Init PROVE StoreInv
  OBVIOUS
<1>1. /\ MaxGen \in Nat /\ MaxLsn \in Nat
      /\ \A g \in Gen : anchor[g] = [tick |-> 0, lsn |-> 0]
  BY StoreConstants DEF Init
<1>2. TypeOK
  <2>1. fork \in [Child -> 0..MaxGen] /\ choosing \in [Child -> 0..MaxGen]
    BY <1>1 DEF Init
  <2>2. anchor \in [Gen -> [tick : Nat, lsn : 0..MaxLsn]]
    BY <1>1 DEF Init
  <2>3. gen \in 0..MaxGen /\ victim \in 0..MaxGen /\ last \in 0..MaxLsn /\ included \in 0..last
    BY <1>1 DEF Init
  <2> QED
    BY <2>1, <2>2, <2>3 DEF Init, TypeOK, At
<1>3. SegInv
  BY DEF Init, SegInv
<1>4. DirInv
  BY <1>1 DEF Init, DirInv
<1>5. BestInv
  BY DEF Init, BestInv, Retaining
<1> QED
  BY <1>2, <1>3, <1>4, <1>5 DEF Init, StoreInv

(* What is always true of the directory, the WAL's segments and the daemon: *)
(* StoreInv, and with it the types.                                        *)
THEOREM StoreInvariant == Spec => []StoreInv
<1>1. StoreInv /\ [Next]_vars => StoreInv'
  BY TypeStep, SegStep, DirStep, BestStep DEF StoreInv
<1> QED
  BY InitStore, <1>1, PTL DEF Spec

(* Every variable keeps the type its declaration in the code gives it.      *)
THEOREM StoreTypes == Spec => []TypeOK
<1>1. StoreInv => TypeOK
  BY DEF StoreInv
<1> QED
  BY <1>1, StoreInvariant, PTL

-----------------------------------------------------------------------------
(* What a start finds.                                                     *)

LEMMA FirstSegment == StoreInv => /\ FirstLsn = Min(segs) /\ Min(segs) \in segs
                                  /\ \A s \in segs : s \in Nat \ {0} /\ Min(segs) <= s
<1> SUFFICES ASSUME SegInv, TypeOK
             PROVE  /\ FirstLsn = Min(segs) /\ Min(segs) \in segs
                    /\ \A s \in segs : s \in Nat \ {0} /\ Min(segs) <= s
  BY DEF StoreInv
<1>1. segs \in SUBSET Nat /\ segs # {} /\ \A s \in segs : s \in Nat \ {0}
  BY DEF SegInv, TypeOK
<1>2. Min(segs) \in segs /\ \A s \in segs : Min(segs) <= s
  BY <1>1, MinIsLeast
<1> QED
  BY <1>1, <1>2 DEF FirstLsn

LEMMA SomeLatest == StoreInv /\ Candidates # {} => \E g \in Latest : TRUE
<1> SUFFICES ASSUME TypeOK, DirInv, Candidates # {} PROVE \E g \in Latest : TRUE
  BY DEF StoreInv
<1> DEFINE T == {anchor[h].tick : h \in Candidates}
<1>1. \A h \in Candidates : anchor[h].tick \in 0..gen
  BY StoreConstants DEF TypeOK, DirInv, Candidates
<1>2. T \in SUBSET (0..gen) /\ T # {} /\ gen \in Nat
  BY <1>1, StoreConstants DEF TypeOK
<1>3. PICK m \in T : \A x \in T : x <= m
  <2> HIDE DEF T
  <2> QED
    BY <1>2, HasGreatest
<1>4. PICK g \in Candidates : m = anchor[g].tick
  BY <1>3
<1>5. \A h \in Candidates : anchor[h].tick <= anchor[g].tick
  BY <1>3, <1>4
<1> QED
  BY <1>5 DEF Latest

(* publish() and RecoveryPlanner::build agree: whatever happened between,   *)
(* as long as every file can be read, the next start begins at a checkpoint *)
(* no older than the best one that was reported, whose records are all in   *)
(* the directory, unless the scan finds a hole in older segments.           *)
THEOREM ReportedAreKept == Spec => []ReportedIsKept
<1>1. StoreInv => ReportedIsKept
  <2> SUFFICES ASSUME StoreInv, rots = 0
               PROVE  /\ Contiguous => Accepts
                      /\ reported > 0 => /\ Latest # {}
                                         /\ \A g \in Latest : /\ anchor[g].tick >= reported
                                                              /\ Held(anchor[g].lsn)
    BY DEF ReportedIsKept
  <2>0. /\ TypeOK /\ reported \in Nat /\ rotten = {} /\ last \in Nat
        /\ \A g \in Gen : /\ anchor[g].tick \in Nat /\ anchor[g].lsn \in Nat
                         /\ anchor[g].lsn <= last
    BY StoreConstants DEF StoreInv, DirInv, TypeOK
  <2>1. Candidates = data \cap man
    BY <2>0 DEF Candidates, Complete, TypeOK
  <2>2. /\ FirstLsn = Min(segs) /\ Min(segs) \in segs
        /\ \A s \in segs : s \in Nat \ {0} /\ Min(segs) <= s
    BY FirstSegment
  <2>3. ASSUME reported = 0, Contiguous PROVE Accepts
    <3>1. 1 \in segs
      BY <2>3 DEF StoreInv, BestInv, SegInv
    <3>2. FirstLsn = 1
      BY <2>2, <3>1
    <3>3. \A g \in Gen : StartsFrom(anchor[g].lsn)
      BY <2>0, <2>3, <3>2 DEF StartsFrom
    <3> QED
      BY <2>3, <3>2, <3>3 DEF Accepts, StartsAnew, Latest, Candidates
  <2>4. ASSUME reported > 0
        PROVE  /\ Contiguous => Accepts
               /\ Latest # {}
               /\ \A g \in Latest : anchor[g].tick >= reported /\ Held(anchor[g].lsn)
    <3>1. PICK b \in Gen : Best(b)
      BY <2>4 DEF StoreInv, BestInv
    <3>2. b \in Candidates
      BY <2>1, <3>1 DEF Best
    <3>3. Latest # {}
      BY <3>2, SomeLatest
    <3>4. ASSUME NEW g \in Latest
          PROVE  anchor[g].tick >= reported /\ Held(anchor[g].lsn) /\ FirstLsn <= anchor[g].lsn + 1
      <4>1. g \in Gen /\ g \in Possible /\ anchor[g].tick >= anchor[b].tick
        BY <2>0, <2>1, <3>2 DEF Latest, Candidates, Possible
      <4>2. anchor[b].tick >= reported /\ Held(anchor[b].lsn)
        BY <3>1 DEF Best
      <4>3. anchor[g].lsn >= anchor[b].lsn
        BY <3>1, <4>1 DEF Best
      <4>4. \A l \in (anchor[g].lsn + 1)..(last + 1) : l \in (anchor[b].lsn + 1)..(last + 1)
        BY <2>0, <4>1, <4>3
      <4>5. Held(anchor[g].lsn)
        BY <4>2, <4>4 DEF Held
      <4>6. PICK s \in segs : s <= anchor[g].lsn + 1
        <5>1. anchor[g].lsn + 1 \in (anchor[g].lsn + 1)..(last + 1)
          BY <2>0, <4>1
        <5> QED
          BY <4>5, <5>1 DEF Held, Inside
      <4>7. Min(segs) <= s /\ s \in Nat /\ Min(segs) \in Nat
        BY <2>2
      <4> QED
        BY <2>0, <2>2, <4>1, <4>2, <4>5, <4>6, <4>7
    <3>5. ASSUME Contiguous, NEW g \in Latest PROVE StartsFrom(anchor[g].lsn)
      BY <2>0, <3>4, <3>5 DEF StartsFrom, Latest, Candidates
    <3> QED
      BY <3>2, <3>3, <3>4, <3>5 DEF Accepts
  <2> QED
    BY <2>0, <2>3, <2>4
<1> QED
  BY <1>1, StoreInvariant, PTL

LEMMA FirstCovers == StoreInv /\ Contiguous => \A l \in Nat : FirstLsn <= l => Inside(l)
<1> SUFFICES ASSUME StoreInv, Contiguous, NEW l \in Nat, FirstLsn <= l PROVE Inside(l)
  OBVIOUS
<1>1. /\ FirstLsn = Min(segs) /\ Min(segs) \in segs
      /\ \A s \in segs : s \in Nat \ {0} /\ Min(segs) <= s
  BY FirstSegment
<1> DEFINE S == {c \in cuts : c <= l}
<1>2. cuts \subseteq Nat /\ segs \subseteq cuts
  BY DEF StoreInv, TypeOK
<1>3. S \in SUBSET (0..l) /\ Min(segs) \in S
  <2>1. \A c \in S : c \in Nat /\ c <= l
    BY <1>2
  <2>2. S \in SUBSET (0..l)
    BY <2>1
  <2>3. Min(segs) \in cuts /\ Min(segs) <= l
    BY <1>1, <1>2
  <2> QED
    BY <2>2, <2>3
<1>4. PICK s \in S : \A x \in S : x <= s
  <2> HIDE DEF S
  <2> QED
    BY <1>3, HasGreatest
<1>5. s \in cuts /\ s <= l /\ s >= Min(segs)
  BY <1>1, <1>2, <1>3, <1>4
<1>6. s \in segs
  BY <1>1, <1>5 DEF Contiguous
<1>7. \A c \in cuts : c <= s \/ c > l
  BY <1>2, <1>4
<1> QED
  BY <1>5, <1>6, <1>7 DEF Inside

(* An accepted start replays every record after the checkpoint it begins    *)
(* at, also with pairs that can no longer be read and with pruned segments  *)
(* (prune_covered_segments, RecoveryPlanner::build).                       *)
THEOREM NothingIsSkipped == Spec => []NothingSkipped
<1>1. StoreInv => NothingSkipped
  <2> SUFFICES ASSUME StoreInv PROVE NothingSkipped
    OBVIOUS
  <2>0. /\ Contiguous => \A l \in Nat : FirstLsn <= l => Inside(l)
        /\ FirstLsn \in Nat \ {0} /\ last \in Nat
        /\ \A g \in Gen : anchor[g].lsn \in Nat
    <3>1. FirstLsn \in Nat \ {0}
      BY FirstSegment
    <3>2. last \in Nat /\ \A g \in Gen : anchor[g].lsn \in Nat
      BY StoreConstants DEF StoreInv, TypeOK
    <3> QED
      BY FirstCovers, <3>1, <3>2
  <2>1. ASSUME NEW g \in Latest, StartsFrom(anchor[g].lsn), NEW l \in (anchor[g].lsn + 1)..last
        PROVE  Inside(l)
    <3>1. anchor[g].lsn \in Nat
      BY <2>0 DEF Latest, Candidates
    <3>2. FirstLsn <= anchor[g].lsn + 1
      BY <2>0, <2>1 DEF StartsFrom
    <3>3. l \in Nat /\ FirstLsn <= l
      BY <2>0, <3>1, <3>2
    <3> QED
      BY <2>0, <2>1, <3>3 DEF StartsFrom
  <2>2. ASSUME StartsAnew, NEW l \in 1..last PROVE Inside(l)
    <3>1. l \in Nat /\ FirstLsn <= l
      BY <2>0, <2>2 DEF StartsAnew
    <3> QED
      BY <2>0, <2>2, <3>1 DEF StartsAnew
  <2> QED
    BY <2>1, <2>2 DEF NothingSkipped
<1> QED
  BY <1>1, StoreInvariant, PTL

-----------------------------------------------------------------------------
(* Branches.                                                               *)

LEMMA ForkStep == ~ForkWhileLive /\ StoreInv /\ ForkInv /\ [Next]_vars => ForkInv'
<1> SUFFICES ASSUME ~ForkWhileLive, TypeOK, DirInv, ForkInv, [Next]_vars PROVE ForkInv'
  BY DEF StoreInv
<1> USE DEF wal, files, plan, forks, other
<1>0. MaxGen \in Nat /\ gen \in 0..MaxGen
  BY StoreConstants DEF TypeOK
<1>1. ASSUME NEW l \in 0..MaxLsn, Capture(l) PROVE ForkInv'
  <2>1. /\ gen' = gen + 1 /\ pc' = "data" /\ UNCHANGED forks
        /\ \A c \in Child : choosing[c] = 0
    BY <1>1 DEF Capture
  <2>2. \A c \in Child : fork[c] \in 0..gen' /\ choosing[c] \in 0..gen' /\ fork[c] # gen'
    BY <1>0, <2>1 DEF ForkInv
  <2> QED
    BY <2>1, <2>2 DEF ForkInv
<1>2. CASE Verify
  <2>1. /\ pc = "verify" /\ UNCHANGED <<gen, forks>> /\ Pinned' = Pinned
        /\ pc' = "idle" \/ (pc' = "retain" /\ pins' = Pinned)
    BY <1>2 DEF Verify, Pinned
  <2> QED
    BY <2>1 DEF ForkInv, Publishing
<1>3. ASSUME NEW c \in Child, PublishFork(c) \/ ForkFails(c) \/ \E g \in Gen : ChooseBase(c, g)
      PROVE  ForkInv'
  <2>1. CASE PublishFork(c)
    <3>1. /\ pc = "idle" /\ UNCHANGED <<gen, pc>>
          /\ fork' = [fork EXCEPT ![c] = choosing[c]] /\ choosing' = [choosing EXCEPT ![c] = 0]
      BY <2>1 DEF PublishFork
    <3>2. \A d \in Child : fork'[d] \in 0..gen /\ choosing'[d] \in 0..gen
      BY <1>0, <3>1 DEF ForkInv, TypeOK
    <3> QED
      BY <3>1, <3>2 DEF ForkInv, Publishing
  <2>2. CASE ForkFails(c)
    <3>1. choosing[c] # 0 /\ UNCHANGED <<gen, pc, fork>> /\ choosing' = [choosing EXCEPT ![c] = 0]
      BY <2>2 DEF ForkFails
    <3>2. pc = "idle"
      BY <3>1 DEF ForkInv
    <3>3. \A d \in Child : fork'[d] \in 0..gen /\ choosing'[d] \in 0..gen
      BY <1>0, <3>1 DEF ForkInv, TypeOK
    <3> QED
      BY <3>1, <3>2, <3>3 DEF ForkInv, Publishing
  <2>3. ASSUME NEW g \in Gen, ChooseBase(c, g) PROVE ForkInv'
    <3>1. /\ pc = "idle" /\ UNCHANGED <<gen, pc, fork>> /\ choosing' = [choosing EXCEPT ![c] = g]
          /\ g \in 0..gen
      BY <2>3 DEF ChooseBase, Complete, DirInv
    <3>2. \A d \in Child : fork'[d] \in 0..gen /\ choosing'[d] \in 0..gen
      BY <1>0, <3>1 DEF ForkInv, TypeOK
    <3> QED
      BY <3>1, <3>2 DEF ForkInv, Publishing
  <2> QED
    BY <1>3, <2>1, <2>2, <2>3
<1>4. ASSUME pc' = "idle", UNCHANGED <<gen, forks>> PROVE ForkInv'
  BY <1>4 DEF ForkInv, Publishing
<1>5. ASSUME pc # "idle", Publishing' => Publishing,
             pc' \in {"retain", "unlink"} => pc \in {"retain", "unlink"} /\ pins' = pins,
             UNCHANGED <<gen, forks>>
      PROVE  ForkInv'
  <2>1. Pinned' = Pinned
    BY <1>5 DEF Pinned
  <2> QED
    BY <1>5, <2>1 DEF ForkInv
<1>6. CASE NameData \/ SyncData \/ NameManifest \/ SyncManifest \/ PublishFails
  <2>1. /\ pc # "idle" /\ UNCHANGED <<gen, forks>> /\ Publishing
        /\ pc' \notin {"retain", "unlink"}
    BY <1>6 DEF NameData, SyncData, NameManifest, SyncManifest, PublishFails, Step, Publishing
  <2> QED
    BY <1>5, <2>1
<1>7. CASE \/ EndPrune
           \/ \E f \in BOOLEAN : EndRetention(f) \/ PruneOne(f) \/ RetireManifest(f)
                                  \/ \E g \in Gen : RetireData(g, f)
  <2>1. /\ pc # "idle" /\ UNCHANGED <<gen, forks>> /\ pc' \in {"idle", "retain", "unlink", "prune"}
        /\ pc' \in {"retain", "unlink"} => pc \in {"retain", "unlink"} /\ pins' = pins
    BY <1>7 DEF EndRetention, PruneOne, EndPrune, RetireManifest, RetireData, Step
  <2>2. Publishing' => Publishing
    BY <2>1 DEF Publishing
  <2> QED
    BY <1>5, <2>1, <2>2
<1>8. CASE Kill \/ \E d, m \in SUBSET Gen : \E w \in SUBSET segsS : PowerLoss(d, m, w)
  BY <1>4, <1>8 DEF Kill, PowerLoss, Down
<1>9. ASSUME UNCHANGED <<plan, forks>> PROVE ForkInv'
  BY <1>9 DEF ForkInv, Publishing, Pinned
<1>10. CASE \/ UNCHANGED vars \/ RestartAnew \/ \E r \in BOOLEAN : Commit(r)
            \/ \E g \in Gen : Rot(g) \/ RestartFrom(g)
  BY <1>9, <1>10 DEF vars, RestartAnew, RestartFrom, Commit, Rot
<1> QED
  BY <1>1, <1>2, <1>3, <1>6, <1>7, <1>8, <1>10 DEF Next

(* As long as gw-replay does not fork while the daemon publishes, no step   *)
(* of a running daemon takes away a pair that a branch was forked from:     *)
(* publish() removes its own pair or one that pinned_checkpoints missed.    *)
THEOREM ForksKeepTheirBase == ASSUME ~ForkWhileLive PROVE Spec => BaseStays
<1> DEFINE Stays == up /\ up' => \A c \in Child : fork[c] \in data \cap man =>
                                                  fork[c] \in data' \cap man'
<1>1. Init => ForkInv
  BY DEF Init, ForkInv, Publishing
<1>2. StoreInv /\ ForkInv /\ [Next]_vars => Stays
  <2> SUFFICES ASSUME TypeOK, DirInv, ForkInv, [Next]_vars, up, up',
                      NEW c \in Child, fork[c] \in data \cap man
               PROVE  fork[c] \in data' \cap man'
    BY DEF StoreInv
  <2> USE DEF wal, files, plan, forks, other
  <2>1. CASE PublishFails
    <3>1. fork[c] # gen
      BY <2>1 DEF PublishFails, ForkInv, Publishing
    <3> QED
      BY <2>1, <3>1 DEF PublishFails
  <2>2. fork[c] \in Pinned
    BY DEF Pinned, TypeOK, Gen
  <2>3. ASSUME NEW f \in BOOLEAN, NEW g \in Gen, RetireData(g, f)
        PROVE  fork[c] \in data' \cap man'
    <3>1. g \notin Pinned
      BY <2>3 DEF RetireData, Oldest, Removable, ForkInv
    <3> QED
      BY <2>2, <2>3, <3>1 DEF RetireData
  <2>4. ASSUME NEW f \in BOOLEAN, RetireManifest(f) PROVE fork[c] \in data' \cap man'
    <3>1. victim \notin Pinned
      BY <2>4 DEF RetireManifest, Step, ForkInv, DirInv
    <3> QED
      BY <2>2, <2>4, <3>1 DEF RetireManifest
  <2>5. CASE NameData \/ SyncData \/ NameManifest \/ SyncManifest \/ Verify
    BY <2>5 DEF NameData, SyncData, NameManifest, SyncManifest, SyncDirectory, Verify
  <2>6. CASE \/ EndPrune \/ RestartAnew \/ UNCHANGED vars
             \/ \E f \in BOOLEAN : EndRetention(f) \/ PruneOne(f)
    BY <2>6 DEF EndRetention, PruneOne, EndPrune, RestartAnew, vars
  <2>7. CASE \/ \E r \in BOOLEAN : Commit(r)
             \/ \E l \in 0..MaxLsn : Capture(l)
             \/ \E d \in Child : PublishFork(d) \/ ForkFails(d) \/ \E g \in Gen : ChooseBase(d, g)
             \/ \E g \in Gen : Rot(g) \/ RestartFrom(g)
    BY <2>7 DEF Commit, Capture, PublishFork, ForkFails, ChooseBase, Rot, RestartFrom
  <2>8. CASE Kill \/ \E d, m \in SUBSET Gen : \E w \in SUBSET segsS : PowerLoss(d, m, w)
    BY <2>8 DEF Kill, PowerLoss, Down
  <2> QED
    BY <2>1, <2>3, <2>4, <2>5, <2>6, <2>7, <2>8 DEF Next
<1>3. Spec => []ForkInv
  BY <1>1, ForkStep, StoreInvariant, PTL DEF Spec
<1> QED
  BY <1>2, <1>3, StoreInvariant, PTL DEF Spec, BaseStays
=============================================================================
