--------------------------- MODULE StreamPath_proofs ---------------------------
(***************************************************************************)
(* What a client's replica shows: whatever the state queue merges and      *)
(* drops, whatever is acknowledged late, evicted, throttled or renumbered, *)
(* for every set of entities, every limit and any number of ticks.  And,   *)
(* for the pool the projection runs on, that every index runs once.        *)
(***************************************************************************)
EXTENDS StreamPath, ThreadPool, SequenceTheorems, FiniteSetTheorems, WellFoundedInduction, TLAPS

-----------------------------------------------------------------------------
(* Sequences of whatever is in them.                                       *)

ElementsOf(s) == {s[i] : i \in DOMAIN s}

LEMMA OwnSequence ==
    ASSUME NEW S, NEW s \in Seq(S)
    PROVE  s \in Seq(ElementsOf(s)) /\ DOMAIN s = 1 .. Len(s) /\ Len(s) \in Nat
<1>1. Len(s) \in Nat /\ DOMAIN s = 1 .. Len(s)
  OBVIOUS
<1>2. s \in [1 .. Len(s) -> ElementsOf(s)]
  BY <1>1 DEF ElementsOf
<1>3. s \in Seq(ElementsOf(s))
  <2> DEFINE E == ElementsOf(s)
             n == Len(s)
  <2> HIDE DEF E, n
  <2>1. n \in Nat /\ s \in [1 .. n -> E]
    BY <1>1, <1>2 DEF E, n
  <2>2. s \in Seq(E)
    BY <2>1
  <2> QED
    BY <2>2 DEF E
<1> QED
  BY <1>1, <1>3

LEMMA Appended ==
    ASSUME NEW S, NEW s \in Seq(S), NEW x
    PROVE  /\ Append(s, x) \in Seq(S \cup {x})
           /\ Len(Append(s, x)) = Len(s) + 1
           /\ \A i \in 1 .. Len(s) : Append(s, x)[i] = s[i]
           /\ Append(s, x)[Len(s) + 1] = x
<1>1. s \in Seq(S \cup {x})
  OBVIOUS
<1> QED
  BY <1>1, AppendProperties

(* The end of a sequence, after its first k elements.                       *)
LEMMA Suffix ==
    ASSUME NEW S, NEW s \in Seq(S), NEW k \in 0 .. Len(s)
    PROVE  LET t == SubSeq(s, k + 1, Len(s))
           IN  /\ t \in Seq(S) /\ Len(t) = Len(s) - k
               /\ \A i \in 1 .. Len(s) - k : t[i] = s[i + k]
<1>1. Len(s) \in Nat /\ k \in Nat /\ k <= Len(s)
  OBVIOUS
<1>2. \A i \in k + 1 .. Len(s) : s[i] \in S
  BY <1>1
<1> DEFINE n == Len(s)
           t == SubSeq(s, k + 1, n)
<1>3. /\ t \in Seq(S)
      /\ Len(t) = IF k + 1 <= n THEN n - (k + 1) + 1 ELSE 0
      /\ \A i \in 1 .. n - (k + 1) + 1 : t[i] = s[k + 1 + i - 1]
  BY <1>1, <1>2, SubSeqProperties, SMTT(60)
<1> HIDE DEF n, t
<1>4. n \in Nat /\ k \in Nat /\ k <= n
  BY <1>1 DEF n
<1>5. Len(t) = n - k
  BY <1>3, <1>4
<1>6. \A i \in 1 .. n - k : t[i] = s[i + k]
  <2> SUFFICES ASSUME NEW i \in 1 .. n - k PROVE t[i] = s[i + k]
    OBVIOUS
  <2>1. i \in 1 .. n - (k + 1) + 1 /\ k + 1 + i - 1 = i + k
    BY <1>4
  <2> QED
    BY <1>3, <2>1
<1> QED
  BY <1>3, <1>5, <1>6 DEF n, t

-----------------------------------------------------------------------------
(* What a connection remembers.                                            *)

Fields == {"epoch", "floor", "nextFid", "fid", "view", "acked", "base", "needs", "lastKey", "nextKey",
           "recs", "dirty", "throttled", "cached"}

Unrecorded == Fields \ {"recs", "needs"}    \* what Record() leaves alone

LEMMA FieldsAre == DOMAIN NewConnection = Fields
BY DEF NewConnection, Fields

LEMMA UnackedIs ==
    ASSUME NEW c, NEW w
    PROVE  w \in Unacked(c) <=> \E i \in DOMAIN c.recs : w \in DOMAIN c.recs[i].ops
BY DEF Unacked

(* record_sent() appends and evicts the k oldest, which asks for a keyframe.*)
LEMMA Recording ==
    ASSUME NEW c, Shaped(c), NEW n \in Nat, RecordsInOrder(c, n - 1), NEW ops
    PROVE  LET r == Record(c, n, ops)
               all == Append(c.recs, [id |-> n, ops |-> ops])
           IN  /\ DOMAIN r = Fields
               /\ \A x \in Unrecorded : r[x] = c[x]
               /\ r.needs \in BOOLEAN
               /\ \E k \in 0 .. Len(all) :
                     /\ r.recs = SubSeq(all, k + 1, Len(all))
                     /\ IF k = 0 THEN r.needs = c.needs ELSE r.needs = TRUE
<1> DEFINE r == Record(c, n, ops)
           last == [id |-> n, ops |-> ops]
           all == Append(c.recs, last)
           surplus == Len(all) - MaxUnacked
<1>1. /\ DOMAIN c = Fields /\ c.needs \in BOOLEAN /\ c.recs \in Seq(ElementsOf(c.recs))
      /\ c.base \in Nat /\ c.base <= n - 1
      /\ \A i \in DOMAIN c.recs : c.recs[i].id \in c.base + 1 .. n - 1
  BY FieldsAre DEF Shaped, RecordsInOrder, ElementsOf
<1>2. /\ all \in Seq(ElementsOf(c.recs) \cup {last}) /\ Len(all) = Len(c.recs) + 1 /\ Len(c.recs) \in Nat
      /\ \A i \in 1 .. Len(c.recs) : all[i] = c.recs[i]
      /\ all[Len(c.recs) + 1] = last
  <2> DEFINE S == ElementsOf(c.recs)
             s == c.recs
  <2>1. s \in Seq(S)
    BY <1>1
  <2> HIDE DEF S, s, last
  <2>2. Len(s) \in Nat
    BY <2>1
  <2> QED
    BY <2>1, <2>2, Appended DEF S, s
<1>d. DOMAIN c.recs = 1 .. Len(c.recs)
  BY <1>1, OwnSequence
<1> HIDE DEF all
<1>3. \A i \in 1 .. Len(all) : all[i].id > c.base
  <2> SUFFICES ASSUME NEW i \in 1 .. Len(all) PROVE all[i].id > c.base
    OBVIOUS
  <2>1. CASE i = Len(c.recs) + 1
    <3>1. all[i].id = n
      BY <1>2, <2>1
    <3> QED
      BY <1>1, <3>1
  <2>2. CASE i # Len(c.recs) + 1
    <3>1. i \in 1 .. Len(c.recs) /\ i \in DOMAIN c.recs
      BY <1>2, <1>d, <2>2
    <3>2. all[i] = c.recs[i]
      BY <1>2, <3>1
    <3> QED
      BY <1>1, <3>1, <3>2
  <2> QED
    BY <2>1, <2>2
<1>4. MaxUnacked \in Nat /\ MaxUnacked >= 1
  BY ProjectionConstants
<1>5. CASE surplus <= 0
  <2>1. r = [c EXCEPT !.recs = all]
    BY <1>5 DEF Record, all
  <2>2. SubSeq(all, 1, Len(all)) = all
    BY <1>2, SubSeqFull
  <2>3. /\ r.recs = SubSeq(all, 0 + 1, Len(all)) /\ DOMAIN r = Fields /\ r.needs = c.needs
        /\ \A x \in Unrecorded : r[x] = c[x]
    BY <1>1, <2>1, <2>2 DEF Fields, Unrecorded
  <2>4. 0 \in 0 .. Len(all)
    BY <1>2
  <2> HIDE DEF r
  <2> QED
    BY <1>1, <2>3, <2>4 DEF r, all
<1>6. CASE ~(surplus <= 0)
  <2> DEFINE asks == \E i \in 1 .. surplus : all[i].id > c.base
  <2>1. r = [c EXCEPT !.recs = SubSeq(all, surplus + 1, Len(all)), !.needs = @ \/ asks]
    BY <1>6 DEF Record, all
  <2>2. surplus \in 0 .. Len(all) /\ surplus # 0 /\ 1 \in 1 .. surplus /\ 1 \in 1 .. Len(all)
    BY <1>2, <1>4, <1>6
  <2>3. asks = TRUE
    BY <1>3, <2>2
  <2> HIDE DEF asks, surplus
  <2>4. /\ DOMAIN r = Fields /\ r.recs = SubSeq(all, surplus + 1, Len(all)) /\ r.needs = TRUE
        /\ \A x \in Unrecorded : r[x] = c[x]
    BY <1>1, <2>1, <2>3 DEF Fields, Unrecorded
  <2> HIDE DEF r
  <2> QED
    BY <2>2, <2>4 DEF r, all
<1> QED
  BY <1>5, <1>6

LEMMA InOrderLater ==
    ASSUME NEW c, c.base \in Nat, NEW n \in Nat, RecordsInOrder(c, n - 1)
    PROVE  RecordsInOrder(c, n)
<1> DEFINE b == c.base
           id(i) == c.recs[i].id
<1>1. b <= n - 1 /\ \A i \in DOMAIN c.recs : id(i) \in b + 1 .. n - 1
  BY DEF RecordsInOrder
<1>2. \A i, j \in DOMAIN c.recs : i < j => id(i) < id(j)
  BY DEF RecordsInOrder
<1>b. b \in Nat
  OBVIOUS
<1> HIDE DEF b, id
<1>3. b <= n /\ \A i \in DOMAIN c.recs : id(i) \in b + 1 .. n
  BY <1>1, <1>b
<1> QED
  BY <1>2, <1>3 DEF RecordsInOrder, b, id

(* Afterwards the records are old ones and the new one, in order, and all  *)
(* of them unless a keyframe is asked for.                                 *)
HasRecorded(r, c, n, ops) ==
    /\ Shaped(r) /\ RecordsInOrder(r, n)
    /\ \A x \in Unrecorded : r[x] = c[x]
    /\ \A i \in DOMAIN r.recs : \/ r.recs[i] = [id |-> n, ops |-> ops]
                                \/ \E j \in DOMAIN c.recs : r.recs[i] = c.recs[j]
    /\ c.needs => r.needs
    /\ ~r.needs => Unacked(r) = Unacked(c) \cup DOMAIN ops

LEMMA Recorded ==
    ASSUME NEW c, Shaped(c), NEW n \in Nat, RecordsInOrder(c, n - 1), NEW ops
    PROVE  HasRecorded(Record(c, n, ops), c, n, ops)
<1> DEFINE r == Record(c, n, ops)
           last == [id |-> n, ops |-> ops]
           old == c.recs
           all == Append(old, last)
           m == Len(old)
<1>1. /\ DOMAIN c = Fields /\ c.epoch \in Nat /\ c.nextFid \in Nat /\ c.base \in Nat /\ c.needs \in BOOLEAN
      /\ old \in Seq(ElementsOf(old)) /\ c.base <= n - 1
      /\ \A i \in DOMAIN old : /\ old[i].id \in c.base + 1 .. n - 1
                              /\ \A j \in DOMAIN old : i < j => old[i].id < old[j].id
  BY FieldsAre DEF Shaped, RecordsInOrder, ElementsOf
<1>e. \E k \in 0 .. Len(all) :
         /\ r.recs = SubSeq(all, k + 1, Len(all))
         /\ IF k = 0 THEN r.needs = c.needs ELSE r.needs = TRUE
  BY Recording, ZenonT(60)
<1>2. PICK k \in 0 .. Len(all) :
         /\ r.recs = SubSeq(all, k + 1, Len(all))
         /\ IF k = 0 THEN r.needs = c.needs ELSE r.needs = TRUE
  BY <1>e, Zenon
<1>3. /\ DOMAIN r = Fields /\ r.needs \in BOOLEAN
      /\ \A x \in Unrecorded : r[x] = c[x]
  <2>1. DOMAIN r = Fields
    BY Recording, Zenon
  <2>2. r.needs \in BOOLEAN
    BY Recording, Zenon
  <2>3. \A x \in Unrecorded : r[x] = c[x]
    BY Recording, Zenon
  <2> QED
    BY <2>1, <2>2, <2>3
<1>l. last.id = n /\ last.ops = ops
  OBVIOUS
<1>d. DOMAIN old = 1 .. m /\ m \in Nat
  <2> HIDE DEF old
  <2> QED
    BY <1>1, OwnSequence
<1> HIDE DEF r, last, old
<1>4. /\ all \in Seq(ElementsOf(old) \cup {last}) /\ Len(all) = m + 1
      /\ \A i \in 1 .. m : all[i] = old[i]
      /\ all[m + 1] = last
  <2> DEFINE S == ElementsOf(old)
  <2> HIDE DEF S
  <2>1. old \in Seq(S)
    BY <1>1 DEF S
  <2> QED
    BY <2>1, Appended DEF S
<1> HIDE DEF all, m
<1> DEFINE rs == r.recs
<1>5. /\ rs \in Seq(ElementsOf(old) \cup {last}) /\ Len(rs) = m + 1 - k
      /\ \A i \in 1 .. m + 1 - k : rs[i] = all[i + k]
  <2> DEFINE S == ElementsOf(old) \cup {last}
             t == SubSeq(all, k + 1, Len(all))
  <2>1. k \in 0 .. Len(all) /\ all \in Seq(S)
    BY <1>2, <1>4
  <2> HIDE DEF S
  <2>2. t \in Seq(S) /\ Len(t) = Len(all) - k /\ \A i \in 1 .. Len(all) - k : t[i] = all[i + k]
    BY <2>1, Suffix
  <2>3. rs = t
    BY <1>2
  <2> HIDE DEF t, rs
  <2> QED
    <3>1. rs \in Seq(ElementsOf(old) \cup {last})
      BY <2>2, <2>3 DEF S
    <3>2. Len(rs) = m + 1 - k
      BY <1>4, <1>d, <2>2, <2>3
    <3>3. \A i \in 1 .. m + 1 - k : rs[i] = all[i + k]
      BY <1>4, <1>d, <2>2, <2>3
    <3> QED
      BY <3>1, <3>2, <3>3
<1>6. rs \in Seq(ElementsOf(rs)) /\ DOMAIN rs = 1 .. m + 1 - k
  <2> HIDE DEF rs
  <2> QED
    BY <1>5, OwnSequence
<1> HIDE DEF rs
<1>7. k \in Nat /\ k <= m + 1
  BY <1>2, <1>4, <1>d
<1>8. ASSUME NEW i \in DOMAIN rs
      PROVE  \/ i + k = m + 1 /\ rs[i] = last
             \/ i + k \in 1 .. m /\ rs[i] = old[i + k] /\ i + k \in DOMAIN old
  <2>1. i \in 1 .. m + 1 - k /\ rs[i] = all[i + k]
    BY <1>5, <1>6
  <2>2. i + k = m + 1 \/ i + k \in 1 .. m
    BY <1>7, <1>d, <2>1
  <2> QED
    BY <1>4, <1>d, <2>1, <2>2
<1>9. \A i \in DOMAIN rs : rs[i].id \in c.base + 1 .. n
  <2> SUFFICES ASSUME NEW i \in DOMAIN rs PROVE rs[i].id \in c.base + 1 .. n
    OBVIOUS
  <2>1. CASE rs[i] = last
    BY <1>1, <1>l, <2>1
  <2>2. CASE i + k \in DOMAIN old /\ rs[i] = old[i + k]
    <3>1. rs[i].id \in c.base + 1 .. n - 1
      BY <1>1, <2>2
    <3> QED
      BY <1>1, <3>1
  <2> QED
    BY <1>8, <2>1, <2>2
<1>10. \A i, j \in DOMAIN rs : i < j => rs[i].id < rs[j].id
  <2> SUFFICES ASSUME NEW i \in DOMAIN rs, NEW j \in DOMAIN rs, i < j PROVE rs[i].id < rs[j].id
    OBVIOUS
  <2>1. i + k < j + k /\ j + k <= m + 1 /\ i + k \in Nat /\ j + k \in Nat
    BY <1>6, <1>7, <1>d
  <2>2. i + k \in DOMAIN old /\ rs[i] = old[i + k]
    BY <1>8, <1>d, <2>1
  <2>3. CASE rs[j] = last
    <3>1. rs[i].id \in c.base + 1 .. n - 1
      BY <1>1, <2>2
    <3> QED
      BY <1>1, <1>l, <2>3, <3>1
  <2>4. CASE j + k \in DOMAIN old /\ rs[j] = old[j + k]
    BY <1>1, <2>1, <2>2, <2>4
  <2> QED
    BY <1>8, <2>3, <2>4
<1>11. r.base = c.base /\ r.epoch = c.epoch /\ r.nextFid = c.nextFid
  BY <1>3 DEF Fields, Unrecorded
<1>12. Shaped(r)
  BY <1>1, <1>3, <1>6, <1>11, FieldsAre DEF Shaped, ElementsOf, rs
<1>13. RecordsInOrder(r, n)
  BY <1>1, <1>9, <1>10, <1>11 DEF RecordsInOrder, rs
<1>14. \A i \in DOMAIN rs : rs[i] = last \/ \E j \in DOMAIN old : rs[i] = old[j]
  BY <1>8
<1>15. c.needs => r.needs
  BY <1>2
<1>16. ASSUME ~r.needs PROVE Unacked(r) = Unacked(c) \cup DOMAIN ops
  <2>1. k = 0
    BY <1>2, <1>16
  <2>2. DOMAIN rs = 1 .. m + 1 /\ rs[m + 1] = last /\ \A i \in 1 .. m : rs[i] = old[i]
    BY <1>4, <1>5, <1>6, <1>d, <2>1
  <2>3. \A w : w \in Unacked(r) <=> w \in Unacked(c) \/ w \in DOMAIN ops
    <3>1. ASSUME NEW w, NEW i \in DOMAIN rs, w \in DOMAIN rs[i].ops
          PROVE  w \in DOMAIN ops \/ \E j \in DOMAIN old : w \in DOMAIN old[j].ops
      BY <1>14, <1>l, <3>1
    <3>2. ASSUME NEW w, NEW i \in DOMAIN old, w \in DOMAIN old[i].ops
          PROVE  \E j \in DOMAIN rs : w \in DOMAIN rs[j].ops
      <4>1. i \in DOMAIN rs /\ rs[i] = old[i]
        BY <1>d, <2>2
      <4> QED
        BY <3>2, <4>1
    <3>3. ASSUME NEW w \in DOMAIN ops PROVE \E j \in DOMAIN rs : w \in DOMAIN rs[j].ops
      <4>1. m + 1 \in DOMAIN rs
        BY <1>d, <2>2
      <4> QED
        BY <1>l, <2>2, <4>1
    <3>4. \A w : w \in Unacked(r) <=> \E i \in DOMAIN rs : w \in DOMAIN rs[i].ops
      BY UnackedIs DEF rs
    <3>5. \A w : w \in Unacked(c) <=> \E i \in DOMAIN old : w \in DOMAIN old[i].ops
      BY UnackedIs DEF old
    <3> QED
      BY <3>1, <3>2, <3>3, <3>4, <3>5, Zenon
  <2> QED
    BY <2>3
<1> QED
  BY <1>3, <1>12, <1>13, <1>14, <1>15, <1>16 DEF HasRecorded, r, rs, old, last

-----------------------------------------------------------------------------
(* Numbering.                                                              *)

OneToOne(c) ==
    /\ \A w \in DOMAIN c.fid : c.fid[w] \in 0 .. c.nextFid - 1
    /\ \A v, w \in DOMAIN c.fid : c.fid[v] = c.fid[w] => v = w

Unmapped == Fields \ {"fid", "nextFid"}      \* what MapFids() leaves alone

Below(new, w) == {v \in new : v < w}

LEMMA Ranks ==
    ASSUME NEW new \in SUBSET Wid
    PROVE  /\ Cardinality(new) \in Nat
           /\ \A w \in new : Cardinality(Below(new, w)) \in 0 .. Cardinality(new) - 1
           /\ \A v, w \in new : Cardinality(Below(new, v)) = Cardinality(Below(new, w)) => v = w
<1>1. new \in SUBSET Nat /\ IsFiniteSet(new)
  BY ProjectionConstants, FS_Subset
<1>2. Cardinality(new) \in Nat /\ \A w \in new : IsFiniteSet(Below(new, w))
  BY <1>1, FS_Subset, FS_CardinalityType DEF Below
<1>3. ASSUME NEW S, NEW T \in SUBSET S, IsFiniteSet(S), T # S
      PROVE  Cardinality(T) \in Nat /\ Cardinality(S) \in Nat /\ Cardinality(T) < Cardinality(S)
  <2>1. IsFiniteSet(T) /\ Cardinality(T) <= Cardinality(S) /\ Cardinality(T) # Cardinality(S)
    BY <1>3, FS_Subset
  <2>2. Cardinality(T) \in Nat /\ Cardinality(S) \in Nat
    BY <1>3, <2>1, FS_CardinalityType
  <2> QED
    BY <2>1, <2>2
<1>4. ASSUME NEW w \in new PROVE Cardinality(Below(new, w)) \in 0 .. Cardinality(new) - 1
  <2> DEFINE T == Below(new, w)
  <2>1. T \in SUBSET new /\ T # new
    BY <1>1 DEF Below
  <2> HIDE DEF T
  <2>2. Cardinality(T) \in Nat /\ Cardinality(T) < Cardinality(new)
    BY <1>1, <1>3, <2>1
  <2> QED
    BY <1>2, <2>2 DEF T
<1>5. ASSUME NEW v \in new, NEW w \in new, v < w
      PROVE  Cardinality(Below(new, v)) # Cardinality(Below(new, w))
  <2> DEFINE T == Below(new, v)
             S == Below(new, w)
  <2>1. v \in Nat /\ w \in Nat
    BY <1>1
  <2>2. T \in SUBSET S
    <3> SUFFICES ASSUME NEW x \in T PROVE x \in S
      OBVIOUS
    <3>1. x \in new /\ x \in Nat /\ x < v
      BY <1>1 DEF Below
    <3>2. x < w
      BY <1>5, <2>1, <3>1
    <3> QED
      BY <3>1, <3>2 DEF Below
  <2>3. v \in S /\ v \notin T
    BY <1>5, <2>1 DEF Below
  <2>4. IsFiniteSet(S)
    BY <1>2
  <2> HIDE DEF S, T
  <2>5. Cardinality(T) \in Nat /\ Cardinality(S) \in Nat /\ Cardinality(T) < Cardinality(S)
    BY <1>3, <2>2, <2>3, <2>4
  <2> QED
    BY <2>5 DEF S, T
<1>6. \A v, w \in new : v # w => v < w \/ w < v
  BY <1>1
<1> QED
  BY <1>2, <1>4, <1>5, <1>6

(* Mapping more wids leaves the mapping one-to-one.                         *)
LEMMA Mapping ==
    ASSUME NEW c, Shaped(c), OneToOne(c), NEW wids \in SUBSET Wid
    PROVE  LET m == MapFids(c, wids)
           IN  /\ DOMAIN m = Fields
               /\ \A x \in Unmapped : m[x] = c[x]
               /\ m.nextFid \in Nat
               /\ DOMAIN m.fid = DOMAIN c.fid \cup wids
               /\ \A w \in DOMAIN c.fid : m.fid[w] = c.fid[w]
               /\ OneToOne(m)
<1> DEFINE new == wids \ DOMAIN c.fid
           more == [w \in DOMAIN c.fid \cup new |->
                       IF w \in new THEN c.nextFid + Cardinality({v \in new : v < w}) ELSE c.fid[w]]
           upto == c.nextFid + Cardinality(new)
           m == MapFids(c, wids)
<1>1. DOMAIN c = Fields /\ c.nextFid \in Nat
  BY FieldsAre DEF Shaped
<1>2. m = [c EXCEPT !.fid = more, !.nextFid = upto]
  BY DEF MapFids
<1>3. DOMAIN more = DOMAIN c.fid \cup wids
  OBVIOUS
<1>4. \A w \in new : more[w] = c.nextFid + Cardinality(Below(new, w))
  BY DEF Below
<1>5. \A w \in DOMAIN c.fid : more[w] = c.fid[w] /\ w \notin new
  OBVIOUS
<1>6. new \in SUBSET Wid
  OBVIOUS
<1>n. DOMAIN more = DOMAIN c.fid \cup new
  OBVIOUS
<1> HIDE DEF new, more
<1>7. /\ Cardinality(new) \in Nat
      /\ \A w \in new : Cardinality(Below(new, w)) \in 0 .. Cardinality(new) - 1
      /\ \A v, w \in new : Cardinality(Below(new, v)) = Cardinality(Below(new, w)) => v = w
  BY <1>6, Ranks
<1>8. upto \in Nat /\ upto >= c.nextFid
  BY <1>1, <1>7
<1>9. ASSUME NEW w \in new PROVE more[w] \in c.nextFid .. upto - 1
  BY <1>1, <1>4, <1>7
<1>10. ASSUME NEW w \in DOMAIN c.fid PROVE more[w] \in 0 .. c.nextFid - 1
  BY <1>5 DEF OneToOne
<1>11. \A w \in DOMAIN more : more[w] \in 0 .. upto - 1
  BY <1>1, <1>8, <1>9, <1>10, <1>n
<1>12. ASSUME NEW v \in DOMAIN more, NEW w \in DOMAIN more, more[v] = more[w] PROVE v = w
  <2>1. CASE v \in new /\ w \in new
    <3>1. /\ more[v] = c.nextFid + Cardinality(Below(new, v))
          /\ more[w] = c.nextFid + Cardinality(Below(new, w))
          /\ Cardinality(Below(new, v)) \in Nat /\ Cardinality(Below(new, w)) \in Nat
      BY <1>4, <1>7, <2>1
    <3> DEFINE a == Cardinality(Below(new, v))
               b == Cardinality(Below(new, w))
    <3>2. a = b
      <4> HIDE DEF a, b
      <4>1. a \in Nat /\ b \in Nat /\ c.nextFid + a = c.nextFid + b
        BY <1>12, <3>1 DEF a, b
      <4> QED
        BY <1>1, <4>1
    <3> QED
      BY <1>7, <2>1, <3>2
  <2>2. CASE v \in DOMAIN c.fid /\ w \in DOMAIN c.fid
    BY <1>5, <1>12, <2>2 DEF OneToOne
  <2>3. CASE v \in new /\ w \in DOMAIN c.fid
    BY <1>1, <1>8, <1>9, <1>10, <1>12, <2>3
  <2>4. CASE v \in DOMAIN c.fid /\ w \in new
    BY <1>1, <1>8, <1>9, <1>10, <1>12, <2>4
  <2> QED
    BY <1>n, <2>1, <2>2, <2>3, <2>4
<1> HIDE DEF upto
<1>13. /\ DOMAIN m = Fields /\ m.fid = more /\ m.nextFid = upto
       /\ \A x \in Unmapped : m[x] = c[x]
  BY <1>1, <1>2 DEF Fields, Unmapped
<1> HIDE DEF m
<1>14. OneToOne(m)
  BY <1>11, <1>12, <1>13 DEF OneToOne
<1> QED
  BY <1>3, <1>5, <1>8, <1>13, <1>14 DEF m

(* A connection that has the names of another one, and perhaps more.        *)
Grown(c, d) == \A w \in DOMAIN c.fid : w \in DOMAIN d.fid /\ d.fid[w] = c.fid[w]

LEMMA NamesStay ==
    ASSUME NEW c, NEW d, Grown(c, d), NEW ops, NamesAll(c, ops)
    PROVE  NamesAll(d, ops)
BY DEF Grown, NamesAll, Named

(* Recording operations that are named keeps everything numbered.           *)
LEMMA RecordedNumbered ==
    ASSUME NEW c, Shaped(c), NEW n \in Nat, RecordsInOrder(c, n - 1), Numbered(c), NEW ops,
           NamesAll(c, ops)
    PROVE  Numbered(Record(c, n, ops))
<1> DEFINE r == Record(c, n, ops)
           last == [id |-> n, ops |-> ops]
<1>h. HasRecorded(r, c, n, ops)
  BY Recorded
<1>3. last.ops = ops
  OBVIOUS
<1> HIDE DEF r
<1>1. \A x \in Unrecorded : r[x] = c[x]
  BY <1>h DEF HasRecorded
<1>2. \A i \in DOMAIN r.recs : r.recs[i] = last \/ \E j \in DOMAIN c.recs : r.recs[i] = c.recs[j]
  BY <1>h DEF HasRecorded
<1> HIDE DEF last
<1>4. r.fid = c.fid /\ r.nextFid = c.nextFid /\ r.acked = c.acked
  BY <1>1 DEF Unrecorded, Fields
<1>5. \A i \in DOMAIN r.recs : NamesAll(c, r.recs[i].ops)
  BY <1>2, <1>3 DEF Numbered
<1>6. \A x : NamesAll(c, x) => NamesAll(r, x)
  BY <1>4 DEF NamesAll, Named
<1>7. \A w \in DOMAIN r.acked : Named(r, w, r.acked[w].fid)
  BY <1>4 DEF Numbered, Named
<1>8. /\ \A w \in DOMAIN r.fid : r.fid[w] \in 0 .. r.nextFid - 1
      /\ \A v, w \in DOMAIN r.fid : r.fid[v] = r.fid[w] => v = w
  BY <1>4 DEF Numbered
<1> QED
  BY <1>5, <1>6, <1>7, <1>8 DEF Numbered, r

(* A connection that differs only in its names, which grew.                 *)
LEMMA GrownNumbered ==
    ASSUME NEW c, NEW d, Numbered(c), Grown(c, d), OneToOne(d), d.acked = c.acked, d.recs = c.recs
    PROVE  Numbered(d)
<1>1. \A w \in DOMAIN d.acked : Named(d, w, d.acked[w].fid)
  BY DEF Numbered, Named, Grown
<1>2. \A i \in DOMAIN d.recs : NamesAll(d, d.recs[i].ops)
  BY NamesStay DEF Numbered
<1> QED
  BY <1>1, <1>2 DEF Numbered, OneToOne

-----------------------------------------------------------------------------
(* build_frame().                                                          *)

(* What holds of the connection and of the frame that a projection of the  *)
(* world wd as snapshot n makes of a connection c, in one epoch.           *)
KeptBy(c, d, n) ==
    /\ Shaped(d) /\ RecordsInOrder(d, n) /\ Numbered(d) /\ ViewFollows(d)
    /\ d.epoch = c.epoch /\ Grown(c, d)
FramedBy(d, f, wd, n) ==
    /\ f.kind \in {"keyframe", "delta"} /\ f.id = n /\ f.epoch = d.epoch
    /\ NamesAll(d, f.ops) /\ Shows(f, wd)

LEMMA KeyframeBuilt ==
    ASSUME NEW c, Shaped(c), NEW n \in Nat, RecordsInOrder(c, n - 1), Numbered(c), NEW wd, NEW forced
    PROVE  LET b == BuildKeyframe(c, wd, n, forced)
           IN  /\ DOMAIN b = {"conn", "frame"}
               /\ KeptBy(c, b.conn, n) /\ FramedBy(b.conn, b.frame, wd, n)
               /\ b.frame.kind = "keyframe"
<1> DEFINE visible == Visible(wd)
           m == MapFids(c, visible)
           enters == [w \in visible |-> [kind |-> "enter", fid |-> m.fid[w], hash |-> wd[w].hash]]
           ops == [w \in visible \cup DOMAIN c.acked |->
                      IF w \in visible THEN enters[w]
                      ELSE [kind |-> "leave", fid |-> c.acked[w].fid, hash |-> 0]]
           view == [w \in visible |-> [fid |-> m.fid[w], last |-> n, hash |-> wd[w].hash]]
           nextKey == n + KeyframeInterval - (IF forced THEN Phase ELSE 0)
           sent == [m EXCEPT !.view = view, !.dirty = {}, !.throttled = {}, !.needs = FALSE,
                             !.lastKey = n, !.nextKey = nextKey]
           frame == [kind |-> "keyframe", id |-> n, epoch |-> c.epoch, base |-> 0, ops |-> enters]
           r == Record(sent, n, ops)
<1>b. BuildKeyframe(c, wd, n, forced) = [conn |-> r, frame |-> frame]
  BY DEF BuildKeyframe
<1>v. visible \in SUBSET Wid
  BY DEF Visible
<1>o. OneToOne(c) /\ DOMAIN c = Fields
  BY FieldsAre DEF Numbered, OneToOne, Shaped
<1> HIDE DEF visible
<1>1. /\ DOMAIN m = Fields /\ m.nextFid \in Nat
      /\ \A x \in Unmapped : m[x] = c[x]
      /\ DOMAIN m.fid = DOMAIN c.fid \cup visible
      /\ \A w \in DOMAIN c.fid : m.fid[w] = c.fid[w]
      /\ OneToOne(m)
  BY <1>o, <1>v, Mapping, Zenon
<1>e. /\ DOMAIN enters = visible
      /\ \A w \in visible : /\ enters[w].kind = "enter"
                             /\ enters[w].fid = m.fid[w] /\ enters[w].hash = wd[w].hash
  OBVIOUS
<1>p. /\ DOMAIN ops = visible \cup DOMAIN c.acked
      /\ \A w \in DOMAIN ops : IF w \in visible THEN ops[w] = enters[w] ELSE ops[w].kind = "leave"
  OBVIOUS
<1>w. DOMAIN view = visible
  OBVIOUS
<1> HIDE DEF m, enters, ops, view, nextKey
<1>2. m.epoch = c.epoch /\ m.base = c.base /\ m.acked = c.acked /\ m.recs = c.recs
  BY <1>1 DEF Unmapped, Fields
<1>3. /\ DOMAIN sent = Fields /\ sent.view = view /\ sent.dirty = {} /\ sent.needs = FALSE
      /\ sent.epoch = c.epoch /\ sent.base = c.base /\ sent.acked = c.acked /\ sent.recs = c.recs
      /\ sent.fid = m.fid /\ sent.nextFid = m.nextFid
  BY <1>1, <1>2 DEF Fields
<1> HIDE DEF sent
<1>4. Shaped(sent) /\ RecordsInOrder(sent, n - 1)
  <2>1. Shaped(sent)
    <3>1. /\ c.epoch \in Nat /\ c.base \in Nat /\ c.recs \in Seq({c.recs[i] : i \in DOMAIN c.recs})
      BY DEF Shaped
    <3>2. DOMAIN sent = DOMAIN NewConnection /\ sent.nextFid \in Nat /\ sent.needs \in BOOLEAN
      BY <1>1, <1>3, FieldsAre
    <3> QED
      BY <1>3, <3>1, <3>2 DEF Shaped
  <2>2. RecordsInOrder(sent, n - 1)
    BY <1>3 DEF RecordsInOrder
  <2> QED
    BY <2>1, <2>2
<1>5. Grown(c, sent) /\ OneToOne(sent)
  BY <1>1, <1>3 DEF Grown, OneToOne
<1>6. Numbered(sent)
  BY <1>3, <1>5, GrownNumbered
<1>7. NamesAll(sent, ops) /\ NamesAll(sent, enters)
  BY <1>1, <1>3, <1>e, <1>p DEF NamesAll, Named
<1>8. Numbered(r)
  BY <1>4, <1>6, <1>7, RecordedNumbered
<1>h. HasRecorded(r, sent, n, ops)
  BY <1>4, Recorded
<1> HIDE DEF r
<1>9. Shaped(r) /\ RecordsInOrder(r, n) /\ (~r.needs => Unacked(r) = Unacked(sent) \cup DOMAIN ops)
  BY <1>h DEF HasRecorded
<1>10. \A x \in Unrecorded : r[x] = sent[x]
  BY <1>h DEF HasRecorded
<1>11. /\ r.view = view /\ r.acked = c.acked /\ r.epoch = c.epoch /\ r.fid = sent.fid
  BY <1>3, <1>10 DEF Unrecorded, Fields
<1>12. ViewFollows(r)
  BY <1>9, <1>11, <1>p, <1>w DEF ViewFollows
<1>13. Grown(c, r) /\ NamesAll(r, enters)
  BY <1>5, <1>7, <1>11 DEF Grown, NamesAll, Named
<1>14. Shows(frame, wd)
  BY <1>e DEF Shows, visible
<1>15. FramedBy(r, frame, wd, n)
  BY <1>11, <1>13, <1>14 DEF FramedBy
<1>16. KeptBy(c, r, n)
  BY <1>8, <1>9, <1>11, <1>12, <1>13 DEF KeptBy
<1> QED
  BY <1>b, <1>15, <1>16

(* current_view after the convergence: the frame where it speaks, and the  *)
(* acknowledged view elsewhere.                                             *)
LEMMA Converged ==
    ASSUME NEW c, ViewFollows(c), ~c.needs, NEW framed, NEW leaves
    PROVE  LET v == Converge(c, framed, leaves)
           IN  /\ \A w \in DOMAIN framed : w \in DOMAIN v /\ v[w] = framed[w]
               /\ \A w \in leaves : w \notin DOMAIN framed => w \notin DOMAIN v
               /\ \A w : w \notin leaves /\ w \notin DOMAIN framed => SameEntry(v, c.acked, w)
<1> DEFINE touched == c.dirty \cup Unacked(c)
           back == (touched \cap DOMAIN c.acked) \ (DOMAIN framed \cup leaves)
           kept == DOMAIN c.view \ (touched \cup DOMAIN framed \cup leaves)
           v == Converge(c, framed, leaves)
<1>1. /\ DOMAIN v = DOMAIN framed \cup back \cup kept
      /\ \A w \in DOMAIN v : v[w] = IF w \in DOMAIN framed THEN framed[w]
                                    ELSE IF w \in back THEN c.acked[w] ELSE c.view[w]
  BY DEF Converge
<1>2. \A w : w \in back <=> /\ w \in touched /\ w \in DOMAIN c.acked
                         /\ w \notin DOMAIN framed /\ w \notin leaves
  OBVIOUS
<1>3. \A w : w \in kept <=> /\ w \in DOMAIN c.view /\ w \notin touched
                         /\ w \notin DOMAIN framed /\ w \notin leaves
  OBVIOUS
<1>4. \A w : w \notin touched /\ (w \in DOMAIN c.view \/ w \in DOMAIN c.acked)
             => SameEntry(c.view, c.acked, w)
  BY DEF ViewFollows
<1> HIDE DEF v, back, kept, touched
<1>5. ASSUME NEW w, w \notin leaves, w \notin DOMAIN framed PROVE SameEntry(v, c.acked, w)
  <2>1. CASE w \in touched
    <3>1. w \in DOMAIN v <=> w \in DOMAIN c.acked
      BY <1>1, <1>2, <1>3, <1>5, <2>1
    <3>2. w \in DOMAIN v => v[w] = c.acked[w]
      BY <1>1, <1>2, <1>3, <1>5, <2>1
    <3> QED
      BY <3>1, <3>2 DEF SameEntry
  <2>2. CASE w \notin touched
    <3>1. w \in DOMAIN v <=> w \in DOMAIN c.view
      BY <1>1, <1>2, <1>3, <1>5, <2>2
    <3>2. w \in DOMAIN v => v[w] = c.view[w]
      BY <1>1, <1>2, <1>3, <1>5, <2>2
    <3> QED
      BY <1>4, <2>2, <3>1, <3>2 DEF SameEntry
  <2> QED
    BY <2>1, <2>2
<1>6. \A w \in DOMAIN framed : w \in DOMAIN v /\ v[w] = framed[w]
  BY <1>1
<1>7. \A w \in leaves : w \notin DOMAIN framed => w \notin DOMAIN v
  BY <1>1, <1>2, <1>3
<1> QED
  BY <1>5, <1>6, <1>7 DEF v

(* The view sent is the acknowledged one with the frame's operations.       *)
Whole(c, ops) ==
    LET whole == Replay(c.acked, ops)
    IN  /\ DOMAIN c.view = DOMAIN whole
        /\ \A w \in DOMAIN whole : /\ c.view[w].fid = whole[w].fid
                                   /\ c.view[w].hash = whole[w].hash

IsReplayed(whole, view, ops) ==
    /\ \A w : w \in DOMAIN whole <=> /\ w \in DOMAIN view \/ w \in DOMAIN ops
                                     /\ ~(w \in DOMAIN ops /\ ops[w].kind = "leave")
    /\ \A w \in DOMAIN whole :
          IF w \in DOMAIN ops THEN whole[w].fid = ops[w].fid /\ whole[w].hash = ops[w].hash
                              ELSE whole[w] = view[w]

LEMMA Replayed ==
    ASSUME NEW view, NEW ops
    PROVE  IsReplayed(Replay(view, ops), view, ops)
<1> DEFINE gone == {w \in DOMAIN ops : ops[w].kind = "leave"}
           S == (DOMAIN view \cup DOMAIN ops) \ gone
           of(w) == IF w \in DOMAIN ops THEN Tracked(ops[w].fid, ops[w].hash) ELSE view[w]
           whole == Replay(view, ops)
<1>1. whole = [w \in S |-> of(w)]
  BY DEF Replay
<1>2. \A w : w \in S <=> /\ w \in DOMAIN view \/ w \in DOMAIN ops
                         /\ ~(w \in DOMAIN ops /\ ops[w].kind = "leave")
  BY Zenon
<1>3. \A w : IF w \in DOMAIN ops THEN of(w).fid = ops[w].fid /\ of(w).hash = ops[w].hash
                                 ELSE of(w) = view[w]
  BY DEF Tracked
<1> HIDE DEF whole, S, of
<1>4. DOMAIN whole = S /\ \A w \in S : whole[w] = of(w)
  BY <1>1
<1> QED
  BY <1>2, <1>3, <1>4 DEF IsReplayed, whole

DeltaBy(d, f, wd, n) == FramedBy(d, f, wd, n) /\ f.kind = "delta" /\ Whole(d, f.ops)

LEMMA DeltaBuilt ==
    ASSUME NEW c, Shaped(c), NEW n \in Nat, RecordsInOrder(c, n - 1), Numbered(c),
           ViewFollows(c), ~c.needs, NEW wd, NEW marked
    PROVE  LET b == BuildDelta(c, wd, n, marked)
           IN  /\ DOMAIN b = {"conn", "frame"}
               /\ KeptBy(c, b.conn, n)
               /\ b.frame = NoFrame \/ DeltaBy(b.conn, b.frame, wd, n)
<1> DEFINE scan   == Scanned(c, wd, marked)
           enters == Entering(c, wd) \cap scan
           leaves == Leaving(c, wd) \cap scan
           stale  == Stale(c, wd) \cap scan
           held   == HeldBack(c, n, stale)
           due    == stale \ held
           sent   == Kept(c, due)
           mapped == MapFids(c, enters)
           m      == [mapped EXCEPT !.throttled = held]
           fid(w) == IF w \in enters THEN m.fid[w] ELSE c.acked[w].fid
           now(w) == [fid |-> fid(w), hash |-> wd[w].hash, last |-> n]
           framed == [w \in enters \cup due |-> IF w \in enters \cup sent THEN now(w)
                                                ELSE c.acked[w]]
           ops    == [w \in enters \cup leaves \cup sent |->
                         [kind |-> IF w \in enters THEN "enter"
                                   ELSE IF w \in leaves THEN "leave" ELSE "update",
                          fid  |-> fid(w),
                          hash |-> IF w \in leaves THEN 0 ELSE wd[w].hash]]
           view   == Converge(m, framed, leaves)
           viewed == [m EXCEPT !.view = view, !.dirty = {}]
           frame  == [kind |-> "delta", id |-> n, epoch |-> c.epoch, base |-> c.base, ops |-> ops]
           r      == Record(viewed, n, ops)
<1>b. BuildDelta(c, wd, n, marked) =
         IF enters \cup leaves \cup due = {} THEN [conn |-> m, frame |-> NoFrame]
         ELSE [conn |-> r, frame |-> frame]
  BY DEF BuildDelta
<1>v. enters \in SUBSET Wid
  BY DEF Entering, Visible
<1>s1. \A w \in enters : w \in Visible(wd) /\ w \notin DOMAIN c.acked
  BY DEF Entering
<1>s2. \A w \in leaves : w \notin Visible(wd) /\ w \in DOMAIN c.acked
  BY DEF Leaving
<1>s3. \A w \in due : w \in Visible(wd) /\ w \in DOMAIN c.acked
  BY DEF Stale
<1>s4. \A w \in sent : w \in due
  BY DEF Kept
<1> HIDE DEF enters, leaves, due, sent, held
<1>o. OneToOne(c) /\ DOMAIN c = Fields
  BY FieldsAre DEF Numbered, OneToOne, Shaped
<1>1. /\ DOMAIN mapped = Fields /\ mapped.nextFid \in Nat
      /\ \A x \in Unmapped : mapped[x] = c[x]
      /\ DOMAIN mapped.fid = DOMAIN c.fid \cup enters
      /\ \A w \in DOMAIN c.fid : mapped.fid[w] = c.fid[w]
      /\ OneToOne(mapped)
  BY <1>o, <1>v, Mapping, Zenon
<1> HIDE DEF mapped
<1>2. /\ DOMAIN m = Fields /\ m.nextFid = mapped.nextFid /\ m.fid = mapped.fid
      /\ m.epoch = c.epoch /\ m.base = c.base /\ m.acked = c.acked /\ m.recs = c.recs
      /\ m.view = c.view /\ m.dirty = c.dirty /\ m.needs = c.needs
  BY <1>1 DEF Unmapped, Fields
<1> HIDE DEF m
<1>3. Shaped(m) /\ RecordsInOrder(m, n - 1) /\ ViewFollows(m) /\ ~m.needs
  BY <1>1, <1>2, FieldsAre DEF Shaped, RecordsInOrder, ViewFollows, Unacked
<1>4. Grown(c, m) /\ OneToOne(m)
  BY <1>1, <1>2 DEF Grown, OneToOne
<1>5. Numbered(m)
  BY <1>2, <1>4, GrownNumbered
<1>6. RecordsInOrder(m, n)
  <2>1. m.base \in Nat
    BY <1>3 DEF Shaped
  <2> QED
    BY <1>3, <2>1, InOrderLater
<1>7. KeptBy(c, m, n)
  BY <1>2, <1>3, <1>4, <1>5, <1>6 DEF KeptBy
<1>f. \A w : fid(w) = IF w \in enters THEN m.fid[w] ELSE c.acked[w].fid
  OBVIOUS
<1> HIDE DEF fid
<1>8. /\ DOMAIN framed = enters \cup due
      /\ \A w \in DOMAIN framed :
            IF w \in enters \cup sent THEN framed[w].fid = fid(w) /\ framed[w].hash = wd[w].hash
                                      ELSE framed[w] = c.acked[w]
  OBVIOUS
<1>9. /\ DOMAIN ops = enters \cup leaves \cup sent
      /\ \A w \in DOMAIN ops :
            /\ ops[w].kind = IF w \in enters THEN "enter" ELSE IF w \in leaves THEN "leave" ELSE "update"
            /\ ops[w].fid = fid(w)
            /\ ops[w].hash = IF w \in leaves THEN 0 ELSE wd[w].hash
  OBVIOUS
<1> HIDE DEF framed, ops
<1>10. /\ \A w \in DOMAIN framed : w \in DOMAIN view /\ view[w] = framed[w]
       /\ \A w \in leaves : w \notin DOMAIN framed => w \notin DOMAIN view
       /\ \A w : w \notin leaves /\ w \notin DOMAIN framed => SameEntry(view, c.acked, w)
  <2>1. /\ \A w \in DOMAIN framed : w \in DOMAIN view /\ view[w] = framed[w]
        /\ \A w \in leaves : w \notin DOMAIN framed => w \notin DOMAIN view
        /\ \A w : w \notin leaves /\ w \notin DOMAIN framed => SameEntry(view, m.acked, w)
    BY <1>3, Converged, Zenon
  <2> QED
    BY <1>2, <2>1
<1> HIDE DEF view
<1>11. /\ DOMAIN viewed = Fields /\ viewed.view = view /\ viewed.dirty = {} /\ viewed.needs = m.needs
       /\ viewed.epoch = c.epoch /\ viewed.base = c.base /\ viewed.acked = c.acked /\ viewed.recs = c.recs
       /\ viewed.fid = m.fid /\ viewed.nextFid = m.nextFid
  BY <1>2 DEF Fields
<1> HIDE DEF viewed
<1>12. Shaped(viewed) /\ RecordsInOrder(viewed, n - 1)
  BY <1>1, <1>2, <1>3, <1>11, FieldsAre DEF Shaped, RecordsInOrder
<1>13. Numbered(viewed) /\ Grown(c, viewed)
  BY <1>2, <1>4, <1>5, <1>11 DEF Numbered, Named, NamesAll, Grown
<1>14. NamesAll(viewed, ops)
  <2> SUFFICES ASSUME NEW w \in DOMAIN ops, ops[w].kind # "leave"
               PROVE  Named(viewed, w, ops[w].fid)
    BY DEF NamesAll
  <2>1. CASE w \in enters
    BY <1>1, <1>2, <1>9, <1>11, <1>f, <2>1 DEF Named
  <2>2. CASE w \notin enters
    <3>1. w \in sent /\ w \in DOMAIN c.acked /\ ops[w].fid = c.acked[w].fid
      BY <1>9, <1>f, <1>s3, <1>s4, <2>2
    <3> QED
      BY <1>11, <1>13, <3>1 DEF Numbered
  <2> QED
    BY <2>1, <2>2
<1>h. HasRecorded(r, viewed, n, ops)
  BY <1>12, Recorded
<1>15. Numbered(r)
  BY <1>12, <1>13, <1>14, RecordedNumbered
<1> HIDE DEF r
<1>16. Shaped(r) /\ RecordsInOrder(r, n) /\ (~r.needs => Unacked(r) = Unacked(viewed) \cup DOMAIN ops)
  BY <1>h DEF HasRecorded
<1>17. \A x \in Unrecorded : r[x] = viewed[x]
  BY <1>h DEF HasRecorded
<1>18. r.view = view /\ r.acked = c.acked /\ r.epoch = c.epoch /\ r.fid = viewed.fid /\ r.dirty = {}
  BY <1>11, <1>17 DEF Unrecorded, Fields
<1>19. \A w : w \notin DOMAIN ops => SameEntry(view, c.acked, w)
  <2> SUFFICES ASSUME NEW w, w \notin DOMAIN ops PROVE SameEntry(view, c.acked, w)
    OBVIOUS
  <2>1. w \notin enters /\ w \notin leaves /\ w \notin sent
    BY <1>9
  <2>2. CASE w \in due
    <3>1. w \in DOMAIN view /\ view[w] = c.acked[w] /\ w \in DOMAIN c.acked
      BY <1>8, <1>10, <1>s3, <2>1, <2>2
    <3> QED
      BY <3>1 DEF SameEntry
  <2>3. CASE w \notin due
    BY <1>8, <1>10, <2>1, <2>3
  <2> QED
    BY <2>2, <2>3
<1>20. ViewFollows(r)
  BY <1>16, <1>18, <1>19 DEF ViewFollows
<1>21. Grown(c, r) /\ NamesAll(r, ops)
  BY <1>13, <1>14, <1>18 DEF Grown, NamesAll, Named
<1>22. KeptBy(c, r, n)
  BY <1>15, <1>16, <1>18, <1>20, <1>21 DEF KeptBy
<1>23. Shows(frame, wd)
  <2>1. frame.kind = "delta" /\ frame.ops = ops
    OBVIOUS
  <2> HIDE DEF frame
  <2> SUFFICES ASSUME NEW w \in DOMAIN ops
               PROVE  IF ops[w].kind = "leave" THEN w \notin Visible(wd)
                      ELSE w \in Visible(wd) /\ ops[w].hash = wd[w].hash
    BY <2>1 DEF Shows
  <2>2. CASE w \in leaves
    BY <1>9, <1>s1, <1>s2, <2>2
  <2>3. CASE w \notin leaves
    BY <1>9, <1>s1, <1>s3, <1>s4, <2>3
  <2> QED
    BY <2>2, <2>3
<1>24. FramedBy(r, frame, wd, n)
  BY <1>18, <1>21, <1>23 DEF FramedBy
<1>25. Whole(r, ops)
  <2> DEFINE whole == Replay(c.acked, ops)
  <2>1. IsReplayed(whole, c.acked, ops)
    BY Replayed
  <2> HIDE DEF whole
  <2>2. ASSUME NEW w PROVE SameEntry(view, whole, w)
    <3>1. CASE w \in leaves
      <4>1. w \notin DOMAIN whole
        BY <1>9, <1>s1, <1>s2, <2>1, <3>1 DEF IsReplayed
      <4>2. w \notin DOMAIN view
        BY <1>8, <1>10, <1>s1, <1>s2, <1>s3, <3>1
      <4> QED
        BY <4>1, <4>2 DEF SameEntry
    <3>2. CASE w \in enters \cup sent
      <4>1. w \in DOMAIN ops /\ ops[w].kind # "leave" /\ ops[w].fid = fid(w) /\ ops[w].hash = wd[w].hash
        BY <1>9, <1>s1, <1>s2, <1>s3, <1>s4, <3>2
      <4>2. w \in DOMAIN whole /\ whole[w].fid = fid(w) /\ whole[w].hash = wd[w].hash
        BY <2>1, <4>1 DEF IsReplayed
      <4>3. w \in DOMAIN view /\ view[w].fid = fid(w) /\ view[w].hash = wd[w].hash
        BY <1>8, <1>10, <1>s4, <3>2
      <4> QED
        BY <4>2, <4>3 DEF SameEntry
    <3>3. CASE w \notin DOMAIN ops
      <4>1. SameEntry(view, c.acked, w)
        BY <1>19, <3>3
      <4>2. (w \in DOMAIN whole <=> w \in DOMAIN c.acked) /\ (w \in DOMAIN whole => whole[w] = c.acked[w])
        BY <2>1, <3>3 DEF IsReplayed
      <4> QED
        BY <4>1, <4>2 DEF SameEntry
    <3> QED
      BY <1>9, <3>1, <3>2, <3>3
  <2>3. DOMAIN view = DOMAIN whole
    BY <2>2 DEF SameEntry
  <2>4. \A w \in DOMAIN whole : view[w].fid = whole[w].fid /\ view[w].hash = whole[w].hash
    BY <2>2, <2>3 DEF SameEntry
  <2> QED
    BY <1>18, <2>3, <2>4 DEF Whole, whole
<1>26. DeltaBy(r, frame, wd, n)
  BY <1>24, <1>25 DEF DeltaBy
<1> HIDE DEF frame
<1> QED
  BY <1>b, <1>7, <1>22, <1>26

(* A connection in which only flags were set.                               *)
Good(c, n) == Shaped(c) /\ RecordsInOrder(c, n) /\ Numbered(c) /\ ViewFollows(c)

Unflagged == Fields \ {"needs", "cached"}

LEMMA FlagsSet ==
    ASSUME NEW c, NEW n, Good(c, n), NEW d, DOMAIN d = DOMAIN c,
           \A x \in Unflagged : d[x] = c[x], d.needs \in BOOLEAN, c.needs => d.needs
    PROVE  Good(d, n) /\ \A ops : Whole(c, ops) => Whole(d, ops)
<1>1. /\ d.epoch = c.epoch /\ d.nextFid = c.nextFid /\ d.fid = c.fid /\ d.view = c.view
      /\ d.acked = c.acked /\ d.base = c.base /\ d.recs = c.recs /\ d.dirty = c.dirty
  BY DEF Unflagged, Fields
<1>2. Shaped(d)
  BY <1>1 DEF Good, Shaped
<1>3. RecordsInOrder(d, n)
  BY <1>1 DEF Good, RecordsInOrder
<1>4. Numbered(d)
  <2>1. \A w, x : Named(c, w, x) => Named(d, w, x)
    BY <1>1 DEF Named
  <2>2. \A ops : NamesAll(c, ops) => NamesAll(d, ops)
    BY <2>1 DEF NamesAll
  <2> QED
    BY <1>1, <2>1, <2>2 DEF Good, Numbered
<1>5. ViewFollows(d)
  <2>1. Unacked(d) = Unacked(c)
    BY <1>1, Zenon DEF Unacked
  <2> QED
    BY <1>1, <2>1 DEF Good, ViewFollows
<1>6. \A ops : Whole(c, ops) => Whole(d, ops)
  BY <1>1 DEF Whole
<1> QED
  BY <1>2, <1>3, <1>4, <1>5, <1>6 DEF Good

(* reset_epoch() leaves a connection like a new one.                        *)
LEMMA EpochReset ==
    ASSUME NEW c, Shaped(c), NEW n \in Nat \ {0}
    PROVE  LET d == ResetEpoch(c, n)
           IN  /\ Shaped(d) /\ RecordsInOrder(d, n - 1) /\ Numbered(d)
               /\ d.epoch = c.epoch + 1
<1> DEFINE d == ResetEpoch(c, n)
<1>1. DOMAIN c = Fields /\ c.epoch \in Nat
  BY FieldsAre DEF Shaped
<1>2. /\ DOMAIN d = Fields /\ d.epoch = c.epoch + 1 /\ d.nextFid = 1 /\ d.fid = Nothing
      /\ d.view = Nothing /\ d.acked = Nothing /\ d.base = 0 /\ d.needs = TRUE /\ d.recs = <<>>
  BY <1>1 DEF ResetEpoch, Fields
<1>3. DOMAIN Nothing = {} /\ DOMAIN <<>> = {}
  BY DEF Nothing
<1> HIDE DEF d
<1>4. d.recs \in Seq({d.recs[i] : i \in DOMAIN d.recs})
  BY <1>2
<1>5. Shaped(d)
  <2>1. DOMAIN d = DOMAIN NewConnection /\ d.epoch \in Nat /\ d.nextFid \in Nat /\ d.base \in Nat
    BY <1>1, <1>2, FieldsAre
  <2>2. d.needs \in BOOLEAN
    BY <1>2
  <2> QED
    BY <1>4, <2>1, <2>2 DEF Shaped
<1>6. RecordsInOrder(d, n - 1)
  BY <1>2, <1>3 DEF RecordsInOrder
<1>7. Numbered(d)
  BY <1>2, <1>3 DEF Numbered
<1> QED
  BY <1>2, <1>5, <1>6, <1>7 DEF d

(* What a projection makes of a connection: in the epoch, with more names, *)
(* or in the next one, with a keyframe.                                     *)
Built(c, d, f, wd, n) ==
    /\ Good(d, n)
    /\ \/ d.epoch = c.epoch /\ Grown(c, d)
       \/ d.epoch = c.epoch + 1 /\ f.kind = "keyframe"
    /\ c.needs => f.kind = "keyframe"
    /\ \/ f = NoFrame
       \/ FramedBy(d, f, wd, n) /\ f.kind = "keyframe"
       \/ DeltaBy(d, f, wd, n)

LEMMA FrameBuilt ==
    ASSUME NEW c, NEW n \in Nat \ {0}, Good(c, n - 1), NEW wd, NEW marked
    PROVE  LET b == BuildFrame(c, wd, n, marked)
           IN  Built(c, b.conn, b.frame, wd, n)
<1> DEFINE exhausted == Exhausted(c, wd)
           forced    == c.needs \/ exhausted
           start     == IF exhausted THEN ResetEpoch(c, n) ELSE c
           key       == BuildKeyframe(start, wd, n, forced)
           delta     == BuildDelta(start, wd, n, marked)
           whole     == forced \/ KeyframeDue(c, n)
           built     == IF whole THEN key ELSE delta
           d         == [built.conn EXCEPT !.cached = TRUE]
           f         == built.frame
           b         == BuildFrame(c, wd, n, marked)
<1>b. b = [built EXCEPT !.conn.cached = TRUE]
  BY DEF BuildFrame
<1>c. Shaped(c) /\ RecordsInOrder(c, n - 1) /\ Numbered(c) /\ ViewFollows(c) /\ n \in Nat
  BY DEF Good
<1>1. /\ Shaped(start) /\ RecordsInOrder(start, n - 1) /\ Numbered(start)
      /\ (start.epoch = c.epoch + 1 /\ forced) \/ start = c
  BY <1>c, EpochReset
<1>2. ~whole => start = c /\ ~c.needs
  OBVIOUS
<1>f. c.needs => whole
  OBVIOUS
<1>w. whole => built = key
  OBVIOUS
<1>x. ~whole => built = delta
  OBVIOUS
<1>y. start.epoch = c.epoch + 1 /\ forced => whole
  OBVIOUS
<1> HIDE DEF start, whole, forced
<1>3. /\ DOMAIN key = {"conn", "frame"}
      /\ KeptBy(start, key.conn, n) /\ FramedBy(key.conn, key.frame, wd, n)
      /\ key.frame.kind = "keyframe"
  BY <1>c, <1>1, KeyframeBuilt, ZenonT(60)
<1>4. ASSUME ~whole
      PROVE  /\ DOMAIN delta = {"conn", "frame"}
             /\ KeptBy(c, delta.conn, n)
             /\ delta.frame = NoFrame \/ DeltaBy(delta.conn, delta.frame, wd, n)
  <2>1. start = c /\ ~c.needs
    BY <1>2, <1>4
  <2>2. delta = BuildDelta(c, wd, n, marked)
    BY <2>1
  <2> HIDE DEF delta
  <2> QED
    BY <1>c, <2>1, <2>2, DeltaBuilt, Zenon
<1> HIDE DEF key, delta
<1>5. DOMAIN built = {"conn", "frame"} /\ Good(built.conn, n)
  BY <1>3, <1>4, <1>w, <1>x DEF KeptBy, Good
<1> HIDE DEF built
<1>6. b.conn = d /\ b.frame = f
  BY <1>b, <1>5
<1>7. DOMAIN built.conn = Fields
  BY <1>5, FieldsAre DEF Good, Shaped
<1>8. /\ DOMAIN d = DOMAIN built.conn
      /\ \A x \in Unflagged : d[x] = built.conn[x]
      /\ d.needs = built.conn.needs /\ d.epoch = built.conn.epoch /\ d.fid = built.conn.fid
  BY <1>7 DEF Fields, Unflagged
<1>9. d.needs \in BOOLEAN
  BY <1>5, <1>8 DEF Good, Shaped
<1> HIDE DEF d, f, b
<1>10. Good(d, n) /\ \A ops : Whole(built.conn, ops) => Whole(d, ops)
  BY <1>5, <1>8, <1>9, FlagsSet
<1>11. \A x : NamesAll(built.conn, x) => NamesAll(d, x)
  BY <1>8 DEF NamesAll, Named
<1>12. \A x : (Grown(x, built.conn) => Grown(x, d))
  BY <1>8 DEF Grown
<1>13. CASE whole
  <2>1. f = key.frame /\ built.conn = key.conn
    BY <1>w, <1>13 DEF f
  <2>2. FramedBy(d, f, wd, n) /\ f.kind = "keyframe"
    BY <1>3, <1>8, <1>11, <2>1 DEF FramedBy
  <2>3. d.epoch = start.epoch /\ Grown(start, d)
    BY <1>3, <1>8, <1>12, <2>1 DEF KeptBy
  <2>4. d.epoch = c.epoch + 1 \/ (d.epoch = c.epoch /\ Grown(c, d))
    BY <1>1, <2>3, Zenon
  <2> QED
    BY <1>6, <1>10, <2>2, <2>4, Zenon DEF Built, b
<1>14. CASE ~whole
  <2>1. f = delta.frame /\ built.conn = delta.conn /\ ~c.needs
    BY <1>f, <1>x, <1>14 DEF f
  <2>2. d.epoch = c.epoch /\ Grown(c, d)
    BY <1>4, <1>8, <1>12, <1>14, <2>1 DEF KeptBy
  <2>3. f = NoFrame \/ DeltaBy(d, f, wd, n)
    BY <1>4, <1>8, <1>10, <1>11, <1>14, <2>1 DEF DeltaBy, FramedBy
  <2> QED
    BY <1>6, <1>10, <2>1, <2>2, <2>3, Zenon DEF Built, b
<1> QED
  BY <1>13, <1>14

-----------------------------------------------------------------------------
(* acknowledge().                                                          *)

LEMMA LeastNat ==
    ASSUME NEW S \in SUBSET Nat, S # {}
    PROVE  \E m \in S : \A y \in S : m <= y
<1> DEFINE R == {ss \in Nat \X Nat : ss[1] < ss[2]}
<1>1. IsWellFoundedOn(R, Nat)
  BY NatLessThanWellFounded DEF OpToRel
<1>2. PICK x \in S : \A y \in S : ~(<<y, x>> \in R)
  <2> HIDE DEF R
  <2> QED
    BY <1>1, WFMin
<1>3. \A y \in S : y < x => <<y, x>> \in R
  OBVIOUS
<1> HIDE DEF R
<1>4. \A y \in S : ~(y < x)
  BY <1>2, <1>3
<1> QED
  BY <1>4

(* The views that the first m records lead to, one after another.           *)
Replays(f, c, m) ==
    f = [i \in 0 .. m |-> IF i = 0 THEN c.acked ELSE Replay(f[i - 1], c.recs[i].ops)]

LEMMA ReplaysExist ==
    ASSUME NEW c, NEW k \in Nat
    PROVE  \E f : Replays(f, c, k)
<1> DEFINE Bad == {m \in Nat : ~\E f : Replays(f, c, m)}
<1>1. SUFFICES ASSUME Bad # {} PROVE FALSE
  OBVIOUS
<1>2. PICK m \in Bad : \A y \in Bad : m <= y
  <2>1. Bad \in SUBSET Nat
    OBVIOUS
  <2> HIDE DEF Bad
  <2> QED
    BY <1>1, <2>1, LeastNat
<1>3. m \in Nat /\ ~\E f : Replays(f, c, m)
  OBVIOUS
<1>4. m # 0
  <2> DEFINE f == [i \in 0 .. 0 |-> c.acked]
  <2>1. f = [i \in 0 .. 0 |-> IF i = 0 THEN c.acked ELSE Replay(f[i - 1], c.recs[i].ops)]
    OBVIOUS
  <2> HIDE DEF f
  <2>2. Replays(f, c, 0)
    BY <2>1 DEF Replays
  <2> QED
    BY <1>3, <2>2
<1>5. m - 1 \in Nat /\ m - 1 \notin Bad
  <2> HIDE DEF Bad
  <2> QED
    BY <1>2, <1>3, <1>4
<1>6. PICK g : Replays(g, c, m - 1)
  BY <1>5
<1>7. \A i \in 0 .. m - 1 : g[i] = IF i = 0 THEN c.acked ELSE Replay(g[i - 1], c.recs[i].ops)
  BY <1>6 DEF Replays
<1> DEFINE f == [i \in 0 .. m |-> IF i = m THEN Replay(g[m - 1], c.recs[m].ops) ELSE g[i]]
<1>8. f[m] = Replay(g[m - 1], c.recs[m].ops) /\ \A i \in 0 .. m - 1 : f[i] = g[i]
  BY <1>3
<1>9. \A i \in 0 .. m : f[i] = IF i = 0 THEN c.acked ELSE Replay(f[i - 1], c.recs[i].ops)
  <2> SUFFICES ASSUME NEW i \in 0 .. m
               PROVE  f[i] = IF i = 0 THEN c.acked ELSE Replay(f[i - 1], c.recs[i].ops)
    OBVIOUS
  <2> HIDE DEF f
  <2>1. CASE i = m
    <3>1. f[i - 1] = g[m - 1]
      BY <1>3, <1>4, <1>8, <2>1
    <3> QED
      BY <1>4, <1>8, <2>1, <3>1
  <2>2. CASE i # m
    <3>1. i \in 0 .. m - 1 /\ (i # 0 => i - 1 \in 0 .. m - 1)
      BY <1>3, <2>2
    <3>2. f[i] = g[i] /\ (i # 0 => f[i - 1] = g[i - 1])
      BY <1>8, <3>1
    <3> QED
      BY <1>7, <3>1, <3>2
  <2> QED
    BY <2>1, <2>2
<1>10. f = [i \in 0 .. m |-> f[i]]
  OBVIOUS
<1> HIDE DEF f
<1>11. f = [i \in 0 .. m |-> IF i = 0 THEN c.acked ELSE Replay(f[i - 1], c.recs[i].ops)]
  BY <1>9, <1>10
<1> QED
  BY <1>3, <1>11 DEF Replays

LEMMA AckedIs ==
    ASSUME NEW c, NEW s
    PROVE  LET n == CHOOSE i \in DOMAIN c.recs : c.recs[i].id = s
               f == CHOOSE g : Replays(g, c, n)
           IN  Acknowledge(c, s) =
                   [c EXCEPT !.acked = f[n], !.base = s,
                             !.dirty = @ \cup UNION {DOMAIN c.recs[i].ops : i \in 1 .. n},
                             !.recs = SubSeq(@, n + 1, Len(@))]
BY DEF Acknowledge, Replays

(* Replaying records keeps the names and leaves other wids alone.           *)
LEMMA ReplaysKeep ==
    ASSUME NEW c, Shaped(c), Numbered(c), NEW k \in DOMAIN c.recs, NEW f, Replays(f, c, k),
           NEW T, \A i \in 1 .. k : DOMAIN c.recs[i].ops \subseteq T
    PROVE  /\ \A w \in DOMAIN f[k] : Named(c, w, f[k][w].fid)
           /\ \A w : w \notin T => SameEntry(c.acked, f[k], w)
<1>k. k \in Nat /\ k >= 1 /\ \A i \in 1 .. k : i \in DOMAIN c.recs
  <2> DEFINE s == c.recs
  <2>1. s \in Seq(ElementsOf(s))
    BY DEF Shaped, ElementsOf
  <2>2. k \in DOMAIN s
    OBVIOUS
  <2> HIDE DEF s
  <2>3. DOMAIN s = 1 .. Len(s) /\ Len(s) \in Nat
    BY <2>1, OwnSequence
  <2>4. k \in Nat /\ k >= 1 /\ \A i \in 1 .. k : i \in DOMAIN s
    BY <2>2, <2>3
  <2> QED
    BY <2>4 DEF s
<1>1. \A i \in 0 .. k : f[i] = IF i = 0 THEN c.acked ELSE Replay(f[i - 1], c.recs[i].ops)
  BY DEF Replays
<1> DEFINE Fine(i) == /\ \A w \in DOMAIN f[i] : Named(c, w, f[i][w].fid)
                      /\ \A w : w \notin T => SameEntry(c.acked, f[i], w)
           Bad == {i \in 0 .. k : ~Fine(i)}
<1>2. Fine(0)
  <2>1. f[0] = c.acked
    BY <1>1, <1>k
  <2> QED
    BY <2>1 DEF Numbered, SameEntry
<1>3. ASSUME NEW i \in 1 .. k, Fine(i - 1) PROVE Fine(i)
  <2> DEFINE g == f[i - 1]
             ops == c.recs[i].ops
  <2>1. f[i] = Replay(g, ops)
    BY <1>1, <1>k
  <2>2. IsReplayed(f[i], g, ops)
    BY <2>1, Replayed
  <2>3. NamesAll(c, ops) /\ DOMAIN ops \subseteq T
    BY <1>k DEF Numbered
  <2>4. /\ \A w \in DOMAIN g : Named(c, w, g[w].fid)
        /\ \A w : w \notin T => SameEntry(c.acked, g, w)
    BY <1>3
  <2> HIDE DEF g, ops
  <2>5. \A w \in DOMAIN f[i] : Named(c, w, f[i][w].fid)
    BY <2>2, <2>3, <2>4 DEF IsReplayed, NamesAll
  <2>6. \A w : w \notin T => SameEntry(c.acked, f[i], w)
    BY <2>2, <2>3, <2>4 DEF IsReplayed, SameEntry
  <2> QED
    BY <2>5, <2>6
<1>4. Bad = {}
  <2> SUFFICES ASSUME Bad # {} PROVE FALSE
    OBVIOUS
  <2>1. PICK m \in Bad : \A y \in Bad : m <= y
    <3>1. Bad \in SUBSET Nat
      BY <1>k
    <3> HIDE DEF Bad
    <3> QED
      BY <3>1, LeastNat
  <2>2. m \in 0 .. k /\ ~Fine(m)
    OBVIOUS
  <2> HIDE DEF Fine
  <2>3. m # 0
    BY <1>2, <2>2
  <2>4. m \in 1 .. k /\ m - 1 \in 0 .. k /\ m - 1 < m
    BY <1>k, <2>2, <2>3
  <2>5. Fine(m - 1)
    <3>1. m - 1 \notin Bad
      <4> HIDE DEF Bad
      <4> QED
        BY <2>1, <2>2, <2>4
    <3> QED
      BY <2>4, <3>1
  <2> QED
    BY <1>3, <2>2, <2>4, <2>5
<1> HIDE DEF Fine
<1>5. Fine(k)
  <2>1. k \in 0 .. k
    BY <1>k
  <2> QED
    BY <1>4, <2>1
<1> QED
  BY <1>5 DEF Fine

(* acknowledge() keeps a connection good.                                   *)
LEMMA Acknowledged ==
    ASSUME NEW c, NEW n \in Nat, Good(c, n), NEW s, AckVerdict(c, s) = "accepted"
    PROVE  LET d == Acknowledge(c, s)
           IN  Good(d, n) /\ d.epoch = c.epoch /\ d.fid = c.fid /\ d.needs = c.needs
<1> DEFINE rs == c.recs
           k == CHOOSE i \in DOMAIN rs : rs[i].id = s
           f == CHOOSE g : Replays(g, c, k)
           T == UNION {DOMAIN rs[i].ops : i \in 1 .. k}
           new == SubSeq(rs, k + 1, Len(rs))
           d == Acknowledge(c, s)
<1>0. /\ DOMAIN c = Fields /\ c.epoch \in Nat /\ c.nextFid \in Nat /\ c.base \in Nat /\ c.needs \in BOOLEAN
      /\ rs \in Seq(ElementsOf(rs))
      /\ Shaped(c) /\ Numbered(c) /\ ViewFollows(c)
      /\ c.base <= n
      /\ \A i \in DOMAIN rs : /\ rs[i].id \in c.base + 1 .. n
                              /\ \A j \in DOMAIN rs : i < j => rs[i].id < rs[j].id
  BY FieldsAre DEF Good, Shaped, RecordsInOrder, ElementsOf
<1>1. \E i \in DOMAIN rs : rs[i].id = s
  BY DEF AckVerdict
<1>2. k \in DOMAIN rs /\ rs[k].id = s
  BY <1>1
<1>3. Replays(f, c, k)
  <2>1. k \in Nat
    <3> HIDE DEF k, rs
    <3> QED
      BY <1>0, <1>2, OwnSequence
  <2> HIDE DEF k
  <2> QED
    BY <2>1, ReplaysExist
<1>4. d = [c EXCEPT !.acked = f[k], !.base = s, !.dirty = @ \cup T,
                    !.recs = SubSeq(@, k + 1, Len(@))]
  BY AckedIs, Zenon
<1>t. \A i \in 1 .. k : DOMAIN rs[i].ops \subseteq T
  OBVIOUS
<1>u. \A w : w \in T <=> \E i \in 1 .. k : w \in DOMAIN rs[i].ops
  OBVIOUS
<1> HIDE DEF k, f, T
<1>5. /\ \A w \in DOMAIN f[k] : Named(c, w, f[k][w].fid)
      /\ \A w : w \notin T => SameEntry(c.acked, f[k], w)
  BY <1>0, <1>2, <1>3, <1>t, ReplaysKeep
<1>6. /\ DOMAIN d = Fields /\ d.acked = f[k] /\ d.base = s /\ d.dirty = c.dirty \cup T /\ d.recs = new
      /\ d.epoch = c.epoch /\ d.nextFid = c.nextFid /\ d.fid = c.fid /\ d.view = c.view /\ d.needs = c.needs
  BY <1>0, <1>4 DEF Fields
<1> HIDE DEF d, rs, new
<1>7. DOMAIN rs = 1 .. Len(rs) /\ Len(rs) \in Nat /\ k \in 1 .. Len(rs)
  BY <1>0, <1>2, OwnSequence
<1>8. /\ new \in Seq(ElementsOf(rs)) /\ Len(new) = Len(rs) - k
      /\ \A i \in 1 .. Len(rs) - k : new[i] = rs[i + k]
  <2> DEFINE S == ElementsOf(rs)
  <2>1. rs \in Seq(S) /\ k \in 0 .. Len(rs)
    BY <1>0, <1>7
  <2> HIDE DEF S
  <2>2. new \in Seq(S) /\ Len(new) = Len(rs) - k /\ \A i \in 1 .. Len(rs) - k : new[i] = rs[i + k]
    BY <2>1, Suffix DEF new
  <2> QED
    BY <2>2 DEF S
<1>9. new \in Seq(ElementsOf(new)) /\ DOMAIN new = 1 .. Len(rs) - k
  BY <1>8, OwnSequence
<1>10. ASSUME NEW i \in DOMAIN new
       PROVE  i + k \in DOMAIN rs /\ k < i + k /\ new[i] = rs[i + k] /\ i \in Nat
  BY <1>7, <1>8, <1>9
<1>11. s \in Nat /\ s <= n /\ s > c.base
  BY <1>0, <1>2
<1>12. Shaped(d)
  <2>1. DOMAIN d = DOMAIN NewConnection
    BY <1>6, FieldsAre
  <2>2. d.recs \in Seq({d.recs[i] : i \in DOMAIN d.recs})
    BY <1>6, <1>9 DEF ElementsOf
  <2> QED
    BY <1>0, <1>6, <1>11, <2>1, <2>2 DEF Shaped
<1>13. RecordsInOrder(d, n)
  <2>1. ASSUME NEW i \in DOMAIN new PROVE new[i].id \in s + 1 .. n
    <3>1. rs[k].id < rs[i + k].id /\ rs[i + k].id \in c.base + 1 .. n
      BY <1>0, <1>2, <1>10
    <3> QED
      BY <1>0, <1>2, <1>10, <1>11, <3>1
  <2>2. ASSUME NEW i \in DOMAIN new, NEW j \in DOMAIN new, i < j PROVE new[i].id < new[j].id
    <3>1. i + k < j + k
      BY <1>7, <1>10, <2>2
    <3> QED
      BY <1>0, <1>10, <3>1
  <2> QED
    BY <1>6, <1>11, <2>1, <2>2 DEF RecordsInOrder
<1>14. Numbered(d)
  <2>1. \A w, x : Named(c, w, x) => Named(d, w, x)
    BY <1>6 DEF Named
  <2>2. \A ops : NamesAll(c, ops) => NamesAll(d, ops)
    BY <2>1 DEF NamesAll
  <2>3. \A w \in DOMAIN d.acked : Named(d, w, d.acked[w].fid)
    BY <1>5, <1>6, <2>1
  <2>4. \A i \in DOMAIN d.recs : NamesAll(d, d.recs[i].ops)
    BY <1>0, <1>6, <1>10, <2>2 DEF Numbered, rs
  <2>5. /\ \A w \in DOMAIN d.fid : d.fid[w] \in 0 .. d.nextFid - 1
        /\ \A v, w \in DOMAIN d.fid : d.fid[v] = d.fid[w] => v = w
    BY <1>0, <1>6 DEF Numbered
  <2> QED
    BY <2>3, <2>4, <2>5 DEF Numbered
<1>15. ViewFollows(d)
  <2>1. ASSUME NEW w, w \notin d.dirty, w \notin Unacked(d)
        PROVE  w \notin T /\ w \notin c.dirty /\ w \notin Unacked(c)
    <3>1. w \notin T /\ w \notin c.dirty
      BY <1>6, <2>1
    <3>2. ASSUME NEW i \in DOMAIN rs, w \in DOMAIN rs[i].ops PROVE FALSE
      <4>1. CASE i <= k
        BY <1>7, <1>u, <3>1, <3>2, <4>1
      <4>2. CASE ~(i <= k)
        <5>1. i - k \in DOMAIN new /\ i - k + k = i
          BY <1>7, <1>9, <4>2
        <5>2. new[i - k] = rs[i]
          BY <1>10, <5>1
        <5>3. w \in Unacked(d)
          BY <1>6, <3>2, <5>1, <5>2, UnackedIs
        <5> QED
          BY <2>1, <5>3
      <4> QED
        BY <4>1, <4>2
    <3>3. w \notin Unacked(c)
      BY <3>2, UnackedIs DEF rs
    <3> QED
      BY <3>1, <3>3
  <2> SUFFICES ASSUME ~d.needs,
                      NEW w \in (DOMAIN d.view \cup DOMAIN d.acked) \ (d.dirty \cup Unacked(d))
               PROVE  SameEntry(d.view, d.acked, w)
    BY DEF ViewFollows
  <2>2. w \notin T /\ w \notin c.dirty /\ w \notin Unacked(c)
    BY <2>1
  <2>3. SameEntry(c.acked, f[k], w)
    BY <1>5, <2>2
  <2>4. w \in DOMAIN c.view \/ w \in DOMAIN c.acked
    BY <1>6, <2>3 DEF SameEntry
  <2>5. SameEntry(c.view, c.acked, w)
    BY <1>0, <1>6, <2>2, <2>4 DEF ViewFollows
  <2> QED
    BY <1>6, <2>3, <2>5 DEF SameEntry
<1> QED
  BY <1>6, <1>12, <1>13, <1>14, <1>15 DEF Good, d

-----------------------------------------------------------------------------
(* The path.                                                               *)

LEMMA InitPath == Init => PathInv
<1> SUFFICES ASSUME Init PROVE PathInv
  OBVIOUS
<1>1. /\ conn = NewConnection /\ snap = 0 /\ pending = NoFrame /\ queue = {} /\ resync = FALSE
      /\ wire = <<>> /\ replica = Nothing /\ got = [key |-> 0, keyEpoch |-> 0]
      /\ lost = FALSE /\ changed = 0
  BY DEF Init
<1>2. DOMAIN Nothing = {} /\ DOMAIN <<>> = {}
  BY DEF Nothing
<1>3. /\ conn.epoch = 1 /\ conn.nextFid = 1 /\ conn.fid = Nothing /\ conn.view = Nothing
      /\ conn.acked = Nothing /\ conn.base = 0 /\ conn.needs = TRUE /\ conn.recs = <<>>
  BY <1>1 DEF NewConnection
<1>4. OnWire = {} /\ InFlight = {}
  BY <1>1, <1>2 DEF OnWire, InFlight
<1>5. Counted
  <2>1. snap = 0 /\ got.key = 0 /\ got.keyEpoch = 0 /\ conn.epoch = 1
    BY <1>1, <1>3
  <2>2. wire \in Seq(OnWire)
    BY <1>1, <1>4
  <2>3. snap \in Nat /\ got.key \in 0 .. snap /\ got.keyEpoch \in 0 .. conn.epoch
    BY <2>1
  <2>4. {resync, lost} \subseteq BOOLEAN
    BY <1>1, Zenon
  <2> QED
    BY <2>2, <2>3, <2>4, Zenon DEF Counted
<1>6. Connected
  <2>1. conn.recs \in Seq({conn.recs[i] : i \in DOMAIN conn.recs})
    BY <1>3
  <2>2. Shaped(conn)
    <3>1. DOMAIN conn = DOMAIN NewConnection
      BY <1>1
    <3> QED
      <4>1. conn.epoch = 1 /\ conn.nextFid = 1 /\ conn.base = 0
        BY <1>3, Zenon
      <4>2. conn.epoch \in Nat /\ conn.nextFid \in Nat /\ conn.base \in Nat
        BY <4>1
      <4>3. conn.needs \in BOOLEAN
        BY <1>3, Zenon
      <4> QED
        BY <2>1, <3>1, <4>2, <4>3, Zenon DEF Shaped
  <2>3. RecordsInOrder(conn, snap)
    BY <1>1, <1>2, <1>3 DEF RecordsInOrder
  <2>4. Numbered(conn)
    BY <1>2, <1>3 DEF Numbered
  <2>5. ViewFollows(conn)
    BY <1>3 DEF ViewFollows
  <2> QED
    BY <2>2, <2>3, <2>4, <2>5 DEF Connected
<1>7. FramesInOrder
  BY <1>1, <1>2, <1>4 DEF FramesInOrder
<1>8. FramesShowTheWorld
  BY <1>1, <1>4 DEF FramesShowTheWorld
<1>9. KeyframeHeals /\ FidsAgree
  BY <1>1, <1>2, <1>3, <1>4 DEF KeyframeHeals, FidsAgree
<1>10. DropIsRepaired
  BY <1>1 DEF DropIsRepaired
<1>11. ViewIsAckedPlusFrame
  BY <1>1 DEF ViewIsAckedPlusFrame, NoFrame
<1> QED
  BY <1>5, <1>6, <1>7, <1>8, <1>9, <1>10, <1>11 DEF PathInv

LEMMA ConnectedIs == Connected <=> Good(conn, snap)
BY DEF Connected, Good

LEMMA SameNames ==
    ASSUME NEW c, NEW d, d.fid = c.fid
    PROVE  /\ \A x : NamesAll(c, x) => NamesAll(d, x)
           /\ \A w, x : Named(c, w, x) => Named(d, w, x)
BY DEF NamesAll, Named

(* The numbers of the path are numbers.                                     *)
LEMMA Numbers ==
    ASSUME Counted, Connected
    PROVE  /\ snap \in Nat /\ got.key \in Nat /\ got.key <= snap
           /\ conn.epoch \in Nat /\ got.keyEpoch \in Nat /\ got.keyEpoch <= conn.epoch
BY DEF Counted, Connected, Shaped

(* Project(): the tick's frame is the newest, of the newest epoch, and     *)
(* shows the world.                                                         *)
LEMMA ProjectKeeps ==
    ASSUME PathInv, phase = "step", phase' = "control", NEW after, NEW moved, Project(after, moved),
           UNCHANGED <<queue, resync, wire, client, lost>>
    PROVE  PathInv'
<1> DEFINE c == [conn EXCEPT !.cached = @ /\ ~moved]
           n == snap + 1
<1>1. /\ Counted /\ Connected /\ FramesInOrder /\ FramesShowTheWorld /\ KeyframeHeals /\ FidsAgree
      /\ DropIsRepaired
  BY DEF PathInv
<1>2. /\ snap \in Nat /\ got.key \in Nat /\ got.key <= snap
      /\ conn.epoch \in Nat /\ got.keyEpoch \in Nat /\ got.keyEpoch <= conn.epoch
  BY <1>1, Numbers
<1>3. /\ DOMAIN c = DOMAIN conn /\ \A x \in Unflagged : c[x] = conn[x]
      /\ c.needs = conn.needs /\ c.epoch = conn.epoch /\ c.fid = conn.fid
  <2>1. DOMAIN conn = Fields
    BY <1>1, FieldsAre DEF Connected, Shaped
  <2> QED
    BY <2>1 DEF Fields, Unflagged
<1>4. /\ conn' = BuildFrame(c, after, n, Dirty(after)).conn
      /\ pending' = BuildFrame(c, after, n, Dirty(after)).frame
      /\ world' = after /\ snap' = n
      /\ changed' = IF after = world THEN changed ELSE n
      /\ wire' = wire /\ queue' = queue /\ resync' = resync /\ lost' = lost
      /\ replica' = replica /\ got' = got
  BY Zenon DEF Project, client
<1> HIDE DEF c, n
<1>5. n \in Nat \ {0} /\ n - 1 = snap /\ n = snap + 1
  BY <1>2 DEF n
<1>6. Good(c, n - 1)
  <2>1. Good(conn, snap) /\ c.needs \in BOOLEAN /\ (conn.needs => c.needs)
    BY <1>1, <1>3, ConnectedIs DEF Connected, Shaped
  <2>2. Good(c, snap)
    BY <1>3, <2>1, FlagsSet
  <2> QED
    BY <1>5, <2>2
<1>7. Built(c, conn', pending', after, n)
  BY <1>4, <1>5, <1>6, FrameBuilt
<1>8. /\ Good(conn', n)
      /\ \/ conn'.epoch = conn.epoch /\ Grown(conn, conn')
         \/ conn'.epoch = conn.epoch + 1 /\ pending'.kind = "keyframe"
      /\ conn.needs => pending'.kind = "keyframe"
      /\ \/ pending' = NoFrame
         \/ FramedBy(conn', pending', after, n) /\ pending'.kind = "keyframe"
         \/ DeltaBy(conn', pending', after, n)
  BY <1>3, <1>7 DEF Built, Grown
<1>9. pending' # NoFrame =>
         /\ FramedBy(conn', pending', after, n)
         /\ pending'.kind \in {"keyframe", "delta"} /\ pending'.id = n /\ pending'.epoch = conn'.epoch
         /\ NamesAll(conn', pending'.ops) /\ Shows(pending', after)
  BY <1>8 DEF DeltaBy, FramedBy
<1>10. pending = NoFrame
  BY <1>1 DEF FramesInOrder
<1>11. /\ OnWire' = OnWire /\ OnWire \subseteq InFlight /\ queue \subseteq InFlight
       /\ \A f \in InFlight' : f \in OnWire \cup queue \/ (f = pending' /\ pending' # NoFrame)
       /\ \A f \in OnWire \cup queue : f \in InFlight
  BY <1>4 DEF OnWire, InFlight
<1>12. conn'.epoch \in Nat /\ conn.epoch <= conn'.epoch
  BY <1>2, <1>8
<1>13. Counted'
  BY <1>1, <1>2, <1>4, <1>5, <1>11, <1>12 DEF Counted
<1>14. Connected'
  BY <1>4, <1>8 DEF Connected, Good
<1>15. \A f \in OnWire \cup queue : /\ f.kind \in {"keyframe", "delta"}
                                    /\ f.id \in got.key + 1 .. snap
                                    /\ f.epoch \in got.keyEpoch .. conn.epoch
  BY <1>1, <1>11 DEF FramesInOrder
<1>16. FramesInOrder'
  <2>1. ASSUME NEW f \in InFlight'
        PROVE  /\ f.kind \in {"keyframe", "delta"}
               /\ f.id \in got.key + 1 .. n
               /\ f.epoch \in got.keyEpoch .. conn'.epoch
    <3>1. CASE f \in OnWire \cup queue
      BY <1>2, <1>5, <1>12, <1>15, <3>1
    <3>2. CASE f = pending' /\ pending' # NoFrame
      BY <1>2, <1>5, <1>9, <1>12, <3>2
    <3> QED
      BY <1>11, <3>1, <3>2
  <2>2. ASSUME NEW f \in InFlight', NEW g \in InFlight', f.id <= g.id PROVE f.epoch <= g.epoch
    <3>1. CASE g = pending' /\ pending' # NoFrame
      <4>1. g.epoch = conn'.epoch /\ f.epoch \in got.keyEpoch .. conn'.epoch
        BY <1>9, <2>1, <3>1
      <4> QED
        BY <1>2, <1>12, <4>1
    <3>2. CASE g \in OnWire \cup queue /\ f \in OnWire \cup queue
      BY <1>1, <1>11, <2>2, <3>2 DEF FramesInOrder
    <3>3. CASE g \in OnWire \cup queue /\ f = pending' /\ pending' # NoFrame
      <4>1. f.id = n /\ g.id \in got.key + 1 .. snap
        BY <1>9, <1>15, <3>3
      <4> QED
        BY <1>2, <1>5, <2>2, <4>1
    <3> QED
      BY <1>11, <3>1, <3>2, <3>3
  <2>3. /\ \A i, j \in DOMAIN wire : i < j => wire[i].id < wire[j].id
        /\ \A f \in OnWire, g \in queue : f.id < g.id
        /\ \A f, g \in queue : f.id = g.id => f = g
    BY <1>1 DEF FramesInOrder
  <2>4. \A f \in OnWire \cup queue : f.id < n
    BY <1>2, <1>5, <1>15
  <2> QED
    BY <1>4, <1>9, <1>11, <2>1, <2>2, <2>3, <2>4 DEF FramesInOrder
<1>17. FramesShowTheWorld'
  <2>1. changed \in 0 .. snap + 1
    BY <1>1 DEF FramesShowTheWorld
  <2>2. changed' \in 0 .. n + 1
    BY <1>2, <1>4, <1>5, <2>1
  <2>3. ASSUME NEW f \in OnWire \cup queue, f.id >= changed' PROVE Shows(f, after)
    <3>1. f.id \in Int /\ f.id <= snap
      BY <1>2, <1>15
    <3>2. changed' # n
      BY <1>2, <1>5, <2>3, <3>1
    <3>3. after = world /\ changed' = changed
      BY <1>4, <3>2
    <3> QED
      BY <1>1, <1>11, <2>3, <3>3 DEF FramesShowTheWorld
  <2> QED
    BY <1>4, <1>9, <1>11, <2>2, <2>3 DEF FramesShowTheWorld
<1>18. KeyframeHeals'
  <2>1. CASE after = world
    BY <1>1, <1>4, <2>1 DEF KeyframeHeals
  <2>2. CASE after # world
    BY <1>2, <1>4, <1>5, <2>2 DEF KeyframeHeals
  <2> QED
    BY <2>1, <2>2
<1>19. FidsAgree'
  <2>1. CASE conn'.epoch = conn.epoch /\ Grown(conn, conn')
    <3>1. \A x : NamesAll(conn, x) => NamesAll(conn', x)
      BY <2>1, NamesStay
    <3>2. \A w, x : Named(conn, w, x) => Named(conn', w, x)
      BY <2>1 DEF Named, Grown
    <3>3. \A f \in InFlight' : f.epoch = conn'.epoch => NamesAll(conn', f.ops)
      BY <1>1, <1>9, <1>11, <2>1, <3>1 DEF FidsAgree
    <3> QED
      BY <1>1, <1>4, <2>1, <3>2, <3>3 DEF FidsAgree
  <2>2. CASE conn'.epoch = conn.epoch + 1
    <3>1. \A f \in OnWire \cup queue : f.epoch # conn'.epoch
      BY <1>2, <1>15, <2>2
    <3>2. got.keyEpoch # conn'.epoch
      BY <1>2, <2>2
    <3> QED
      BY <1>4, <1>9, <1>11, <3>1, <3>2 DEF FidsAgree
  <2> QED
    BY <1>8, <2>1, <2>2
<1>20. DropIsRepaired'
  BY <1>1, <1>4, <1>8, <1>10 DEF DropIsRepaired, NoFrame
<1>21. ViewIsAckedPlusFrame'
  <2>1. pending'.kind = "delta" => Whole(conn', pending'.ops)
    BY <1>8 DEF DeltaBy, NoFrame
  <2> QED
    BY <2>1 DEF ViewIsAckedPlusFrame, Whole
<1> QED
  BY <1>13, <1>14, <1>16, <1>17, <1>18, <1>19, <1>20, <1>21 DEF PathInv

(* Steps that leave the frames and the names alone.                         *)
LEMMA QuietStep ==
    ASSUME PathInv, Good(conn', snap'), snap' = snap, wire' = wire, queue' = queue, pending' = pending,
           conn'.epoch = conn.epoch, conn'.fid = conn.fid, UNCHANGED <<resync, lost, client>>,
           pending # NoFrame => phase' = "control"
    PROVE  /\ Counted' /\ Connected' /\ FramesInOrder' /\ FidsAgree'
           /\ OnWire' = OnWire /\ InFlight' = InFlight
<1>1. Counted /\ Connected /\ FramesInOrder /\ FidsAgree
  BY DEF PathInv
<1>2. OnWire' = OnWire /\ InFlight' = InFlight
  BY DEF OnWire, InFlight
<1>3. replica' = replica /\ got' = got
  BY DEF client
<1>4. Counted'
  BY <1>1, <1>2, <1>3 DEF Counted
<1>5. Connected'
  BY DEF Connected, Good
<1>6. FramesInOrder'
  BY <1>1, <1>2, <1>3 DEF FramesInOrder
<1>7. FidsAgree'
  BY <1>1, <1>2, <1>3, SameNames DEF FidsAgree
<1> QED
  BY <1>2, <1>4, <1>5, <1>6, <1>7

LEMMA RequestKeeps ==
    ASSUME PathInv, RequestKeyframe
    PROVE  PathInv'
<1>1. /\ conn' = [conn EXCEPT !.needs = TRUE] /\ snap' = snap /\ world' = world
      /\ wire' = wire /\ queue' = queue /\ pending' = pending /\ phase' = phase
      /\ changed' = changed /\ resync' = resync /\ lost' = lost /\ replica' = replica /\ got' = got
      /\ phase = "control"
  BY Zenon DEF RequestKeyframe, client
<1>2. DOMAIN conn = Fields /\ Good(conn, snap)
  BY FieldsAre, ConnectedIs DEF PathInv, Connected, Shaped
<1>3. /\ DOMAIN conn' = DOMAIN conn /\ \A x \in Unflagged : conn'[x] = conn[x]
      /\ conn'.needs = TRUE /\ conn'.epoch = conn.epoch /\ conn'.fid = conn.fid
  BY <1>1, <1>2 DEF Fields, Unflagged
<1>4. Good(conn', snap) /\ \A ops : Whole(conn, ops) => Whole(conn', ops)
  <2>1. conn'.needs \in BOOLEAN /\ (conn.needs => conn'.needs)
    BY <1>3
  <2> QED
    BY <1>2, <1>3, <2>1, FlagsSet
<1>5. /\ Counted' /\ Connected' /\ FramesInOrder' /\ FidsAgree'
      /\ OnWire' = OnWire /\ InFlight' = InFlight
  <2>1. Good(conn', snap')
    BY <1>1, <1>4
  <2>2. UNCHANGED <<resync, lost, client>>
    BY <1>1 DEF client
  <2> QED
    BY <1>1, <1>3, <2>1, <2>2, QuietStep
<1>6. FramesShowTheWorld' /\ KeyframeHeals'
  BY <1>1, <1>5 DEF PathInv, FramesShowTheWorld, KeyframeHeals
<1>7. DropIsRepaired'
  BY <1>3 DEF DropIsRepaired
<1>8. ViewIsAckedPlusFrame'
  BY <1>1, <1>4 DEF PathInv, ViewIsAckedPlusFrame, Whole
<1> QED
  BY <1>5, <1>6, <1>7, <1>8 DEF PathInv

LEMMA UpdateKeeps ==
    ASSUME PathInv, UpdateSubscription
    PROVE  PathInv'
<1>1. /\ conn' = [conn EXCEPT !.needs = TRUE, !.cached = FALSE] /\ snap' = snap
      /\ wire' = wire /\ queue' = queue /\ pending' = pending /\ phase' = phase
      /\ changed' = snap + 1 /\ resync' = resync /\ lost' = lost /\ replica' = replica /\ got' = got
      /\ phase = "control"
  BY Zenon DEF UpdateSubscription, client
<1>2. DOMAIN conn = Fields /\ Good(conn, snap)
  BY FieldsAre, ConnectedIs DEF PathInv, Connected, Shaped
<1>3. /\ DOMAIN conn' = DOMAIN conn /\ \A x \in Unflagged : conn'[x] = conn[x]
      /\ conn'.needs = TRUE /\ conn'.epoch = conn.epoch /\ conn'.fid = conn.fid
  BY <1>1, <1>2 DEF Fields, Unflagged
<1>4. Good(conn', snap) /\ \A ops : Whole(conn, ops) => Whole(conn', ops)
  <2>1. conn'.needs \in BOOLEAN /\ (conn.needs => conn'.needs)
    BY <1>3
  <2> QED
    BY <1>2, <1>3, <2>1, FlagsSet
<1>5. /\ Counted' /\ Connected' /\ FramesInOrder' /\ FidsAgree'
      /\ OnWire' = OnWire /\ InFlight' = InFlight
  <2>1. Good(conn', snap')
    BY <1>1, <1>4
  <2>2. UNCHANGED <<resync, lost, client>>
    BY <1>1 DEF client
  <2> QED
    BY <1>1, <1>3, <2>1, <2>2, QuietStep
<1>6. snap \in Nat /\ got.key \in Nat /\ got.key <= snap
  BY Numbers DEF PathInv
<1>7. FramesShowTheWorld'
  <2>1. \A f \in InFlight : f.id \in got.key + 1 .. snap
    BY DEF PathInv, FramesInOrder
  <2>2. \A f \in InFlight' : ~(f.id >= changed')
    BY <1>1, <1>5, <1>6, <2>1
  <2>3. changed' \in 0 .. snap' + 1
    BY <1>1, <1>6
  <2> QED
    BY <2>2, <2>3 DEF FramesShowTheWorld
<1>8. KeyframeHeals'
  <2>1. ~(got'.key >= changed')
    BY <1>1, <1>6
  <2> QED
    BY <2>1 DEF KeyframeHeals
<1>9. DropIsRepaired'
  BY <1>3 DEF DropIsRepaired
<1>10. ViewIsAckedPlusFrame'
  BY <1>1, <1>4 DEF PathInv, ViewIsAckedPlusFrame, Whole
<1> QED
  BY <1>5, <1>7, <1>8, <1>9, <1>10 DEF PathInv

LEMMA AckKeeps ==
    ASSUME PathInv, InboundAck
    PROVE  PathInv'
<1>1. /\ conn' = conn \/ \E s : AckVerdict(conn, s) = "accepted" /\ conn' = Acknowledge(conn, s)
      /\ snap' = snap /\ world' = world /\ wire' = wire /\ queue' = queue /\ pending' = pending
      /\ phase' = phase /\ changed' = changed /\ resync' = resync /\ lost' = lost
      /\ replica' = replica /\ got' = got /\ phase = "poll"
  <2>1. /\ snap' = snap /\ world' = world /\ wire' = wire /\ queue' = queue /\ pending' = pending
        /\ phase' = phase /\ changed' = changed /\ resync' = resync /\ lost' = lost
        /\ replica' = replica /\ got' = got /\ phase = "poll"
    BY Zenon DEF InboundAck, client
  <2>2. conn' = conn \/ \E s : AckVerdict(conn, s) = "accepted" /\ conn' = Acknowledge(conn, s)
    <3> DEFINE ack == Head(acks)
               verdict == IF ack.epoch # conn.epoch THEN "epoch_mismatch" ELSE AckVerdict(conn, ack.id)
    <3>1. conn' = IF verdict = "accepted" THEN Acknowledge(conn, ack.id) ELSE conn
      BY Zenon DEF InboundAck
    <3>2. verdict = "accepted" => AckVerdict(conn, ack.id) = "accepted"
      OBVIOUS
    <3> HIDE DEF verdict, ack
    <3> QED
      BY <3>1, <3>2
  <2> QED
    BY <2>1, <2>2
<1>2. Good(conn, snap) /\ snap \in Nat
  BY ConnectedIs DEF PathInv, Counted
<1>3. Good(conn', snap) /\ conn'.epoch = conn.epoch /\ conn'.fid = conn.fid /\ conn'.needs = conn.needs
  <2>1. CASE conn' = conn
    BY <1>2, <2>1
  <2>2. CASE \E s : AckVerdict(conn, s) = "accepted" /\ conn' = Acknowledge(conn, s)
    <3>1. PICK s : AckVerdict(conn, s) = "accepted" /\ conn' = Acknowledge(conn, s)
      BY <2>2
    <3>2. LET d == Acknowledge(conn, s)
          IN  Good(d, snap) /\ d.epoch = conn.epoch /\ d.fid = conn.fid /\ d.needs = conn.needs
      BY <1>2, <3>1, Acknowledged
    <3> QED
      BY <3>1, <3>2
  <2> QED
    BY <1>1, <2>1, <2>2
<1>4. pending = NoFrame
  BY <1>1 DEF PathInv, FramesInOrder
<1>5. /\ Counted' /\ Connected' /\ FramesInOrder' /\ FidsAgree'
      /\ OnWire' = OnWire /\ InFlight' = InFlight
  <2>1. Good(conn', snap')
    BY <1>1, <1>3
  <2>2. UNCHANGED <<resync, lost, client>>
    BY <1>1 DEF client
  <2> QED
    BY <1>1, <1>3, <1>4, <2>1, <2>2, QuietStep
<1>6. FramesShowTheWorld' /\ KeyframeHeals'
  BY <1>1, <1>5 DEF PathInv, FramesShowTheWorld, KeyframeHeals
<1>7. DropIsRepaired'
  BY <1>1, <1>3 DEF PathInv, DropIsRepaired
<1>8. ViewIsAckedPlusFrame'
  BY <1>1 DEF ViewIsAckedPlusFrame
<1> QED
  BY <1>5, <1>6, <1>7, <1>8 DEF PathInv

LEMMA EndPollKeeps ==
    ASSUME PathInv, EndPoll
    PROVE  PathInv'
<1>1. /\ conn' = conn /\ snap' = snap /\ world' = world /\ wire' = wire /\ queue' = queue
      /\ pending' = pending /\ phase' = "step" /\ changed' = changed /\ resync' = resync /\ lost' = lost
      /\ replica' = replica /\ got' = got /\ phase = "poll"
  BY Zenon DEF EndPoll, server, client
<1>2. Good(conn', snap') /\ pending = NoFrame
  BY <1>1, ConnectedIs DEF PathInv, FramesInOrder
<1>3. /\ Counted' /\ Connected' /\ FramesInOrder' /\ FidsAgree'
      /\ OnWire' = OnWire /\ InFlight' = InFlight
  <2>1. UNCHANGED <<resync, lost, client>>
    BY <1>1 DEF client
  <2> QED
    BY <1>1, <1>2, <2>1, QuietStep
<1>4. FramesShowTheWorld' /\ KeyframeHeals' /\ DropIsRepaired'
  BY <1>1, <1>3 DEF PathInv, FramesShowTheWorld, KeyframeHeals, DropIsRepaired
<1>5. ViewIsAckedPlusFrame'
  BY <1>1 DEF ViewIsAckedPlusFrame
<1> QED
  BY <1>3, <1>4, <1>5 DEF PathInv

(* push() keeps frames of the queue and the pushed one.                     *)
LEMMA Pushed ==
    ASSUME NEW q, NEW f
    PROVE  Push(q, f) \subseteq q \cup {f}
<1>1. Merged(q, f) \subseteq q
  BY DEF Merged
<1>2. \A s : Shrunk(s) \subseteq s
  BY DEF Shrunk
<1> QED
  BY <1>1, <1>2 DEF Push

(* Steps that only take frames away, or hand them on, in their order.       *)
LEMMA FewerFrames ==
    ASSUME PathInv, InFlight' \subseteq InFlight, snap' = snap, got' = got, pending' = NoFrame,
           conn'.epoch = conn.epoch, conn'.fid = conn.fid, Good(conn', snap'),
           UNCHANGED <<world, changed, replica>>,
           \A i, j \in DOMAIN wire' : i < j => wire'[i].id < wire'[j].id,
           \A f \in OnWire', g \in queue' : f.id < g.id,
           \A f, g \in queue' : f.id = g.id => f = g
    PROVE  /\ Connected' /\ FramesInOrder' /\ FramesShowTheWorld' /\ KeyframeHeals' /\ FidsAgree'
           /\ ViewIsAckedPlusFrame'
<1>1. /\ FramesInOrder /\ FramesShowTheWorld /\ KeyframeHeals /\ FidsAgree
  BY DEF PathInv
<1>2. Connected'
  BY DEF Connected, Good
<1>3. FramesInOrder'
  <2>1. \A f \in InFlight' : /\ f.kind \in {"keyframe", "delta"}
                             /\ f.id \in got'.key + 1 .. snap'
                             /\ f.epoch \in got'.keyEpoch .. conn'.epoch
    BY <1>1 DEF FramesInOrder
  <2>2. \A f, g \in InFlight' : f.id <= g.id => f.epoch <= g.epoch
    BY <1>1 DEF FramesInOrder
  <2> QED
    BY <2>1, <2>2 DEF FramesInOrder
<1>4. FramesShowTheWorld'
  BY <1>1 DEF FramesShowTheWorld
<1>5. KeyframeHeals'
  BY <1>1 DEF KeyframeHeals
<1>6. FidsAgree'
  BY <1>1, SameNames DEF FidsAgree
<1>7. ViewIsAckedPlusFrame'
  BY DEF ViewIsAckedPlusFrame, NoFrame
<1> QED
  BY <1>2, <1>3, <1>4, <1>5, <1>6, <1>7

LEMMA PumpKeeps ==
    ASSUME PathInv, Pump
    PROVE  PathInv'
<1>1. /\ Counted /\ Connected /\ FramesInOrder /\ DropIsRepaired
  BY DEF PathInv
<1>2. /\ conn' = [conn EXCEPT !.needs = @ \/ resync] /\ pending' = NoFrame
      /\ snap' = snap /\ world' = world
      /\ wire' = wire /\ changed' = changed /\ replica' = replica /\ got' = got
      /\ phase' = "poll" /\ phase = "control"
  BY Zenon DEF Pump, Resynced, client
<1> DEFINE dropped == queue' # Merged(queue, pending) \cup {pending}
<1>3. \/ pending = NoFrame /\ resync' = FALSE /\ queue' = queue /\ lost' = lost
      \/ /\ pending # NoFrame /\ queue' = Push(queue, pending)
         /\ resync' = dropped /\ lost' = (dropped \/ (lost /\ pending.kind # "keyframe"))
  BY Zenon DEF Pump
<1>d. dropped \in BOOLEAN
  OBVIOUS
<1> HIDE DEF dropped
<1>4. /\ DOMAIN conn = Fields /\ Good(conn, snap)
      /\ conn.needs \in BOOLEAN /\ resync \in BOOLEAN /\ lost \in BOOLEAN
  BY <1>1, FieldsAre, ConnectedIs DEF Connected, Shaped, Counted
<1>5. /\ DOMAIN conn' = DOMAIN conn /\ \A x \in Unflagged : conn'[x] = conn[x]
      /\ conn'.epoch = conn.epoch /\ conn'.fid = conn.fid
  BY <1>2, <1>4 DEF Fields, Unflagged
<1>6. conn'.needs = (conn.needs \/ resync)
  BY <1>2, <1>4, Zenon DEF Fields
<1>7. Good(conn', snap')
  <2>1. conn'.needs \in BOOLEAN /\ (conn.needs => conn'.needs)
    BY <1>6, Zenon
  <2>2. Good(conn', snap)
    <3>1. Good(conn, snap) /\ DOMAIN conn' = DOMAIN conn /\ \A x \in Unflagged : conn'[x] = conn[x]
      BY <1>4, <1>5
    <3> QED
      BY <2>1, <3>1, FlagsSet
  <2> QED
    BY <1>2, <2>2
<1>8. /\ OnWire' = OnWire /\ OnWire \subseteq InFlight /\ queue \subseteq InFlight
      /\ pending # NoFrame => pending \in InFlight
      /\ InFlight' = OnWire \cup queue'
  BY <1>2 DEF OnWire, InFlight
<1>9. \/ queue' \subseteq queue
      \/ pending # NoFrame /\ queue' \subseteq queue \cup {pending}
  BY <1>3, Pushed
<1>10. InFlight' \subseteq InFlight
  BY <1>8, <1>9
<1>11. pending # NoFrame => pending.id = snap /\ \A f \in OnWire \cup queue : f.id < snap
  BY <1>1 DEF FramesInOrder
<1>12. \A f \in OnWire', g \in queue' : f.id < g.id
  BY <1>1, <1>8, <1>9, <1>11 DEF FramesInOrder
<1>13. \A f, g \in queue' : f.id = g.id => f = g
  <2>1. \A f \in InFlight : f.id \in Int
    BY <1>1 DEF FramesInOrder
  <2>2. \A f, g \in queue : f.id = g.id => f = g
    BY <1>1 DEF FramesInOrder
  <2>3. pending # NoFrame => \A f \in queue : f.id # pending.id
    <3>1. snap \in Nat
      BY <1>1 DEF Counted
    <3>2. \A f \in queue : f.id \in Int
      BY <1>8, <2>1
    <3> QED
      BY <1>11, <3>1, <3>2
  <2> QED
    BY <1>9, <2>2, <2>3
<1>14. \A i, j \in DOMAIN wire' : i < j => wire'[i].id < wire'[j].id
  BY <1>1, <1>2 DEF FramesInOrder
<1>15. /\ Connected' /\ FramesInOrder' /\ FramesShowTheWorld' /\ KeyframeHeals' /\ FidsAgree'
       /\ ViewIsAckedPlusFrame'
  BY <1>2, <1>5, <1>7, <1>10, <1>12, <1>13, <1>14, FewerFrames
<1>16. Counted'
  <2>1. resync' \in BOOLEAN /\ lost' \in BOOLEAN
    BY <1>3, <1>4, <1>d, Zenon
  <2>2. /\ snap' \in Nat /\ got'.key \in 0 .. snap' /\ got'.keyEpoch \in 0 .. conn'.epoch
        /\ wire' \in Seq(OnWire')
    BY <1>1, <1>2, <1>5, <1>8 DEF Counted
  <2> QED
    BY <2>1, <2>2 DEF Counted
<1>17. DropIsRepaired'
  <2>1. lost => resync \/ conn.needs \/ pending.kind = "keyframe"
    BY <1>1 DEF DropIsRepaired
  <2>2. NoFrame.kind # "keyframe"
    BY DEF NoFrame
  <2>3. lost' => resync' \/ conn'.needs
    <3>1. CASE pending = NoFrame /\ resync' = FALSE /\ queue' = queue /\ lost' = lost
      <4>1. pending.kind # "keyframe"
        BY <2>2, <3>1
      <4>2. lost => conn'.needs
        BY <1>6, <2>1, <4>1, Zenon
      <4> QED
        BY <3>1, <4>2, Zenon
    <3>2. CASE resync' = dropped /\ lost' = (dropped \/ (lost /\ pending.kind # "keyframe"))
      BY <1>6, <2>1, <3>2, Zenon
    <3> QED
      BY <1>3, <3>1, <3>2
  <2> QED
    BY <2>3 DEF DropIsRepaired
<1> QED
  BY <1>15, <1>16, <1>17 DEF PathInv

(* The first frame of a queue is the oldest.                                *)
LEMMA FirstIs ==
    ASSUME NEW q, q # {}, \A f \in q : f.id \in Nat
    PROVE  First(q) \in q /\ \A g \in q : First(q).id <= g.id
<1> DEFINE S == {f.id : f \in q}
<1>1. PICK m \in S : \A y \in S : m <= y
  <2>1. S \in SUBSET Nat /\ S # {}
    OBVIOUS
  <2> HIDE DEF S
  <2> QED
    BY <2>1, LeastNat
<1>2. PICK f \in q : f.id = m
  OBVIOUS
<1>3. \A g \in q : f.id <= g.id
  BY <1>1, <1>2
<1>4. \E x \in q : \A g \in q : x.id <= g.id
  BY <1>3
<1> QED
  BY <1>4, Zenon DEF First

LEMMA SendKeeps ==
    ASSUME PathInv, Send
    PROVE  PathInv'
<1> DEFINE f0 == First(queue)
<1>1. /\ Counted /\ Connected /\ FramesInOrder /\ DropIsRepaired
  BY DEF PathInv
<1>2. /\ queue # {} /\ wire' = Append(wire, f0) /\ queue' = queue \ {f0}
      /\ conn' = conn /\ pending' = pending /\ snap' = snap /\ world' = world
      /\ changed' = changed /\ replica' = replica /\ got' = got /\ resync' = resync /\ lost' = lost
      /\ phase = "poll"
  BY Zenon DEF Send, client
<1>3. pending = NoFrame /\ OnWire \subseteq InFlight /\ queue \subseteq InFlight
  BY <1>1, <1>2 DEF FramesInOrder, InFlight
<1>4. /\ snap \in Nat /\ got.key \in Nat
  BY <1>1, Numbers
<1>5. \A f \in InFlight : f.id \in Nat
  <2>1. \A f \in InFlight : f.id \in got.key + 1 .. snap
    BY <1>1 DEF FramesInOrder
  <2> QED
    BY <1>4, <2>1
<1>6. f0 \in queue /\ \A g \in queue : f0.id <= g.id
  BY <1>2, <1>3, <1>5, FirstIs
<1> HIDE DEF f0
<1>7. /\ wire \in Seq(OnWire) /\ DOMAIN wire = 1 .. Len(wire) /\ Len(wire) \in Nat
  <2>1. wire \in Seq(OnWire)
    BY <1>1 DEF Counted
  <2> QED
    BY <2>1, OwnSequence
<1>8. /\ wire' \in Seq(OnWire \cup {f0}) /\ DOMAIN wire' = 1 .. Len(wire) + 1
      /\ \A i \in 1 .. Len(wire) : wire'[i] = wire[i]
      /\ wire'[Len(wire) + 1] = f0
  <2> DEFINE S == OnWire
             w == Append(wire, f0)
  <2>0. wire \in Seq(S)
    BY <1>7
  <2> HIDE DEF S
  <2>1. /\ w \in Seq(S \cup {f0}) /\ Len(w) = Len(wire) + 1
        /\ \A i \in 1 .. Len(wire) : w[i] = wire[i]
        /\ w[Len(wire) + 1] = f0
    BY <2>0, Appended
  <2> HIDE DEF w
  <2>2. DOMAIN w = 1 .. Len(w)
    BY <2>1, OwnSequence
  <2>3. wire' = w
    BY <1>2 DEF w
  <2> QED
    BY <2>1, <2>2, <2>3 DEF S
<1>9. OnWire' = OnWire \cup {f0}
  <2>1. \A x : x \in OnWire <=> \E i \in 1 .. Len(wire) : x = wire[i]
    BY <1>7 DEF OnWire
  <2>2. \A x : x \in OnWire' <=> \E i \in 1 .. Len(wire) + 1 : x = wire'[i]
    BY <1>8 DEF OnWire
  <2>3. ASSUME NEW x \in OnWire' PROVE x \in OnWire \cup {f0}
    <3>1. PICK i \in 1 .. Len(wire) + 1 : x = wire'[i]
      BY <2>2
    <3>2. CASE i = Len(wire) + 1
      BY <1>8, <3>1, <3>2
    <3>3. CASE i \in 1 .. Len(wire)
      BY <1>8, <2>1, <3>1, <3>3
    <3> QED
      BY <1>7, <3>2, <3>3
  <2>4. ASSUME NEW x \in OnWire PROVE x \in OnWire'
    <3>1. PICK i \in 1 .. Len(wire) : x = wire[i]
      BY <2>1
    <3>2. i \in 1 .. Len(wire) + 1 /\ x = wire'[i]
      BY <1>7, <1>8, <3>1
    <3> QED
      BY <2>2, <3>2
  <2>5. f0 \in OnWire'
    <3>1. Len(wire) + 1 \in 1 .. Len(wire) + 1
      BY <1>7
    <3> QED
      BY <1>8, <2>2, <3>1
  <2> QED
    BY <2>3, <2>4, <2>5
<1>10. InFlight' \subseteq InFlight
  BY <1>2, <1>3, <1>6, <1>9 DEF InFlight
<1>11. /\ \A i, j \in DOMAIN wire : i < j => wire[i].id < wire[j].id
       /\ \A f \in OnWire, g \in queue : f.id < g.id
       /\ \A f, g \in queue : f.id = g.id => f = g
  BY <1>1 DEF FramesInOrder
<1>12. ASSUME NEW i \in DOMAIN wire', NEW j \in DOMAIN wire', i < j PROVE wire'[i].id < wire'[j].id
  <2>1. i \in 1 .. Len(wire) /\ (j \in 1 .. Len(wire) \/ j = Len(wire) + 1)
    BY <1>7, <1>8, <1>12
  <2>2. CASE j \in 1 .. Len(wire)
    BY <1>7, <1>8, <1>11, <1>12, <2>1, <2>2
  <2>3. CASE j = Len(wire) + 1
    <3>1. wire[i] \in OnWire
      BY <1>7, <2>1 DEF OnWire
    <3> QED
      BY <1>6, <1>8, <1>11, <2>1, <2>3, <3>1
  <2> QED
    BY <2>1, <2>2, <2>3
<1>13. ASSUME NEW g \in queue' PROVE f0.id < g.id
  <2>1. g \in queue /\ g # f0
    BY <1>2, <1>13
  <2>2. f0.id <= g.id /\ f0.id # g.id /\ f0.id \in Nat /\ g.id \in Nat
    BY <1>3, <1>5, <1>6, <1>11, <2>1
  <2> QED
    BY <2>2
<1>14. \A f \in OnWire', g \in queue' : f.id < g.id
  BY <1>2, <1>9, <1>11, <1>13
<1>15. \A f, g \in queue' : f.id = g.id => f = g
  BY <1>2, <1>11
<1>16. Good(conn', snap')
  BY <1>1, <1>2, ConnectedIs
<1>17. /\ Connected' /\ FramesInOrder' /\ FramesShowTheWorld' /\ KeyframeHeals' /\ FidsAgree'
       /\ ViewIsAckedPlusFrame'
  BY <1>2, <1>3, <1>10, <1>12, <1>14, <1>15, <1>16, FewerFrames
<1>18. Counted'
  BY <1>1, <1>2, <1>8, <1>9 DEF Counted
<1>19. DropIsRepaired'
  BY <1>1, <1>2 DEF DropIsRepaired
<1> QED
  BY <1>17, <1>18, <1>19 DEF PathInv

(* What a frame leaves of the replica.                                      *)
HasApplied(new, r, f) ==
    IF f.kind = "keyframe"
    THEN /\ \A w : w \in DOMAIN new <=> w \in DOMAIN f.ops /\ f.ops[w].kind # "leave"
         /\ \A w \in DOMAIN new : new[w].fid = f.ops[w].fid /\ new[w].hash = f.ops[w].hash
    ELSE IsReplayed(new, r, f.ops)

LEMMA AppliedIs ==
    ASSUME NEW r, NEW f
    PROVE  HasApplied(Applied(r, f), r, f)
<1> DEFINE ops == f.ops
           held == Held(ops)
           new == Applied(r, f)
           S == {v \in DOMAIN ops : ops[v].kind # "leave"}
           of(w) == [fid |-> ops[w].fid, hash |-> ops[w].hash]
<1>1. held = [w \in S |-> of(w)]
  BY DEF Held
<1>2. \A w : w \in S <=> w \in DOMAIN ops /\ ops[w].kind # "leave"
  OBVIOUS
<1>3. \A w : of(w).fid = ops[w].fid /\ of(w).hash = ops[w].hash
  OBVIOUS
<1> HIDE DEF held, S, of
<1>4. DOMAIN held = S /\ \A w \in S : held[w].fid = ops[w].fid /\ held[w].hash = ops[w].hash
  BY <1>1, <1>3
<1>5. CASE f.kind = "keyframe"
  <2>1. new = held
    BY <1>5 DEF Applied, held
  <2> HIDE DEF new
  <2> QED
    BY <1>2, <1>4, <1>5, <2>1 DEF HasApplied, new
<1>6. CASE f.kind # "keyframe"
  <2> DEFINE D == (DOMAIN r \cup DOMAIN ops) \ (DOMAIN ops \ DOMAIN held)
             at(w) == IF w \in DOMAIN ops THEN held[w] ELSE r[w]
  <2>1. new = [w \in D |-> at(w)]
    BY <1>6 DEF Applied, held
  <2>2. \A w : w \in D <=> /\ w \in DOMAIN r \/ w \in DOMAIN ops
                           /\ ~(w \in DOMAIN ops /\ ops[w].kind = "leave")
    BY <1>2, <1>4
  <2>3. \A w \in D : IF w \in DOMAIN ops THEN at(w).fid = ops[w].fid /\ at(w).hash = ops[w].hash
                                         ELSE at(w) = r[w]
    BY <1>2, <1>4
  <2> HIDE DEF new, D, at
  <2>4. DOMAIN new = D /\ \A w \in D : new[w] = at(w)
    BY <2>1
  <2>5. IsReplayed(new, r, ops)
    BY <2>2, <2>3, <2>4 DEF IsReplayed
  <2> QED
    BY <1>6, <2>5 DEF HasApplied, new
<1> QED
  BY <1>5, <1>6

LEMMA ReceiveKeeps ==
    ASSUME PathInv, Receive
    PROVE  PathInv'
<1> DEFINE f0 == Head(wire)
<1>1. /\ Counted /\ Connected /\ FramesInOrder /\ FramesShowTheWorld /\ KeyframeHeals /\ FidsAgree
      /\ DropIsRepaired /\ ViewIsAckedPlusFrame
  BY DEF PathInv
<1>2. /\ wire # <<>> /\ wire' = Tail(wire)
      /\ replica' = Applied(replica, f0)
      /\ got' = IF f0.kind = "keyframe" THEN [key |-> f0.id, keyEpoch |-> f0.epoch] ELSE got
      /\ conn' = conn /\ pending' = pending /\ queue' = queue /\ snap' = snap /\ world' = world
      /\ changed' = changed /\ resync' = resync /\ lost' = lost /\ phase' = phase
  BY Zenon DEF Receive, server
<1>3. /\ wire \in Seq(OnWire) /\ DOMAIN wire = 1 .. Len(wire) /\ Len(wire) \in Nat
  <2>1. wire \in Seq(OnWire)
    BY <1>1 DEF Counted
  <2> QED
    BY <2>1, OwnSequence
<1>4. /\ Len(wire) >= 1 /\ f0 = wire[1] /\ DOMAIN wire' = 1 .. Len(wire) - 1
      /\ \A i \in 1 .. Len(wire) - 1 : wire'[i] = wire[i + 1]
      /\ wire' \in Seq(OnWire)
  <2> DEFINE S == OnWire
             t == Tail(wire)
  <2>0. wire \in Seq(S) /\ wire # <<>>
    BY <1>2, <1>3
  <2> HIDE DEF S
  <2>1. /\ Len(wire) >= 1 /\ Head(wire) = wire[1] /\ t \in Seq(S) /\ Len(t) = Len(wire) - 1
        /\ DOMAIN t = 1 .. Len(wire) - 1
        /\ \A i \in 1 .. Len(wire) - 1 : t[i] = wire[i + 1]
    BY <2>0
  <2> HIDE DEF t
  <2>2. wire' = t
    BY <1>2 DEF t
  <2> QED
    BY <2>1, <2>2 DEF S
<1> HIDE DEF f0
<1>5. f0 \in OnWire
  BY <1>3, <1>4 DEF OnWire
<1>6. OnWire' \subseteq OnWire
  BY <1>3, <1>4 DEF OnWire
<1>7. OnWire \subseteq InFlight /\ queue \subseteq InFlight /\ InFlight' \subseteq InFlight
  BY <1>2, <1>6 DEF InFlight
<1>8. /\ \A i, j \in DOMAIN wire : i < j => wire[i].id < wire[j].id
      /\ \A f \in OnWire, g \in queue : f.id < g.id
      /\ \A f, g \in queue : f.id = g.id => f = g
  BY <1>1 DEF FramesInOrder
<1>9. /\ snap \in Nat /\ got.key \in Nat /\ got.key <= snap
      /\ conn.epoch \in Nat /\ got.keyEpoch \in Nat /\ got.keyEpoch <= conn.epoch
  BY <1>1, Numbers
<1>10. \A f \in InFlight : /\ f.kind \in {"keyframe", "delta"}
                           /\ f.id \in got.key + 1 .. snap
                           /\ f.epoch \in got.keyEpoch .. conn.epoch
  BY <1>1 DEF FramesInOrder
<1>11. ASSUME NEW g \in InFlight' PROVE f0.id < g.id /\ f0.epoch <= g.epoch
  <2>1. f0.id < g.id
    <3>1. CASE g \in OnWire'
      <4>1. PICK i \in 1 .. Len(wire) - 1 : g = wire[i + 1]
        BY <1>4, <3>1 DEF OnWire
      <4>2. 1 \in DOMAIN wire /\ i + 1 \in DOMAIN wire /\ 1 < i + 1
        BY <1>3, <1>4
      <4> QED
        BY <1>4, <1>8, <4>1, <4>2
    <3>2. CASE g \in queue
      BY <1>5, <1>8, <3>2
    <3>3. CASE pending # NoFrame /\ g = pending
      BY <1>1, <1>5, <3>3 DEF FramesInOrder
    <3> QED
      BY <1>2, <3>1, <3>2, <3>3 DEF InFlight
  <2>2. f0 \in InFlight /\ g \in InFlight /\ f0.id \in Int /\ g.id \in Int
    BY <1>5, <1>7, <1>10
  <2>3. f0.id <= g.id
    BY <2>1, <2>2
  <2> QED
    BY <1>1, <2>1, <2>2, <2>3 DEF FramesInOrder
<1>12. /\ f0.kind = "keyframe" => got'.key = f0.id /\ got'.keyEpoch = f0.epoch
       /\ f0.kind # "keyframe" => got' = got
  BY <1>2
<1>13. /\ f0 \in InFlight /\ f0.id \in Nat /\ f0.id > got.key /\ f0.id <= snap
       /\ f0.epoch \in Nat /\ f0.epoch >= got.keyEpoch /\ f0.epoch <= conn.epoch
  BY <1>5, <1>7, <1>9, <1>10
<1>14. got'.key \in 0 .. snap /\ got'.keyEpoch \in 0 .. conn.epoch
  BY <1>9, <1>12, <1>13
<1>15. Counted'
  <2>1. wire' \in Seq(OnWire')
    <3> DEFINE t == wire'
    <3>1. t \in Seq(ElementsOf(t))
      <4>1. t \in Seq(OnWire)
        BY <1>4
      <4> HIDE DEF t
      <4> QED
        BY <4>1, OwnSequence
    <3> QED
      BY <3>1 DEF OnWire, ElementsOf
  <2> QED
    BY <1>1, <1>2, <1>14, <2>1 DEF Counted
<1>16. Connected'
  BY <1>1, <1>2 DEF Connected
<1>17. FramesInOrder'
  <2>1. ASSUME NEW g \in InFlight'
        PROVE  /\ g.kind \in {"keyframe", "delta"}
               /\ g.id \in got'.key + 1 .. snap
               /\ g.epoch \in got'.keyEpoch .. conn.epoch
    <3>1. /\ g.kind \in {"keyframe", "delta"}
          /\ g.id \in got.key + 1 .. snap
          /\ g.epoch \in got.keyEpoch .. conn.epoch
      BY <1>7, <1>10
    <3>2. CASE f0.kind = "keyframe"
      BY <1>9, <1>11, <1>12, <1>13, <3>1, <3>2
    <3>3. CASE f0.kind # "keyframe"
      BY <1>12, <3>1, <3>3
    <3> QED
      BY <3>2, <3>3
  <2>2. \A f, g \in InFlight' : f.id <= g.id => f.epoch <= g.epoch
    BY <1>1, <1>7 DEF FramesInOrder
  <2>3. ASSUME NEW i \in DOMAIN wire', NEW j \in DOMAIN wire', i < j PROVE wire'[i].id < wire'[j].id
    <3>1. i + 1 \in DOMAIN wire /\ j + 1 \in DOMAIN wire /\ i + 1 < j + 1
      BY <1>3, <1>4, <2>3
    <3>2. wire'[i] = wire[i + 1] /\ wire'[j] = wire[j + 1]
      BY <1>4
    <3> QED
      BY <1>8, <3>1, <3>2
  <2>4. pending # NoFrame => /\ phase = "control"
                             /\ pending.id = snap /\ pending.epoch = conn.epoch
                             /\ \A f \in OnWire \cup queue : f.id < snap
    BY <1>1 DEF FramesInOrder
  <2>5. /\ \A f \in OnWire', g \in queue' : f.id < g.id
        /\ \A f, g \in queue' : f.id = g.id => f = g
    BY <1>2, <1>6, <1>8
  <2>6. pending' # NoFrame => /\ phase' = "control"
                              /\ pending'.id = snap' /\ pending'.epoch = conn'.epoch
                              /\ \A f \in OnWire' \cup queue' : f.id < snap'
    BY <1>2, <1>6, <2>4
  <2>7. \A g \in InFlight' : /\ g.kind \in {"keyframe", "delta"}
                             /\ g.id \in got'.key + 1 .. snap'
                             /\ g.epoch \in got'.keyEpoch .. conn'.epoch
    BY <1>2, <2>1
  <2>8. \A i, j \in DOMAIN wire' : i < j => wire'[i].id < wire'[j].id
    BY <2>3
  <2> QED
    BY <2>2, <2>5, <2>6, <2>7, <2>8 DEF FramesInOrder
<1>18. FramesShowTheWorld'
  BY <1>1, <1>2, <1>7 DEF FramesShowTheWorld
<1>19. HasApplied(replica', replica, f0)
  BY <1>2, AppliedIs
<1>20. KeyframeHeals'
  <2> SUFFICES ASSUME got'.key # 0, got'.key >= changed
               PROVE  /\ DOMAIN replica' = Visible(world)
                      /\ \A w \in DOMAIN replica' : replica'[w].hash = world[w].hash
    BY <1>2 DEF KeyframeHeals
  <2>0. changed \in Int
    BY <1>1, <1>9 DEF FramesShowTheWorld
  <2>1. Shows(f0, world)
    <3>1. f0.id >= changed
      BY <1>9, <1>12, <1>13, <2>0
    <3> QED
      BY <1>1, <1>13, <3>1 DEF FramesShowTheWorld
  <2>2. CASE f0.kind = "keyframe"
    <3>1. DOMAIN replica' = Visible(world)
      BY <1>19, <2>1, <2>2 DEF HasApplied, Shows
    <3> QED
      BY <1>19, <2>1, <2>2, <3>1 DEF HasApplied, Shows
  <2>3. CASE f0.kind # "keyframe"
    <3>1. /\ DOMAIN replica = Visible(world)
          /\ \A w \in DOMAIN replica : replica[w].hash = world[w].hash
      BY <1>1, <1>12, <2>3 DEF KeyframeHeals
    <3>2. IsReplayed(replica', replica, f0.ops)
      BY <1>19, <2>3 DEF HasApplied
    <3>3. \A w : w \in DOMAIN replica' <=> w \in Visible(world)
      BY <2>1, <3>1, <3>2 DEF IsReplayed, Shows
    <3>4. \A w \in DOMAIN replica' : replica'[w].hash = world[w].hash
      BY <2>1, <3>1, <3>2, <3>3 DEF IsReplayed, Shows
    <3> QED
      BY <3>3, <3>4
  <2> QED
    BY <2>2, <2>3
<1>21. FidsAgree'
  <2>1. \A f \in InFlight' : f.epoch = conn'.epoch => NamesAll(conn', f.ops)
    BY <1>1, <1>2, <1>7 DEF FidsAgree
  <2>2. ASSUME got'.keyEpoch = conn.epoch, NEW w \in DOMAIN replica'
        PROVE  Named(conn, w, replica'[w].fid)
    <3>1. f0.epoch = conn.epoch
      BY <1>9, <1>12, <1>13, <2>2
    <3>2. NamesAll(conn, f0.ops)
      BY <1>1, <1>13, <3>1 DEF FidsAgree
    <3>3. CASE f0.kind = "keyframe"
      BY <1>19, <2>2, <3>2, <3>3 DEF HasApplied, NamesAll
    <3>4. CASE f0.kind # "keyframe"
      <4>1. IsReplayed(replica', replica, f0.ops)
        BY <1>19, <3>4 DEF HasApplied
      <4>2. \A v \in DOMAIN replica : Named(conn, v, replica[v].fid)
        BY <1>1, <1>12, <2>2, <3>4 DEF FidsAgree
      <4> QED
        BY <2>2, <3>2, <4>1, <4>2 DEF IsReplayed, NamesAll
    <3> QED
      BY <3>3, <3>4
  <2> QED
    BY <1>2, <2>1, <2>2 DEF FidsAgree
<1>22. DropIsRepaired' /\ ViewIsAckedPlusFrame'
  BY <1>1, <1>2 DEF DropIsRepaired, ViewIsAckedPlusFrame
<1> QED
  BY <1>15, <1>16, <1>17, <1>18, <1>20, <1>21, <1>22 DEF PathInv

LEMMA StepKeeps ==
    ASSUME PathInv, Step
    PROVE  PathInv'
<1>1. /\ phase = "step" /\ phase' = "control"
      /\ UNCHANGED <<queue, resync, wire, client, lost>>
      /\ \E after, moved : Project(after, moved)
  <2>1. phase = "step" /\ phase' = "control" /\ UNCHANGED <<queue, resync, wire, client, lost>>
    BY Zenon DEF Step
  <2>2. CASE Project(world, FALSE)
    BY <2>1, <2>2, Zenon
  <2>3. CASE \E w \in Wid, p \in Places :
                \/ Project([world EXCEPT ![w] = p], Moved([world EXCEPT ![w] = p]))
                \/ Project([world EXCEPT ![w] = p], TRUE)
    BY <2>1, <2>3, Zenon
  <2> QED
    BY <2>2, <2>3, Zenon DEF Step
<1> QED
  BY <1>1, ProjectKeeps, Zenon

LEMMA NextPath == PathInv /\ [Next]_vars => PathInv'
<1> SUFFICES ASSUME PathInv, [Next]_vars PROVE PathInv'
  OBVIOUS
<1>1. CASE UNCHANGED vars
  <2>1. UNCHANGED <<world, snap, conn, pending, queue, resync, phase, wire, replica, got, lost, changed>>
    BY <1>1 DEF vars, server, client
  <2>2. OnWire' = OnWire /\ InFlight' = InFlight
    BY <2>1 DEF OnWire, InFlight
  <2>3. Counted' /\ Connected' /\ FramesInOrder' /\ FramesShowTheWorld'
    BY <2>1, <2>2 DEF PathInv, Counted, Connected, FramesInOrder, FramesShowTheWorld
  <2>4. KeyframeHeals' /\ FidsAgree' /\ DropIsRepaired' /\ ViewIsAckedPlusFrame'
    BY <2>1, <2>2 DEF PathInv, KeyframeHeals, FidsAgree, DropIsRepaired, ViewIsAckedPlusFrame
  <2> QED
    BY <2>3, <2>4 DEF PathInv
<1>2. CASE Step
  BY <1>2, StepKeeps
<1>3. CASE RequestKeyframe \/ UpdateSubscription
  BY <1>3, RequestKeeps, UpdateKeeps
<1>4. CASE Pump \/ Send
  BY <1>4, PumpKeeps, SendKeeps
<1>5. CASE InboundAck \/ EndPoll
  BY <1>5, AckKeeps, EndPollKeeps
<1>6. CASE Receive
  BY <1>6, ReceiveKeeps
<1> QED
  BY <1>1, <1>2, <1>3, <1>4, <1>5, <1>6 DEF Next

-----------------------------------------------------------------------------
(* The inductive invariant of the path: frames travel in the order of      *)
(* their snapshots, one epoch after the other; every record, frame and     *)
(* acknowledged entity of the epoch carries the FID the connection maps    *)
(* its wid to; what was projected since the world last changed shows that  *)
(* world; off the wids a record or an acknowledgement touched, the view    *)
(* sent is the acknowledged one (ProjectionEngine, StateQueue).            *)
THEOREM PathInvariant == Spec => []PathInv
BY InitPath, NextPath, PTL DEF Spec

(* A client that applied a keyframe projected since its visible world last *)
(* changed shows that visible world, whatever it applies afterwards        *)
(* (build_frame(), ReplicaAccumulator::apply).                             *)
THEOREM KeyframesHeal == Spec => []KeyframeHeals
<1>1. PathInv => KeyframeHeals
  BY DEF PathInv
<1> QED
  BY <1>1, PathInvariant, PTL

(* A client of the server's epoch names every entity by the FID that the   *)
(* server maps it to, and no two by the same (map_fid(), reset_epoch()).   *)
THEOREM ReplicasUseTheFids == Spec => []ReplicaFidsAgree
<1>1. ASSUME PathInv PROVE ReplicaFidsAgree
  <2> SUFFICES ASSUME got.keyEpoch = conn.epoch, NEW w \in DOMAIN replica
               PROVE  /\ w \in DOMAIN conn.fid /\ replica[w].fid = conn.fid[w]
                      /\ \A v \in DOMAIN replica \ {w} : replica[v].fid # replica[w].fid
    BY DEF ReplicaFidsAgree
  <2>1. \A v \in DOMAIN replica : v \in DOMAIN conn.fid /\ conn.fid[v] = replica[v].fid
    BY <1>1 DEF PathInv, FidsAgree, Named
  <2>2. \A u, v \in DOMAIN conn.fid : conn.fid[u] = conn.fid[v] => u = v
    BY <1>1 DEF PathInv, Connected, Numbered
  <2> QED
    BY <2>1, <2>2
<1> QED
  BY <1>1, PathInvariant, PTL

(* A dropped frame is on its way to be repaired: a resync is flagged, a    *)
(* keyframe is asked for or pending (StateQueue::push, pump()).            *)
THEOREM DropsAreRepaired == Spec => []DropIsRepaired
<1>1. PathInv => DropIsRepaired
  BY DEF PathInv
<1> QED
  BY <1>1, PathInvariant, PTL

(* After every delta the view sent is the acknowledged view with the       *)
(* operations of this frame (build_frame(), current_view).                 *)
THEOREM ViewsConverge == Spec => []ViewIsAckedPlusFrame
<1>1. PathInv => ViewIsAckedPlusFrame
  BY DEF PathInv
<1> QED
  BY <1>1, PathInvariant, PTL

-----------------------------------------------------------------------------
(* The pool.                                                               *)
(*                                                                         *)
(* The engine projects the dirty objects and prepares the connections of a *)
(* step on foundation::ThreadPool, one index per chunk, and uses what they *)
(* made once run() has returned.  The pool calls every index of a job      *)
(* exactly once and leaves nobody inside it, for every number of workers,  *)
(* every task count and every number of jobs, spurious wakeups included.   *)

(* What the two counters say.                                               *)
LEMMA Counting ==
    ASSUME PoolTypeOK, CountInv
    PROVE  /\ IsFiniteSet(Inside) /\ IsFiniteSet(Entered)
           /\ active = 0 => Inside = {}
           /\ \A w \in Inside : active >= 1
           /\ epoch > 0 /\ entered = Cardinality(Worker) => Entered = Worker
<1>1. Inside \in SUBSET Worker /\ Entered \in SUBSET Worker /\ IsFiniteSet(Worker)
  BY PoolConstants DEF Inside, Entered
<1>2. /\ IsFiniteSet(Inside) /\ IsFiniteSet(Entered)
      /\ Cardinality(Worker) = Cardinality(Entered) => Worker = Entered
  BY <1>1, FS_Subset
<1>3. active \in Nat /\ active = Cardinality(Inside)
  BY DEF PoolTypeOK, CountInv
<1>4. active = 0 => Inside = {}
  BY <1>2, <1>3, FS_EmptySet
<1>5. ASSUME NEW w \in Inside PROVE active >= 1
  <2>1. active # 0
    BY <1>4, <1>5
  <2> QED
    BY <1>3, <2>1
<1>6. epoch > 0 => entered = Cardinality(Entered)
  BY DEF CountInv
<1> QED
  BY <1>2, <1>4, <1>5, <1>6

LEMMA InitPool == PoolInit => PoolInv
<1> SUFFICES ASSUME PoolInit PROVE PoolInv
  OBVIOUS
<1>1. PoolTypeOK
  BY PoolConstants DEF PoolInit, PoolTypeOK, CallerAt, WorkerAt, None
<1>2. Inside = {} /\ Entered = Worker
  BY DEF PoolInit, Inside, Entered
<1>3. Cardinality(Inside) = 0
  BY <1>2, FS_EmptySet
<1>4. CountInv
  BY <1>2, <1>3 DEF CountInv, PoolInit, AtRest
<1>5. IndexInv /\ EndInv
  BY <1>2 DEF IndexInv, EndInv, PoolInit, AtRest
<1> QED
  BY <1>1, <1>4, <1>5 DEF PoolInv

-----------------------------------------------------------------------------
(* Steps that move neither a worker into or out of a job nor the counters.  *)
LEMMA SameWorkers ==
    ASSUME PoolTypeOK, CountInv, UNCHANGED <<epoch, count, active, entered, seen, limit>>,
           Inside' = Inside, AtRest => AtRest'
    PROVE  CountInv' /\ Entered' = Entered
<1>1. Entered' = Entered
  BY DEF Entered
<1> QED
  BY <1>1 DEF CountInv

LEMMA PostStep ==
    ASSUME PoolInv, NEW n \in Counts, Post(n)
    PROVE  PoolInv'
<1> USE DEF PoolInv
<1>1. PoolTypeOK'
  BY PoolConstants DEF Post, locals, PoolTypeOK, CallerAt
<1>2. epoch \in Nat /\ epoch' = epoch + 1 /\ next' = 0 /\ entered' = 0 /\ count' = n
  BY DEF Post, PoolTypeOK
<1>3. Inside = {} /\ Inside' = {}
  BY DEF EndInv, AtRest, Post, Inside, locals
<1>4. \A w \in Worker : seen'[w] = seen[w] /\ seen[w] \in Nat /\ seen[w] <= epoch
  BY DEF CountInv, PoolTypeOK, Post, locals
<1>5. Entered' = {}
  BY <1>2, <1>4 DEF Entered
<1>6. Cardinality({}) = 0
  BY FS_EmptySet
<1>7. CountInv'
  <2>1. active' = Cardinality(Inside')
    BY <1>3, <1>6 DEF CountInv, Post
  <2>2. entered' = Cardinality(Entered')
    BY <1>2, <1>5, <1>6
  <2>3. \A w \in Worker : seen'[w] <= epoch'
    BY <1>2, <1>4
  <2>4. epoch' > 0
    BY <1>2
  <2> QED
    BY <1>3, <2>1, <2>2, <2>3, <2>4 DEF CountInv
<1>8. IndexInv'
  <2>1. \A r \in ran' : r \in Nat \X Nat /\ r[1] <= epoch
    BY DEF IndexInv, PoolTypeOK, Post
  <2>2. \A w \in Worker : pc'[w] # "work"
    BY <1>3 DEF Inside
  <2>3. caller' # "work" /\ \A i \in 0..(count' - 1) : ~(i < next')
    BY <1>2 DEF Post
  <2>4. \A r \in ran' : r[1] <= epoch' /\ r[1] # epoch'
    BY <1>2, <2>1
  <2> QED
    BY <2>2, <2>3, <2>4 DEF IndexInv
<1>9. EndInv'
  BY DEF EndInv, AtRest, Post
<1> QED
  BY <1>1, <1>7, <1>8, <1>9

LEMMA NotifyStep ==
    ASSUME PoolInv, NotifyJob \/ NotifyStop
    PROVE  PoolInv'
<1> USE DEF PoolInv, NotifyJob, NotifyStop, NotifyAll
<1>1. PoolTypeOK'
  BY DEF shared, PoolTypeOK, CallerAt, WorkerAt, Awake
<1>2. /\ UNCHANGED <<shared, mine, seen, limit, task, ran>>
      /\ \A w \in Worker : \A at \in {"claim", "work", "leave"} : pc'[w] = at <=> pc[w] = at
  BY DEF Awake, PoolTypeOK
<1>3. Inside' = Inside
  BY <1>2 DEF Inside
<1>4. AtRest' = AtRest /\ caller # "work" /\ caller' # "work"
      /\ caller' \notin {"join", "waiting"}
  BY DEF AtRest
<1>5. CountInv' /\ Entered' = Entered
  BY <1>2, <1>3, <1>4, SameWorkers DEF shared
<1>6. IndexInv'
  BY <1>2, <1>4 DEF IndexInv, shared
<1>7. EndInv'
  BY <1>2, <1>3, <1>4, <1>5 DEF EndInv, shared
<1> QED
  BY <1>1, <1>5, <1>6, <1>7

LEMMA CallerClaimStep ==
    ASSUME PoolInv, CallerClaim
    PROVE  PoolInv'
<1> USE DEF PoolInv
<1>1. PoolTypeOK'
  BY DEF CallerClaim, locals, PoolTypeOK, CallerAt
<1>2. /\ UNCHANGED <<epoch, count, active, entered, holder, locals, ran>>
      /\ next' = next + 1 /\ ~AtRest /\ ~AtRest' /\ caller # "work"
      /\ next \in Nat /\ count \in Nat
  BY DEF CallerClaim, AtRest, PoolTypeOK
<1>3. Inside' = Inside
  BY <1>2 DEF Inside, locals
<1>4. CountInv'
  BY <1>2, <1>3, SameWorkers DEF locals
<1>5. EndInv'
  BY <1>2 DEF EndInv, CallerClaim
<1>6. IndexInv'
  <2> USE <1>2 DEF locals
  <2>1. \A r \in ran' : r[1] <= epoch' /\ (r[1] = epoch' => r[2] < next')
    BY DEF IndexInv, PoolTypeOK
  <2>2. \A w \in Worker : pc[w] = "work" => task[w] < next /\ task[w] # next /\ task[w] \in Nat
    <3>1. \A w \in Worker : pc[w] = "work" => task[w] < next
      BY DEF IndexInv
    <3>2. \A w \in Worker : task[w] \in Nat
      BY DEF PoolTypeOK
    <3> QED
      BY <3>1, <3>2
  <2>3. <<epoch, next>> \notin ran
    BY DEF IndexInv
  <2>4. CASE next >= count
    <3>1. caller' = "join" /\ mine' = mine
      BY <2>4 DEF CallerClaim
    <3>2. \A i \in 0..(count - 1) : i < next
      BY <2>4
    <3> QED
      BY <2>1, <2>2, <3>1, <3>2 DEF IndexInv
  <2>5. CASE ~(next >= count)
    <3>1. caller' = "work" /\ mine' = next
      BY <2>5 DEF CallerClaim
    <3>2. \A i \in 0..(count - 1) : i < next' => i < next \/ i = next
      OBVIOUS
    <3>3. \A i \in 0..(count' - 1) : i < next' =>
            \/ <<epoch', i>> \in ran'
            \/ caller' = "work" /\ mine' = i
            \/ \E w \in Worker : pc'[w] = "work" /\ task'[w] = i
      BY <3>1, <3>2 DEF IndexInv
    <3> QED
      BY <2>1, <2>2, <2>3, <2>5, <3>1, <3>3 DEF IndexInv
  <2> QED
    BY <2>4, <2>5
<1> QED
  BY <1>1, <1>4, <1>5, <1>6

LEMMA CallerWorkStep ==
    ASSUME PoolInv, CallerWork
    PROVE  PoolInv'
<1> USE DEF PoolInv
<1>1. PoolTypeOK'
  BY DEF CallerWork, shared, locals, PoolTypeOK, CallerAt
<1>2. /\ UNCHANGED <<shared, mine, locals>> /\ caller = "work" /\ caller' = "claim"
      /\ ran' = ran \cup {<<epoch, mine>>} /\ ~AtRest'
  BY DEF CallerWork, AtRest
<1>3. Inside' = Inside
  BY <1>2 DEF Inside, locals
<1>4. CountInv'
  BY <1>2, <1>3, SameWorkers DEF locals, shared, AtRest
<1>5. EndInv'
  BY <1>2 DEF EndInv
<1>6. IndexInv'
  <2> USE <1>2 DEF locals, shared
  <2>1. \A r \in ran' : r[1] <= epoch' /\ (r[1] = epoch' => r[2] < next')
    BY DEF IndexInv, PoolTypeOK
  <2>2. \A w \in Worker : pc[w] = "work" => task[w] # mine /\ <<epoch, task[w]>> \notin ran'
    BY DEF IndexInv
  <2>3. \A i \in 0..(count' - 1) : i < next' =>
            \/ <<epoch', i>> \in ran'
            \/ \E w \in Worker : pc'[w] = "work" /\ task'[w] = i
    BY DEF IndexInv
  <2> QED
    BY <2>1, <2>2, <2>3 DEF IndexInv
<1> QED
  BY <1>1, <1>4, <1>5, <1>6

LEMMA CallerOtherStep ==
    ASSUME PoolInv, CallerJoin \/ JoinThreads \/ SpuriousCaller \/ Destroy
    PROVE  PoolInv'
<1> USE DEF PoolInv
<1>0. /\ UNCHANGED <<epoch, count, next, active, entered, mine, locals, ran>>
      /\ caller # "work" /\ caller' # "work"
  BY DEF CallerJoin, JoinThreads, SpuriousCaller, Destroy, shared
<1>1. PoolTypeOK'
  BY <1>0 DEF CallerJoin, JoinThreads, SpuriousCaller, Destroy, shared, locals, PoolTypeOK, CallerAt
<1>2. Inside' = Inside /\ Entered' = Entered
  BY <1>0 DEF Inside, Entered, locals
<1>3. AtRest => AtRest'
  BY DEF CallerJoin, JoinThreads, SpuriousCaller, Destroy, AtRest
<1>4. CountInv'
  BY <1>0, <1>2, <1>3, SameWorkers DEF locals
<1>5. IndexInv'
  BY <1>0 DEF IndexInv, locals
<1>6. EndInv'
  <2>1. CASE CallerJoin
    <3>1. caller = "join" /\ ~AtRest /\ next >= count
      BY <2>1 DEF CallerJoin, EndInv, AtRest
    <3>2. ASSUME AllLeft PROVE Inside = {} /\ Entered = Worker
      BY <3>1, <3>2, Counting DEF AllLeft, CountInv
    <3>3. AtRest' => AllLeft
      BY <2>1 DEF CallerJoin, AtRest
    <3> QED
      BY <1>0, <1>2, <3>1, <3>2, <3>3 DEF EndInv
  <2>2. CASE SpuriousCaller
    BY <1>0, <2>2 DEF SpuriousCaller, EndInv, AtRest
  <2>3. CASE JoinThreads \/ Destroy
    <3>1. AtRest /\ AtRest'
      BY <2>3 DEF JoinThreads, Destroy, AtRest
    <3> QED
      BY <1>0, <1>2, <3>1 DEF EndInv
  <2> QED
    BY <2>1, <2>2, <2>3
<1> QED
  BY <1>1, <1>4, <1>5, <1>6

-----------------------------------------------------------------------------
LEMMA CheckStep ==
    ASSUME PoolInv, NEW w \in Worker, Check(w)
    PROVE  PoolInv'
<1> USE DEF PoolInv
<1>1. PoolTypeOK'
  <2> USE DEF Check, shared, mains, PoolTypeOK, WorkerAt
  <2>1. CASE stopping
    BY <2>1
  <2>2. CASE ~stopping /\ epoch # seen[w]
    <3>1. /\ seen' = [seen EXCEPT ![w] = epoch] /\ limit' = [limit EXCEPT ![w] = count]
          /\ entered' = entered + 1 /\ active' = active + 1
          /\ pc' = [pc EXCEPT ![w] = "claim"]
      BY <2>2
    <3>2. seen' \in [Worker -> Nat] /\ limit' \in [Worker -> Nat] /\ pc' \in [Worker -> WorkerAt]
      BY <3>1
    <3>3. entered' \in Nat /\ active' \in Nat
      BY <3>1
    <3> QED
      BY <2>2, <3>2, <3>3
  <2>3. CASE ~stopping /\ epoch = seen[w]
    BY <2>3
  <2> QED
    BY <2>1, <2>2, <2>3
<1>2. /\ UNCHANGED <<epoch, count, next, caller, mine, task, ran>>
      /\ \A v \in Worker : pc'[v] = "work" <=> pc[v] = "work"
      /\ AtRest' = AtRest /\ pc[w] = "check" /\ w \notin Inside
  BY DEF Check, shared, mains, PoolTypeOK, AtRest, Inside
<1>3. IndexInv'
  BY <1>2 DEF IndexInv
<1>4. CASE ~stopping /\ epoch # seen[w]
  <2>1. /\ seen' = [seen EXCEPT ![w] = epoch] /\ limit' = [limit EXCEPT ![w] = count]
        /\ entered' = entered + 1 /\ active' = active + 1 /\ pc' = [pc EXCEPT ![w] = "claim"]
    BY <1>4 DEF Check
  <2>2. w \notin Entered /\ ~AtRest /\ epoch > 0
    BY <1>4 DEF Entered, EndInv, CountInv
  <2>3. Inside' = Inside \cup {w} /\ Entered' = Entered \cup {w}
    BY <1>2, <2>1 DEF Inside, Entered, PoolTypeOK
  <2>4. Cardinality(Inside') = Cardinality(Inside) + 1 /\ Cardinality(Entered') = Cardinality(Entered) + 1
    BY <1>2, <2>2, <2>3, Counting, FS_AddElement
  <2>5. active' = Cardinality(Inside') /\ entered' = Cardinality(Entered')
    BY <2>1, <2>2, <2>4 DEF CountInv
  <2>6. \A v \in Worker : seen'[v] <= epoch'
    BY <1>2, <2>1 DEF CountInv, PoolTypeOK
  <2>7. \A v \in Inside' : epoch' > 0 /\ seen'[v] = epoch' /\ limit'[v] = count'
    BY <1>2, <2>1, <2>2, <2>3 DEF CountInv, PoolTypeOK, Inside
  <2>8. CountInv'
    BY <1>2, <2>2, <2>5, <2>6, <2>7 DEF CountInv
  <2>9. EndInv'
    BY <1>2, <2>2 DEF EndInv
  <2> QED
    BY <1>1, <1>3, <2>8, <2>9
<1>5. CASE stopping \/ epoch = seen[w]
  <2>1. UNCHANGED <<seen, limit, entered, active>>
    BY <1>5 DEF Check, shared
  <2>2. \A v \in Worker : \A at \in {"claim", "work", "leave"} : pc'[v] = at <=> pc[v] = at
    BY <1>5 DEF Check, PoolTypeOK
  <2>3. Inside' = Inside
    BY <2>2 DEF Inside
  <2>4. CountInv' /\ Entered' = Entered
    BY <1>2, <2>1, <2>3, SameWorkers
  <2>5. EndInv'
    BY <1>2, <2>3, <2>4 DEF EndInv
  <2> QED
    BY <1>1, <1>3, <2>4, <2>5
<1> QED
  BY <1>4, <1>5

LEMMA ClaimStep ==
    ASSUME PoolInv, NEW w \in Worker, Claim(w)
    PROVE  PoolInv'
<1> USE DEF PoolInv
<1>1. PoolTypeOK'
  BY DEF Claim, mains, PoolTypeOK, WorkerAt
<1>2. /\ UNCHANGED <<epoch, count, active, entered, caller, mine, seen, limit, ran>>
      /\ next' = next + 1 /\ AtRest' = AtRest
      /\ next \in Nat /\ count \in Nat
      /\ pc[w] = "claim" /\ w \in Inside
  BY DEF Claim, mains, AtRest, PoolTypeOK, Inside
<1>3. limit[w] = count /\ ~AtRest
  BY <1>2 DEF CountInv, EndInv
<1>4. Inside' = Inside
  BY <1>2 DEF Inside, Claim, PoolTypeOK
<1>5. CountInv'
  BY <1>2, <1>4, SameWorkers
<1>6. EndInv'
  BY <1>2, <1>3 DEF EndInv
<1>7. IndexInv'
  <2>1. \A r \in ran' : r[1] <= epoch' /\ (r[1] = epoch' => r[2] < next')
    BY <1>2 DEF IndexInv, PoolTypeOK
  <2>2. /\ \A v \in Worker : pc[v] = "work" => task[v] < next /\ task[v] # next /\ task[v] \in Nat
        /\ caller = "work" => mine < next /\ mine # next /\ mine \in Nat
        /\ <<epoch, next>> \notin ran
    <3>1. /\ \A v \in Worker : pc[v] = "work" => task[v] < next
          /\ caller = "work" => mine < next
          /\ \A r \in ran : r[1] = epoch => r[2] < next
      BY DEF IndexInv
    <3>2. mine \in Nat /\ \A v \in Worker : task[v] \in Nat
      BY DEF PoolTypeOK
    <3>3. <<epoch, next>> \notin ran
      BY <1>2, <3>1
    <3>4. \A v \in Worker : pc[v] = "work" => task[v] # next
      BY <1>2, <3>1, <3>2
    <3>5. caller = "work" => mine # next
      BY <1>2, <3>1, <3>2
    <3> QED
      BY <3>1, <3>2, <3>3, <3>4, <3>5
  <2>3. CASE next >= count
    <3>1. pc' = [pc EXCEPT ![w] = "leave"] /\ task' = task
      BY <1>3, <2>3 DEF Claim
    <3>2. \A v \in Worker : pc'[v] = "work" <=> pc[v] = "work"
      BY <1>2, <3>1 DEF PoolTypeOK
    <3>3. \A i \in 0..(count - 1) : i < next
      BY <1>2, <2>3
    <3>4. \A i \in 0..(count' - 1) : i < next' =>
            \/ <<epoch', i>> \in ran'
            \/ caller' = "work" /\ mine' = i
            \/ \E v \in Worker : pc'[v] = "work" /\ task'[v] = i
      BY <1>2, <3>1, <3>2, <3>3 DEF IndexInv
    <3>5. caller' = "work" => mine' < next' /\ mine' < count' /\ <<epoch', mine'>> \notin ran'
      BY <1>2, <2>2 DEF IndexInv
    <3>6. ASSUME NEW u \in Worker, pc'[u] = "work"
          PROVE  /\ task'[u] < next' /\ task'[u] < count' /\ <<epoch', task'[u]>> \notin ran'
                 /\ caller' = "work" => mine' # task'[u]
                 /\ \A v \in Worker \ {u} : pc'[v] = "work" => task'[v] # task'[u]
      BY <1>2, <2>2, <3>1, <3>2, <3>6 DEF IndexInv
    <3> QED
      BY <2>1, <3>4, <3>5, <3>6 DEF IndexInv
  <2>4. CASE ~(next >= count)
    <3>1. pc' = [pc EXCEPT ![w] = "work"] /\ task' = [task EXCEPT ![w] = next]
      BY <1>3, <2>4 DEF Claim
    <3>2. /\ pc'[w] = "work" /\ task'[w] = next
          /\ \A v \in Worker \ {w} : pc'[v] = pc[v] /\ task'[v] = task[v]
      BY <3>1 DEF PoolTypeOK
    <3>3. \A i \in 0..(count - 1) : i < next' => i < next \/ i = next
      BY <1>2
    <3>4. \A i \in 0..(count' - 1) : i < next' =>
            \/ <<epoch', i>> \in ran'
            \/ caller' = "work" /\ mine' = i
            \/ \E v \in Worker : pc'[v] = "work" /\ task'[v] = i
      <4> SUFFICES ASSUME NEW i \in 0..(count - 1), i < next'
                   PROVE  \/ <<epoch, i>> \in ran
                          \/ caller = "work" /\ mine = i
                          \/ \E v \in Worker : pc'[v] = "work" /\ task'[v] = i
        BY <1>2
      <4>1. CASE i = next
        BY <3>2, <4>1
      <4>2. CASE i < next
        BY <1>2, <3>2, <4>2 DEF IndexInv
      <4> QED
        BY <3>3, <4>1, <4>2
    <3>5. caller' = "work" => mine' < next' /\ mine' < count' /\ <<epoch', mine'>> \notin ran'
      BY <1>2, <2>2 DEF IndexInv
    <3>6. ASSUME NEW u \in Worker, pc'[u] = "work"
          PROVE  /\ task'[u] < next' /\ task'[u] < count' /\ <<epoch', task'[u]>> \notin ran'
                 /\ caller' = "work" => mine' # task'[u]
                 /\ \A v \in Worker \ {u} : pc'[v] = "work" => task'[v] # task'[u]
      <4>1. CASE u = w
        BY <1>2, <2>2, <2>4, <3>2, <4>1
      <4>2. CASE u # w
        <5>1. pc[u] = "work" /\ task'[u] = task[u]
          BY <3>2, <3>6, <4>2
        <5> QED
          BY <1>2, <2>2, <3>2, <4>2, <5>1 DEF IndexInv
      <4> QED
        BY <4>1, <4>2
    <3> QED
      BY <2>1, <3>4, <3>5, <3>6 DEF IndexInv
  <2> QED
    BY <2>3, <2>4
<1> QED
  BY <1>1, <1>5, <1>6, <1>7

LEMMA WorkStep ==
    ASSUME PoolInv, NEW w \in Worker, Work(w)
    PROVE  PoolInv'
<1> USE DEF PoolInv
<1>1. PoolTypeOK'
  BY DEF Work, shared, mains, PoolTypeOK, WorkerAt
<1>2. /\ UNCHANGED <<epoch, count, next, active, entered, caller, mine, seen, limit, task>>
      /\ pc' = [pc EXCEPT ![w] = "claim"] /\ AtRest' = AtRest
      /\ pc[w] = "work" /\ w \in Inside /\ ran' = ran \cup {<<seen[w], task[w]>>}
  BY DEF Work, shared, mains, AtRest, Inside
<1>3. seen[w] = epoch /\ ~AtRest
  BY <1>2 DEF CountInv, EndInv
<1>4. Inside' = Inside
  BY <1>2 DEF Inside, PoolTypeOK
<1>5. CountInv'
  BY <1>2, <1>4, SameWorkers
<1>6. EndInv'
  BY <1>2, <1>3 DEF EndInv
<1>7. IndexInv'
  <2>1. task[w] < next /\ task[w] < count
    BY <1>2 DEF IndexInv
  <2>2. \A r \in ran' : r[1] <= epoch' /\ (r[1] = epoch' => r[2] < next')
    BY <1>2, <1>3, <2>1 DEF IndexInv, PoolTypeOK
  <2>3. \A v \in Worker : pc'[v] = "work" <=> v # w /\ pc[v] = "work"
    BY <1>2 DEF PoolTypeOK
  <2>4. /\ caller = "work" => mine # task[w]
        /\ \A v \in Worker \ {w} : pc[v] = "work" => task[v] # task[w]
    BY <1>2 DEF IndexInv
  <2>5. caller' = "work" => mine' < next' /\ mine' < count' /\ <<epoch', mine'>> \notin ran'
    BY <1>2, <2>4 DEF IndexInv
  <2>6. ASSUME NEW u \in Worker, pc'[u] = "work"
        PROVE  /\ task'[u] < next' /\ task'[u] < count' /\ <<epoch', task'[u]>> \notin ran'
               /\ caller' = "work" => mine' # task'[u]
               /\ \A v \in Worker \ {u} : pc'[v] = "work" => task'[v] # task'[u]
    BY <1>2, <2>3, <2>4, <2>6 DEF IndexInv
  <2>7. \A i \in 0..(count' - 1) : i < next' =>
            \/ <<epoch', i>> \in ran'
            \/ caller' = "work" /\ mine' = i
            \/ \E v \in Worker : pc'[v] = "work" /\ task'[v] = i
    <3> SUFFICES ASSUME NEW i \in 0..(count - 1), i < next
                 PROVE  \/ <<epoch, i>> \in ran'
                        \/ caller = "work" /\ mine = i
                        \/ \E v \in Worker : pc'[v] = "work" /\ task[v] = i
      BY <1>2
    <3>1. CASE i = task[w]
      BY <1>2, <1>3, <3>1
    <3>2. CASE i # task[w]
      BY <1>2, <2>3, <3>2 DEF IndexInv
    <3> QED
      BY <3>1, <3>2
  <2> QED
    BY <2>2, <2>5, <2>6, <2>7 DEF IndexInv
<1> QED
  BY <1>1, <1>5, <1>6, <1>7

LEMMA LeaveStep ==
    ASSUME PoolInv, NEW w \in Worker, Leave(w)
    PROVE  PoolInv'
<1> USE DEF PoolInv
<1>1. /\ UNCHANGED <<epoch, count, next, entered, caller, mine, seen, limit, task, ran>>
      /\ pc' = [pc EXCEPT ![w] = IF active = 1 THEN "tell" ELSE "check"]
      /\ active' = active - 1 /\ AtRest' = AtRest /\ pc[w] = "leave" /\ w \in Inside
  BY DEF Leave, mains, AtRest, Inside
<1>2. active >= 1 /\ IsFiniteSet(Inside)
  BY <1>1, Counting
<1>3. PoolTypeOK'
  <2>1. active' \in Nat
    BY <1>1, <1>2 DEF PoolTypeOK
  <2> QED
    BY <1>1, <2>1 DEF PoolTypeOK, WorkerAt, Leave
<1>4. Inside' = Inside \ {w} /\ Entered' = Entered
  BY <1>1 DEF Inside, Entered, PoolTypeOK
<1>5. Cardinality(Inside') = Cardinality(Inside) - 1
  BY <1>1, <1>2, <1>4, FS_RemoveElement
<1>6. CountInv'
  BY <1>1, <1>4, <1>5 DEF CountInv
<1>7. \A v \in Worker : pc'[v] = "work" <=> pc[v] = "work"
  BY <1>1 DEF PoolTypeOK
<1>8. IndexInv'
  BY <1>1, <1>7 DEF IndexInv
<1>9. EndInv'
  BY <1>1, <1>4 DEF EndInv
<1> QED
  BY <1>3, <1>6, <1>8, <1>9

LEMMA WorkerOtherStep ==
    ASSUME PoolInv, NEW w \in Worker, Block(w) \/ Tell(w) \/ SpuriousWorker(w)
    PROVE  PoolInv'
<1> USE DEF PoolInv
<1>1. /\ UNCHANGED <<epoch, count, next, active, entered, mine, seen, limit, task, ran>>
      /\ \A v \in Worker : \A at \in {"claim", "work", "leave"} : pc'[v] = at <=> pc[v] = at
      /\ \/ caller' = caller
         \/ caller = "waiting" /\ caller' = "join"
  BY DEF Block, Tell, SpuriousWorker, shared, mains, PoolTypeOK
<1>2. PoolTypeOK'
  BY <1>1 DEF Block, Tell, SpuriousWorker, shared, mains, PoolTypeOK, WorkerAt, CallerAt
<1>3. Inside' = Inside /\ AtRest' = AtRest
  BY <1>1 DEF Inside, AtRest
<1>4. CountInv' /\ Entered' = Entered
  BY <1>1, <1>3, SameWorkers
<1>5. IndexInv'
  BY <1>1 DEF IndexInv
<1>6. EndInv'
  BY <1>1, <1>3, <1>4 DEF EndInv
<1> QED
  BY <1>2, <1>4, <1>5, <1>6

LEMMA NextPool == PoolInv /\ [PoolNext]_poolVars => PoolInv'
<1> SUFFICES ASSUME PoolInv, [PoolNext]_poolVars PROVE PoolInv'
  OBVIOUS
<1>1. CASE UNCHANGED poolVars
  BY <1>1 DEF poolVars, shared, mains, locals, PoolInv, PoolTypeOK, CountInv, IndexInv, EndInv,
              Inside, Entered, AtRest
<1>2. CASE \E n \in Counts : Post(n)
  BY <1>2, PostStep
<1>3. CASE CallerStep \/ Destroy \/ SpuriousCaller
  BY <1>3, NotifyStep, CallerClaimStep, CallerWorkStep, CallerOtherStep DEF CallerStep
<1>4. CASE \E w \in Worker : WorkerStep(w) \/ SpuriousWorker(w)
  BY <1>4, CheckStep, ClaimStep, WorkStep, LeaveStep, WorkerOtherStep DEF WorkerStep
<1> QED
  BY <1>1, <1>2, <1>3, <1>4 DEF PoolNext

-----------------------------------------------------------------------------
(* The inductive invariant of the pool: its counters count the workers     *)
(* inside and those that have entered, and every index below next_task was *)
(* called or is held by one thread (worker_loop(), run()).                 *)
THEOREM PoolInvariant == PoolSpec => []PoolInv
BY InitPool, NextPool, PTL DEF PoolSpec

(* No index of a job is called twice, nor with another job's function      *)
(* (run(), next_task.fetch_add).                                           *)
THEOREM IndicesRunOnce == PoolSpec => []EachIndexOnce
<1>1. PoolInv => EachIndexOnce
  BY DEF PoolInv, CountInv, IndexInv, EachIndexOnce, Inside
<1> QED
  BY <1>1, PoolInvariant, PTL

(* When run() has returned, every index was called and no worker is inside *)
(* the job (run(), job_finished.wait).                                     *)
THEOREM RunIsABarrier == PoolSpec => []Barrier
<1>1. ASSUME PoolInv PROVE Barrier
  <2> SUFFICES ASSUME AtRest
               PROVE  /\ \A i \in 0..(count - 1) : <<epoch, i>> \in ran
                      /\ \A w \in Worker : pc[w] \notin {"claim", "work", "leave"}
    BY DEF Barrier, AtRest
  <2>1. Inside = {} /\ next >= count /\ caller # "work"
    BY <1>1 DEF PoolInv, EndInv, AtRest
  <2>2. \A w \in Worker : pc[w] \notin {"claim", "work", "leave"}
    BY <2>1 DEF Inside
  <2>3. next \in Nat /\ count \in Nat
    BY <1>1 DEF PoolInv, PoolTypeOK
  <2>4. \A i \in 0..(count - 1) : i < next
    BY <2>1, <2>3
  <2> QED
    BY <1>1, <2>1, <2>2, <2>4 DEF PoolInv, IndexInv
<1> QED
  BY <1>1, PoolInvariant, PTL
============================================================================
