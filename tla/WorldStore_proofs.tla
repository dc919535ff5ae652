------------------------- MODULE WorldStore_proofs -------------------------
(***************************************************************************)
(* Snapshots stay what they were, published world blocks are accepted, the *)
(* scan's pointers are into the storage and its view is exact: for any     *)
(* number of objects, contents, cells, snapshots and steps, and any end of *)
(* the generation counter.                                                 *)
(***************************************************************************)
EXTENDS WorldStore, FiniteSetTheorems, TLAPS

ReadInv  == StoreInv /\ NumberInv /\ FrozenStaysFrozen
WorldInv == ReadInv /\ PointerInv

(* What a step other than a scan or a restart does to the objects: one     *)
(* that is there afterwards is new under a new number, or was there and    *)
(* has a new version or its content.                                       *)
Follows(w) ==
    \/ Content(w)'.rev = nextRev + 1 /\ nextRev' = nextRev + 1
    \/ /\ w \in Present /\ Content(w)'.rev = Content(w).rev
       /\ \/ Content(w)'.ver = Content(w).ver + 1
          \/ Content(w)'.ver = Content(w).ver /\ Content(w)'.val = Content(w).val

Evolves ==
    /\ UNCHANGED <<seen, view, cache, stale>>
    /\ nextRev' >= nextRev
    /\ eraseRev' = eraseRev + 1 \/ (eraseRev' = eraseRev /\ Present \subseteq Present')
    /\ \A w \in Present' : Follows(w)

-----------------------------------------------------------------------------
(* Memory.                                                                 *)

LEMMA Owned ==
    ASSUME NEW s, NEW fs
    PROVE  /\ \A w \in Wid : s[w].at \in Live(s, fs)
           /\ \A f \in fs, w \in Wid : f.at[w] \in Live(s, fs)
BY DEF Live

(* A world without the object has no address for it.                       *)
LEMMA Presence ==
    ASSUME StoreInv, NEW w \in Wid
    PROVE  /\ w \in Present => store[w].at \in Addr /\ store[w].at # NoAddr /\ store[w].gen \in Nat
           /\ w \notin Present => store[w].at = NoAddr
<1>1. store[w] \in [at : Addr, gen : Nat] \cup {None}
  BY DEF StoreInv
<1> QED
  BY <1>1, WorldStoreConstants DEF Present, None

(* A new object in a cell nobody owns disturbs nobody.                     *)
LEMMA PutStores ==
    ASSUME StoreInv, NEW w \in Wid, NEW obj, Put(w, obj), UNCHANGED <<gen, frozen>>
    PROVE  /\ StoreInv'
           /\ Present' = Present \cup {w}
           /\ Content(w)' = obj
           /\ \A v \in Present \ {w} : store'[v] = store[v] /\ Content(v)' = Content(v)
           /\ \A f \in frozen, v \in Wid : f.at[v] # NoAddr => cell'[f.at[v]] = cell[f.at[v]]
<1>1. PICK a \in Addr \ Live(store, frozen) :
         /\ store' = [store EXCEPT ![w] = [at |-> a, gen |-> gen]]
         /\ cell' = Settle([cell EXCEPT ![a] = obj], store', frozen)
  BY DEF Put
<1>2. gen \in Nat /\ store \in [Wid -> [at : Addr, gen : Nat] \cup {None}] /\ DOMAIN cell = Addr
  BY DEF StoreInv
<1>3. /\ store'[w] = [at |-> a, gen |-> gen] /\ store'[w].at = a /\ store'[w].gen = gen
      /\ \A v \in Wid \ {w} : store'[v] = store[v]
  BY <1>1, <1>2
<1>4. a # NoAddr /\ store'[w] # None
  BY <1>3, WorldStoreConstants DEF None
<1>5. /\ \A v \in Wid : store[v].at # a
      /\ \A f \in frozen, v \in Wid : f.at[v] # a
  BY <1>1, Owned
<1>6. Present' = Present \cup {w}
  BY <1>3, <1>4 DEF Present
<1>7. \A x \in Addr : x \in Live(store', frozen) =>
         cell'[x] = IF x = a THEN obj ELSE cell[x]
  BY <1>1, <1>2 DEF Settle
<1>8. Content(w)' = obj
  BY <1>1, <1>3, <1>7, Owned DEF Content
<1>9. ASSUME NEW v \in Present \ {w}
      PROVE  store'[v] = store[v] /\ Content(v)' = Content(v)
  <2>1. v \in Wid /\ store'[v] = store[v] /\ store[v].at \in Addr
    BY <1>3, Presence DEF Present
  <2>2. store[v].at \in Live(store', frozen) /\ store[v].at # a
    BY <1>5, <2>1, Owned
  <2> QED
    BY <1>7, <2>1, <2>2 DEF Content
<1>10. ASSUME NEW f \in frozen, NEW v \in Wid, f.at[v] # NoAddr
       PROVE  cell'[f.at[v]] = cell[f.at[v]]
  <2>1. f.at[v] \in Addr /\ f.at[v] # a /\ f.at[v] \in Live(store', frozen)
    BY <1>5, <1>10, Owned DEF StoreInv
  <2> QED
    BY <1>7, <2>1
<1>11. StoreInv'
  <2>1. DOMAIN cell' = Addr
    BY <1>1 DEF Settle
  <2>2. store' \in [Wid -> [at : Addr, gen : Nat] \cup {None}]
    BY <1>1, <1>2
  <2>3. \A v \in Wid : store'[v].gen <= gen'
    BY <1>2, <1>3 DEF StoreInv
  <2>4. \A u, v \in Present' : u # v => store'[u].at # store'[v].at
    BY <1>3, <1>5, <1>6 DEF StoreInv, Present
  <2>5. \A f \in frozen, u \in Wid, v \in Present' : f.at[u] = store'[v].at => store'[v].gen < gen
    BY <1>3, <1>5, <1>6 DEF StoreInv, Present
  <2> QED
    BY <1>2, <2>1, <2>2, <2>3, <2>4, <2>5 DEF StoreInv
<1> QED
  BY <1>6, <1>8, <1>9, <1>10, <1>11

(* writable_find(): in place only what no snapshot shares.                 *)
LEMMA TouchStores ==
    ASSUME StoreInv, NEW w \in Present, NEW obj, Touch(w, obj), UNCHANGED <<gen, frozen>>
    PROVE  /\ StoreInv'
           /\ Present' = Present
           /\ Content(w)' = obj
           /\ \A v \in Present \ {w} : store'[v] = store[v] /\ Content(v)' = Content(v)
           /\ \A f \in frozen, v \in Wid : f.at[v] # NoAddr => cell'[f.at[v]] = cell[f.at[v]]
           /\ (store' = store /\ storageRev' = storageRev) \/ storageRev' = storageRev + 1
<1>1. w \in Wid
  BY DEF Present
<1>2. CASE /\ store[w].gen = gen
           /\ cell' = [cell EXCEPT ![store[w].at] = obj]
           /\ UNCHANGED <<store, storageRev>>
  <2>1. store[w].at \in Addr /\ DOMAIN cell = Addr /\ gen \in Nat
    BY <1>1, Presence DEF StoreInv
  <2>2. \A f \in frozen, v \in Wid : f.at[v] # store[w].at
    BY <1>1, <1>2, <2>1 DEF StoreInv
  <2>3. /\ \A v \in Present \ {w} : store[v].at # store[w].at /\ store[v].at \in Addr
        /\ Present' = Present /\ DOMAIN cell' = Addr
    BY <1>2, <2>1, Presence DEF StoreInv, Present
  <2>4. Content(w)' = obj /\ \A v \in Present \ {w} : Content(v)' = Content(v)
    BY <1>2, <2>1, <2>3 DEF Content
  <2>5. \A f \in frozen, v \in Wid : f.at[v] # NoAddr => cell'[f.at[v]] = cell[f.at[v]]
    BY <1>2, <2>1, <2>2 DEF StoreInv
  <2>6. StoreInv'
    BY <1>2, <2>3 DEF StoreInv
  <2> QED
    BY <1>2, <2>3, <2>4, <2>5, <2>6
<1>3. CASE Put(w, obj) /\ storageRev' = storageRev + 1
  BY <1>1, <1>3, PutStores
<1> QED
  BY <1>2, <1>3 DEF Touch

(* Freeing cells without an owner disturbs no owner.                       *)
LEMMA SettleKeeps ==
    ASSUME NEW c, NEW s, NEW fs, NEW a \in Addr, a \in Live(s, fs)
    PROVE  Settle(c, s, fs)[a] = c[a]
BY DEF Settle

-----------------------------------------------------------------------------
(* Steps of the tick thread: one object is written, with a number the      *)
(* counter has reached; snapshots and the image are left alone.            *)
LEMMA WriteKeeps ==
    ASSUME ReadInv, StoreInv', UNCHANGED <<frozen, image>>,
           NEW w \in Wid, nextRev' \in Nat, nextRev' >= nextRev, eraseRev' \in Nat,
           Present' \subseteq Present \cup {w},
           w \in Present' => Content(w)' \in Numbered(nextRev'),
           \A v \in Present' \ {w} : Content(v)' = Content(v),
           \A f \in frozen, v \in Wid : f.at[v] # NoAddr => cell'[f.at[v]] = cell[f.at[v]]
    PROVE  ReadInv'
<1>1. nextRev \in Nat
  BY DEF ReadInv, NumberInv
<1>2. \A v \in Present' \ {w} : Content(v)' \in Numbered(nextRev)
  BY DEF ReadInv, NumberInv
<1>3. Numbered(nextRev) \subseteq Numbered(nextRev')
  BY <1>1 DEF Numbered
<1>4. \A v \in Present' : Content(v)' \in Numbered(nextRev')
  BY <1>2, <1>3
<1>5. NumberInv'
  BY <1>4 DEF ReadInv, NumberInv
<1>6. FrozenStaysFrozen'
  BY DEF ReadInv, FrozenStaysFrozen
<1> QED
  BY <1>5, <1>6 DEF ReadInv

LEMMA InsertStep ==
    ASSUME ReadInv, NEW w \in Wid, NEW v \in Value, NEW p \in Place, Insert(w, v, p)
    PROVE  /\ ReadInv' /\ Present \subseteq Present' /\ \A u \in Present : store'[u] = store[u]
           /\ UNCHANGED <<ptrs, seen, storageRev, eraseRev>>
           /\ Evolves /\ policy' = policy
<1>1. /\ UNCHANGED <<gen, frozen, image, ptrs, seen, storageRev, eraseRev>> /\ nextRev' = nextRev + 1
      /\ UNCHANGED <<view, cache, stale, policy>>
  BY DEF Insert, Others, engine
<1>2. StoreInv /\ nextRev \in Nat /\ eraseRev \in Nat
  BY DEF ReadInv, NumberInv
<1>3. CASE w \in Present
  <2>1. UNCHANGED <<cell, store>>
    BY <1>3 DEF Insert
  <2>2. Present' = Present /\ (\A u \in Present : Content(u)' = Content(u)) /\ StoreInv'
    BY <1>1, <1>2, <2>1 DEF Present, Content, StoreInv
  <2>3. Content(w)' \in Numbered(nextRev')
    BY <1>1, <1>2, <1>3, <2>2 DEF ReadInv, NumberInv, Numbered
  <2>4. Evolves
    BY <1>1, <1>2, <2>2 DEF Evolves, Follows
  <2> QED
    BY <1>1, <1>2, <2>1, <2>2, <2>3, <2>4, WriteKeeps
<1>4. CASE w \notin Present
  <2> DEFINE obj == [ver |-> 1, rev |-> nextRev', val |-> v, pos |-> p]
  <2>1. Put(w, obj)
    BY <1>4 DEF Insert
  <2>2. obj \in Numbered(nextRev') /\ obj.rev = nextRev + 1
    BY <1>1, <1>2 DEF Numbered
  <2> HIDE DEF obj
  <2>3. /\ StoreInv' /\ Present' = Present \cup {w} /\ Content(w)' = obj
        /\ \A u \in Present \ {w} : store'[u] = store[u] /\ Content(u)' = Content(u)
        /\ \A f \in frozen, u \in Wid : f.at[u] # NoAddr => cell'[f.at[u]] = cell[f.at[u]]
    BY <1>1, <1>2, <2>1, PutStores
  <2>4. Evolves
    BY <1>1, <1>2, <1>4, <2>2, <2>3 DEF Evolves, Follows
  <2> QED
    BY <1>1, <1>2, <1>4, <2>2, <2>3, <2>4, WriteKeeps
<1> QED
  BY <1>3, <1>4

LEMMA EraseStep ==
    ASSUME ReadInv, NEW w \in Wid, Erase(w)
    PROVE  /\ ReadInv' /\ UNCHANGED <<ptrs, seen, storageRev>> /\ eraseRev' = eraseRev + 1
           /\ Evolves /\ policy' = policy
<1>1. /\ UNCHANGED <<gen, frozen, image, ptrs, seen, storageRev, nextRev>> /\ eraseRev' = eraseRev + 1
      /\ UNCHANGED <<view, cache, stale, policy>>
      /\ store' = [store EXCEPT ![w] = None] /\ cell' = Settle(cell, store', frozen)
  BY DEF Erase, Others, engine
<1>2. StoreInv /\ nextRev \in Nat /\ eraseRev \in Nat /\ store \in [Wid -> [at : Addr, gen : Nat] \cup {None}]
  BY DEF ReadInv, NumberInv, StoreInv
<1>3. /\ store'[w] = None /\ \A v \in Wid \ {w} : store'[v] = store[v]
      /\ store' \in [Wid -> [at : Addr, gen : Nat] \cup {None}]
  BY <1>1, <1>2
<1>4. Present' = Present \ {w}
  BY <1>3 DEF Present
<1>5. \A v \in Present' : Content(v)' = Content(v)
  <2> SUFFICES ASSUME NEW v \in Present' PROVE Content(v)' = Content(v)
    OBVIOUS
  <2>1. v \in Wid /\ store'[v] = store[v] /\ store[v].at \in Addr
    BY <1>2, <1>3, <1>4, Presence DEF Present
  <2>2. store'[v].at \in Live(store', frozen)
    BY <2>1, Owned
  <2> QED
    BY <1>1, <2>1, <2>2, SettleKeeps DEF Content
<1>6. \A f \in frozen, v \in Wid : f.at[v] # NoAddr => cell'[f.at[v]] = cell[f.at[v]]
  <2> SUFFICES ASSUME NEW f \in frozen, NEW v \in Wid, f.at[v] # NoAddr
               PROVE  cell'[f.at[v]] = cell[f.at[v]]
    OBVIOUS
  <2>1. f.at[v] \in Addr /\ f.at[v] \in Live(store', frozen)
    BY <1>2, Owned DEF StoreInv
  <2> QED
    BY <1>1, <2>1, SettleKeeps
<1>7. StoreInv'
  <2>1. DOMAIN cell' = Addr
    BY <1>1 DEF Settle
  <2>2. \A v \in Wid : store'[v].gen <= gen'
    BY <1>1, <1>2, <1>3 DEF StoreInv, None
  <2> QED
    BY <1>1, <1>2, <1>3, <1>4, <2>1, <2>2 DEF StoreInv, Present
<1>8. /\ nextRev' \in Nat /\ nextRev' >= nextRev /\ eraseRev' \in Nat /\ UNCHANGED <<frozen, image>>
      /\ Present' \subseteq Present \cup {w} /\ w \notin Present'
  BY <1>1, <1>2, <1>4
<1>9. ReadInv'
  BY <1>5, <1>6, <1>7, <1>8, WriteKeeps
<1>10. Evolves
  BY <1>1, <1>4, <1>5, <1>8 DEF Evolves, Follows
<1> QED
  BY <1>1, <1>9, <1>10

(* set_property(), add_relation() and update(): the object keeps its       *)
(* number.                                                                 *)
LEMMA TouchStep ==
    ASSUME ReadInv, NEW w \in Present, NEW obj \in Numbered(nextRev), Touch(w, obj),
           UNCHANGED <<nextRev, eraseRev>>, Others,
           obj.rev = Content(w).rev, obj = Content(w) \/ obj.ver = Content(w).ver + 1
    PROVE  /\ ReadInv' /\ Present' = Present /\ UNCHANGED <<ptrs, seen, eraseRev>>
           /\ (store' = store /\ storageRev' = storageRev) \/ storageRev' = storageRev + 1
           /\ Evolves /\ policy' = policy
<1>1. /\ UNCHANGED <<gen, frozen, image, ptrs, seen>> /\ nextRev \in Nat /\ eraseRev \in Nat /\ StoreInv
      /\ UNCHANGED <<view, cache, stale, policy>>
  BY DEF Others, engine, ReadInv, NumberInv
<1>2. /\ StoreInv' /\ Present' = Present /\ Content(w)' = obj
      /\ \A v \in Present \ {w} : store'[v] = store[v] /\ Content(v)' = Content(v)
      /\ \A f \in frozen, v \in Wid : f.at[v] # NoAddr => cell'[f.at[v]] = cell[f.at[v]]
      /\ (store' = store /\ storageRev' = storageRev) \/ storageRev' = storageRev + 1
  BY <1>1, TouchStores
<1>3. w \in Wid /\ nextRev' \in Nat /\ nextRev' >= nextRev /\ eraseRev' \in Nat
  BY <1>1 DEF Present
<1>4. Content(w)' \in Numbered(nextRev')
  BY <1>2
<1>5. ReadInv'
  BY <1>1, <1>2, <1>3, <1>4, WriteKeeps
<1>6. Evolves
  BY <1>1, <1>2, <1>3 DEF Evolves, Follows
<1> QED
  BY <1>1, <1>2, <1>5, <1>6

LEMMA ChangeStep ==
    ASSUME ReadInv, NEW w \in Wid, NEW v \in Value, Change(w, v) \/ RelateRetired(w)
    PROVE  /\ ReadInv' /\ Present' = Present /\ UNCHANGED <<ptrs, seen, eraseRev>>
           /\ (store' = store /\ storageRev' = storageRev) \/ storageRev' = storageRev + 1
           /\ Evolves /\ policy' = policy
<1>1. w \in Present
  BY DEF Change, RelateRetired
<1>2. Content(w) \in Numbered(nextRev)
  BY <1>1 DEF ReadInv, NumberInv
<1>3. PICK obj \in {Content(w), [Content(w) EXCEPT !.val = v, !.ver = @ + 1],
                   [Content(w) EXCEPT !.ver = @ + 1]} :
        Touch(w, obj) /\ UNCHANGED <<nextRev, eraseRev>> /\ Others
  BY DEF Change, RelateRetired
<1>4. /\ [Content(w) EXCEPT !.val = v, !.ver = @ + 1] \in Numbered(nextRev)
      /\ [Content(w) EXCEPT !.ver = @ + 1] \in Numbered(nextRev)
      /\ [Content(w) EXCEPT !.val = v, !.ver = @ + 1].rev = Content(w).rev
      /\ [Content(w) EXCEPT !.val = v, !.ver = @ + 1].ver = Content(w).ver + 1
      /\ [Content(w) EXCEPT !.ver = @ + 1].rev = Content(w).rev
      /\ [Content(w) EXCEPT !.ver = @ + 1].ver = Content(w).ver + 1
  <2> DEFINE c == Content(w)
  <2>1. c \in [ver : Nat, rev : 1 .. nextRev, val : Value, pos : Place]
    BY <1>2 DEF Numbered
  <2> HIDE DEF c
  <2>2. c.ver + 1 \in Nat
    BY <2>1
  <2>3. /\ [c EXCEPT !.val = v, !.ver = @ + 1] \in Numbered(nextRev)
        /\ [c EXCEPT !.ver = @ + 1] \in Numbered(nextRev)
        /\ [c EXCEPT !.val = v, !.ver = @ + 1].rev = c.rev
        /\ [c EXCEPT !.val = v, !.ver = @ + 1].ver = c.ver + 1
        /\ [c EXCEPT !.ver = @ + 1].rev = c.rev
        /\ [c EXCEPT !.ver = @ + 1].ver = c.ver + 1
    BY <2>1, <2>2 DEF Numbered
  <2> QED
    BY <2>3 DEF c
<1>5. /\ obj \in Numbered(nextRev) /\ obj.rev = Content(w).rev
      /\ obj = Content(w) \/ obj.ver = Content(w).ver + 1
  BY <1>2, <1>3, <1>4
<1> QED
  BY <1>1, <1>3, <1>5, TouchStep

LEMMA UpdateStep ==
    ASSUME ReadInv, NEW w \in Wid, NEW n \in Object, Update(w, n)
    PROVE  /\ ReadInv' /\ UNCHANGED <<ptrs, seen, eraseRev>> /\ storageRev' = storageRev + 1
           /\ ~Silent => Evolves
           /\ policy' = policy
<1>1. /\ w \in Present /\ Put(w, n) /\ n.rev = Content(w).rev
      /\ n.ver \in {Content(w).ver, Content(w).ver + 1}
      /\ ~Silent /\ n.ver = Content(w).ver => n.val = Content(w).val
      /\ UNCHANGED <<gen, frozen, image, ptrs, seen, nextRev, eraseRev>> /\ storageRev' = storageRev + 1
      /\ UNCHANGED <<view, cache, stale, policy>>
  BY DEF Update, Others, engine, Mutations
<1>2. StoreInv /\ nextRev \in Nat /\ eraseRev \in Nat
  BY DEF ReadInv, NumberInv
<1>3. /\ StoreInv' /\ Present' = Present \cup {w} /\ Content(w)' = n
      /\ \A v \in Present \ {w} : store'[v] = store[v] /\ Content(v)' = Content(v)
      /\ \A f \in frozen, v \in Wid : f.at[v] # NoAddr => cell'[f.at[v]] = cell[f.at[v]]
  BY <1>1, <1>2, PutStores
<1>4. n \in Numbered(nextRev')
  <2>1. n.rev \in 1 .. nextRev
    BY <1>1 DEF ReadInv, NumberInv, Numbered
  <2>2. n \in [ver : Nat, rev : 1 .. MaxRev, val : Value, pos : Place]
    BY WorldStoreConstants DEF Object
  <2> QED
    BY <1>1, <2>1, <2>2 DEF Numbered
<1>5. nextRev' \in Nat /\ nextRev' >= nextRev /\ eraseRev' \in Nat /\ Present' \ {w} = Present \ {w}
  BY <1>1, <1>2, <1>3
<1>6. ReadInv'
  BY <1>1, <1>3, <1>4, <1>5, WriteKeeps
<1>7. ~Silent => Evolves
  BY <1>1, <1>2, <1>3 DEF Evolves, Follows
<1> QED
  BY <1>1, <1>6, <1>7

-----------------------------------------------------------------------------
(* Checkpoints.                                                            *)

LEMMA FreezeStep ==
    ASSUME ReadInv, Freeze
    PROVE  /\ ReadInv' /\ UNCHANGED <<ptrs, seen, eraseRev>>
           /\ (store' = store /\ storageRev' = storageRev) \/ storageRev' = storageRev + 1
           /\ Evolves /\ policy' = policy
<1>1. /\ frozen' = frozen \cup {Snapshot} /\ UNCHANGED <<cell, nextRev, eraseRev, image, ptrs, seen>>
      /\ UNCHANGED <<view, cache, stale, policy>>
      /\ (store' = store /\ storageRev' = storageRev) \/ storageRev' = storageRev + 1
  BY DEF Freeze, engine
<1>2. /\ StoreInv /\ gen \in Nat /\ nextRev \in Nat /\ eraseRev \in Nat
      /\ store \in [Wid -> [at : Addr, gen : Nat] \cup {None}]
  BY DEF ReadInv, StoreInv, NumberInv
<1>3. /\ \A w \in Wid : Snapshot.at[w] = store[w].at
      /\ \A w \in Present : Snapshot.was[w] = Content(w)
      /\ Snapshot.next = nextRev /\ Snapshot.erase = eraseRev
  BY DEF Snapshot, Present
<1>4. /\ gen' \in Nat /\ gen' >= 1
      /\ \A w \in Wid : store'[w].at = store[w].at
      /\ \A w \in Present : store'[w] \in [at : Addr, gen : Nat] /\ store'[w].gen < gen'
      /\ \A w \in Wid \ Present : store'[w] = None
      /\ store' \in [Wid -> [at : Addr, gen : Nat] \cup {None}]
  <2>0. /\ \A w \in Present : w \in Wid /\ store[w] \in [at : Addr, gen : Nat] /\ store[w].gen <= gen
        /\ \A w \in Wid \ Present : store[w] = None
    BY <1>2 DEF Present, StoreInv
  <2>1. CASE gen' = gen + 1 /\ store' = store
    BY <1>2, <2>0, <2>1
  <2>2. CASE /\ store' = [w \in Wid |-> IF w \in Present THEN [store[w] EXCEPT !.gen = 1] ELSE None]
             /\ gen' = 2
    <3>1. \A w \in Present : /\ store'[w] \in [at : Addr, gen : Nat]
                             /\ store'[w].at = store[w].at /\ store'[w].gen = 1
      BY <2>0, <2>2
    <3>2. \A w \in Wid \ Present : store'[w] = None
      BY <2>2
    <3> QED
      BY <2>0, <2>2, <3>1, <3>2
  <2> QED
    BY <2>1, <2>2 DEF Freeze
<1>5. Present' = Present
  BY <1>4, WorldStoreConstants DEF Present, None
<1>6. \A w \in Present : Content(w)' = Content(w)
  BY <1>1, <1>4 DEF Content, Present
<1>7. StoreInv'
  <2>1. DOMAIN cell' = Addr
    BY <1>1, <1>2 DEF StoreInv
  <2>2. \A w \in Wid : store'[w].gen <= gen'
    BY <1>4 DEF None
  <2>3. \A v, w \in Present' : v # w => store'[v].at # store'[w].at
    BY <1>2, <1>4, <1>5 DEF StoreInv, Present
  <2>4. \A w \in Wid : Snapshot.at[w] = NoAddr \/ Snapshot.at[w] \in Addr
    BY <1>2, <1>3, Presence
  <2>5. \A f \in frozen', w \in Wid : f.at[w] = NoAddr \/ f.at[w] \in Addr
    BY <1>1, <1>2, <2>4 DEF StoreInv
  <2> QED
    BY <1>4, <1>5, <2>1, <2>2, <2>3, <2>5 DEF StoreInv
<1>8. \A w \in Wid : Snapshot.at[w] # NoAddr => w \in Present
  BY <1>2, <1>3, Presence
<1>9. NumberInv'
  <2>1. \A w \in Present' : Content(w)' \in Numbered(nextRev')
    BY <1>1, <1>5, <1>6 DEF ReadInv, NumberInv
  <2>2. \A w \in Wid : Snapshot.at[w] # NoAddr => Snapshot.was[w] \in Numbered(Snapshot.next)
    BY <1>3, <1>8 DEF ReadInv, NumberInv
  <2>3. {Snapshot.next, Snapshot.erase} \subseteq Nat
    BY <1>2, <1>3
  <2> QED
    BY <1>1, <2>1, <2>2, <2>3 DEF ReadInv, NumberInv
<1>10. FrozenStaysFrozen'
  <2>1. \A w \in Wid : Snapshot.at[w] # NoAddr => cell[Snapshot.at[w]] = Snapshot.was[w]
    BY <1>3, <1>8 DEF Content
  <2> QED
    BY <1>1, <2>1 DEF ReadInv, FrozenStaysFrozen
<1>11. Evolves
  BY <1>1, <1>2, <1>5, <1>6 DEF Evolves, Follows
<1> QED
  BY <1>1, <1>7, <1>9, <1>10, <1>11 DEF ReadInv

(* A snapshot is read and released, or released.                           *)
LEMMA ReleaseStep ==
    ASSUME ReadInv, NEW f \in frozen, Encode(f) \/ Drop(f)
    PROVE  /\ ReadInv' /\ UNCHANGED <<ptrs, seen, store, storageRev, eraseRev>>
           /\ Evolves /\ policy' = policy
<1>1. /\ UNCHANGED <<store, gen, storageRev, nextRev, eraseRev, ptrs, seen>>
      /\ UNCHANGED <<view, cache, stale, policy>>
      /\ frozen' = frozen \ {f} /\ cell' = Settle(cell, store, frozen')
  BY DEF Encode, Drop, engine
<1>2. StoreInv /\ NumberInv
  BY DEF ReadInv
<1>3. Present' = Present
  BY <1>1 DEF Present
<1>4. \A w \in Present : Content(w)' = Content(w)
  <2> SUFFICES ASSUME NEW w \in Present PROVE Content(w)' = Content(w)
    OBVIOUS
  <2>1. w \in Wid /\ store[w].at \in Addr /\ store[w].at \in Live(store, frozen')
    BY <1>2, Presence, Owned DEF Present
  <2> QED
    BY <1>1, <2>1, SettleKeeps DEF Content
<1>5. \A g \in frozen', w \in Wid : g.at[w] # NoAddr => cell'[g.at[w]] = cell[g.at[w]]
  <2> SUFFICES ASSUME NEW g \in frozen', NEW w \in Wid, g.at[w] # NoAddr
               PROVE  cell'[g.at[w]] = cell[g.at[w]]
    OBVIOUS
  <2>1. g.at[w] \in Addr /\ g.at[w] \in Live(store, frozen')
    BY <1>1, <1>2, Owned DEF StoreInv
  <2> QED
    BY <1>1, <2>1, SettleKeeps
<1>6. StoreInv'
  <2>1. DOMAIN cell' = Addr
    BY <1>1 DEF Settle
  <2> QED
    BY <1>1, <1>2, <1>3, <2>1 DEF StoreInv
<1>7. FrozenStaysFrozen'
  <2> SUFFICES ASSUME NEW g \in frozen', NEW w \in Wid, g.at[w] # NoAddr
               PROVE  cell'[g.at[w]] = g.was[w]
    BY Zenon DEF FrozenStaysFrozen
  <2>1. g \in frozen
    BY <1>1
  <2>2. cell[g.at[w]] = g.was[w]
    BY <2>1, Zenon DEF ReadInv, FrozenStaysFrozen
  <2> QED
    BY <1>5, <2>2, Zenon
<1>8. {image'.next, image'.erase} \subseteq Nat /\ \A w \in Wid : image'.obj[w] # Blank => image'.obj[w] \in Numbered(image'.next)
  <2>1. CASE Encode(f)
    <3>1. /\ image'.next = f.next /\ image'.erase = f.erase
          /\ \A w \in Wid : image'.obj[w] = IF f.at[w] = NoAddr THEN Blank ELSE cell[f.at[w]]
      BY <2>1 DEF Encode
    <3>2. \A w \in Wid : f.at[w] # NoAddr => cell[f.at[w]] = f.was[w]
      BY DEF ReadInv, FrozenStaysFrozen
    <3> QED
      BY <1>2, <3>1, <3>2 DEF NumberInv
  <2>2. CASE Drop(f)
    BY <1>2, <2>2 DEF Drop, NumberInv
  <2> QED
    BY <2>1, <2>2
<1>9. NumberInv'
  BY <1>1, <1>2, <1>3, <1>4, <1>8 DEF NumberInv
<1>10. Evolves
  BY <1>1, <1>2, <1>3, <1>4 DEF Evolves, Follows, NumberInv
<1> QED
  BY <1>1, <1>6, <1>7, <1>9, <1>10 DEF ReadInv

LEMMA RestartStep ==
    ASSUME ReadInv, Restart
    PROVE  ReadInv' /\ EngineAnew /\ storageRev' = 1 /\ eraseRev' \in Nat
<1> DEFINE n  == {w \in Wid : image.obj[w] # Blank}
           at == CHOOSE f \in Placements(n) : TRUE
<1>1. /\ Placements(n) # {} /\ EngineAnew /\ storageRev' = 1 /\ eraseRev' = image.erase
      /\ store' = [w \in Wid |-> IF w \in n THEN [at |-> at[w], gen |-> 1] ELSE None]
      /\ cell' = [a \in Addr |-> IF \E w \in n : at[w] = a
                                 THEN image.obj[CHOOSE w \in n : at[w] = a] ELSE Blank]
      /\ nextRev' = image.next /\ gen' = 1 /\ frozen' = {} /\ image' = image
  BY Zenon DEF Restart, Restored
<1>2. at \in Placements(n)
  BY <1>1
<1>3. at \in [n -> Addr] /\ \A v, w \in n : v # w => at[v] # at[w]
  BY <1>2 DEF Placements
<1> HIDE DEF at
<1>4. /\ \A w \in n : store'[w] = [at |-> at[w], gen |-> 1] /\ at[w] \in Addr
      /\ \A w \in n : store'[w].at = at[w] /\ store'[w].gen = 1
      /\ \A w \in Wid \ n : store'[w] = None
  BY <1>1, <1>3
<1>5. Present' = n
  <2>1. None.gen = 0
    BY DEF None
  <2>2. \A w \in n : store'[w] # None
    BY <1>4, <2>1
  <2> QED
    BY <1>4, <2>2 DEF Present
<1>6. ASSUME NEW w \in n PROVE Content(w)' = image.obj[w]
  <2>1. w \in n /\ at[w] = at[w]
    BY <1>6
  <2>2. (CHOOSE v \in n : at[v] = at[w]) = w
    <3>1. /\ (CHOOSE v \in n : at[v] = at[w]) \in n
          /\ at[CHOOSE v \in n : at[v] = at[w]] = at[w]
      BY <2>1
    <3> QED
      BY <1>3, <2>1, <3>1
  <2>3. cell'[at[w]] = image.obj[CHOOSE v \in n : at[v] = at[w]]
    BY <1>1, <1>4, <2>1
  <2>4. store'[w].at = at[w]
    BY <1>4, <2>1
  <2> QED
    BY <2>2, <2>3, <2>4 DEF Content
<1>7. StoreInv'
  <2>1. gen' \in Nat /\ DOMAIN cell' = Addr
    BY <1>1
  <2>2. store' \in [Wid -> [at : Addr, gen : Nat] \cup {None}]
    BY <1>1, <1>4
  <2>3. \A w \in Wid : store'[w].gen <= gen'
    <3>1. \A w \in Wid : store'[w].gen \in {0, 1}
      BY <1>4 DEF None
    <3> QED
      BY <1>1, <3>1
  <2>4. \A v, w \in Present' : v # w => store'[v].at # store'[w].at
    <3> HIDE DEF n
    <3> QED
      BY <1>3, <1>4, <1>5
  <2> QED
    BY <1>1, <2>1, <2>2, <2>3, <2>4 DEF StoreInv
<1>8. NumberInv'
  BY <1>1, <1>5, <1>6 DEF ReadInv, NumberInv
<1>9. FrozenStaysFrozen'
  BY <1>1 DEF FrozenStaysFrozen
<1>10. eraseRev' \in Nat
  BY <1>1 DEF ReadInv, NumberInv
<1> QED
  BY <1>1, <1>7, <1>8, <1>9, <1>10 DEF ReadInv

-----------------------------------------------------------------------------
(* The scan's pointers.                                                    *)

(* Objects come, addresses stay: the pointers are as good as before.       *)
LEMMA PointersKeep ==
    ASSUME PointerInv, UNCHANGED <<ptrs, seen, storageRev, eraseRev>>,
           Present \subseteq Present', \A w \in Present : store'[w] = store[w]
    PROVE  PointerInv'
<1>1. Known' = Known
  BY DEF Known
<1> QED
  BY <1>1 DEF PointerInv

(* A revision has moved on: the next scan reads the pointers anew.         *)
LEMMA PointersLapse ==
    ASSUME PointerInv, UNCHANGED seen, storageRev' \in Nat, eraseRev' \in Nat,
           storageRev' >= storageRev, eraseRev' >= eraseRev,
           storageRev' > storageRev \/ eraseRev' > eraseRev
    PROVE  PointerInv'
BY DEF PointerInv

(* Nothing has moved since the last scan: every object has its pointer.    *)
LEMMA PointersComplete ==
    ASSUME StoreInv, PointerInv
    PROVE  \A w \in Wid : Pointers[w] = store[w].at
<1>1. CASE Moved
  BY <1>1 DEF Pointers
<1>2. CASE ~Moved
  <2>1. /\ \A w \in Known : w \in Present /\ ptrs[w] = store[w].at
        /\ Cardinality(Present) = Cardinality(Known)
    BY <1>2 DEF Moved, PointerInv
  <2>2. IsFiniteSet(Wid) /\ Present \in SUBSET Wid /\ Known \in SUBSET Present
    BY <2>1, WorldStoreConstants DEF Present
  <2>3. IsFiniteSet(Present)
    BY <2>2, FS_Subset
  <2>4. Known = Present
    BY <2>1, <2>2, <2>3, FS_Subset
  <2>5. ASSUME NEW w \in Wid PROVE Pointers[w] = store[w].at
    <3>1. w \in Present => Pointers[w] = store[w].at
      BY <1>2, <2>1, <2>4 DEF Pointers
    <3>2. w \notin Present => Pointers[w] = NoAddr /\ store[w].at = NoAddr
      BY <1>2, <2>4, Presence DEF Pointers, Known
    <3> QED
      BY <3>1, <3>2
  <2> QED
    BY <2>5
<1> QED
  BY <1>1, <1>2

LEMMA ScanStep ==
    ASSUME WorldInv, Scan
    PROVE  WorldInv' /\ \A w \in Wid : ptrs'[w] = store[w].at
<1>1. /\ UNCHANGED <<cell, store, gen, storageRev, nextRev, eraseRev, frozen, image>>
      /\ ptrs' = Pointers
      /\ seen'.size = IF Moved THEN Cardinality(Present) ELSE seen.size
      /\ seen'.erase = IF Moved THEN eraseRev ELSE seen.erase
      /\ seen'.storage = IF Moved THEN storageRev ELSE seen.storage
  BY DEF Scan, world
<1>2. \A w \in Wid : ptrs'[w] = store[w].at
  BY <1>1, PointersComplete DEF WorldInv, ReadInv
<1>3. Present' = Present /\ \A w \in Present : Content(w)' = Content(w)
  BY <1>1 DEF Present, Content
<1>4. ReadInv'
  BY <1>1, <1>3 DEF WorldInv, ReadInv, StoreInv, NumberInv, FrozenStaysFrozen
<1>5. Known' = Present
  <2>1. \A w \in Wid : store[w].at # NoAddr <=> w \in Present
    BY Presence DEF WorldInv, ReadInv
  <2> QED
    BY <1>2, <2>1 DEF Known, Present
<1>6. seen'.size = Cardinality(Present) /\ seen'.erase = eraseRev /\ seen'.storage = storageRev
  BY <1>1 DEF Moved
<1>7. PointerInv'
  BY <1>1, <1>2, <1>3, <1>5, <1>6 DEF PointerInv, WorldInv, Present
<1> QED
  BY <1>2, <1>4, <1>7 DEF WorldInv

-----------------------------------------------------------------------------
(* The scan's view.                                                        *)

LEMMA Hashes ==
    ASSUME NEW o
    PROVE  Hash(Projected(o)) = HashOf(o.ver, o.pos, o.val, policy)
BY DEF Hash, Projected, HashOf

LEMMA HashHasPlace ==
    ASSUME NEW a, NEW p, NEW v, NEW n
    PROVE  HashOf(a, p, v, n)[2] = p
BY DEF HashOf

(* What an object of the world is.                                         *)
LEMMA Contents ==
    ASSUME ReadInv, NEW w \in Present
    PROVE  Content(w).rev \in 1 .. nextRev /\ Content(w).ver \in Nat
BY DEF ReadInv, NumberInv, Numbered

(* The tick writes: an object that still has a view entry's number and     *)
(* version still has the content behind its hash.                          *)
LEMMA ViewEvolves ==
    ASSUME ReadInv, ReadInv', ViewInv, Evolves, policy' \in Nat
    PROVE  ViewInv'
<1>1. /\ {nextRev, nextRev', eraseRev, eraseRev', seen.erased} \subseteq Nat
      /\ seen.erased <= eraseRev /\ nextRev' >= nextRev
      /\ UNCHANGED <<seen, view, cache, stale>>
      /\ eraseRev' = eraseRev + 1 \/ (eraseRev' = eraseRev /\ Present \subseteq Present')
  BY DEF ReadInv, NumberInv, ViewInv, Evolves
<1>2. ASSUME NEW w \in Wid, view[w] # Unknown
      PROVE  /\ view[w].rev \in 1 .. nextRev' /\ view[w].ver \in Nat
             /\ view[w].hash[2] = view[w].pos
             /\ eraseRev' = seen.erased => w \in Present'
             /\ w \in Present' /\ Content(w)'.rev = view[w].rev =>
                   \/ view[w].ver < Content(w)'.ver
                   \/ /\ view[w].ver = Content(w)'.ver
                      /\ view[w].hash = HashOf(view[w].ver, view[w].pos, Content(w)'.val, view[w].policy)
  <2>1. /\ view[w].rev \in 1 .. nextRev /\ view[w].ver \in Nat
        /\ view[w].hash[2] = view[w].pos
        /\ eraseRev = seen.erased => w \in Present
        /\ w \in Present /\ Content(w).rev = view[w].rev =>
              \/ view[w].ver < Content(w).ver
              \/ /\ view[w].ver = Content(w).ver
                 /\ view[w].hash = HashOf(view[w].ver, view[w].pos, Content(w).val, view[w].policy)
    BY <1>2 DEF ViewInv
  <2>2. eraseRev' = seen.erased => w \in Present'
    BY <1>1, <2>1
  <2>3. ASSUME w \in Present', Content(w)'.rev = view[w].rev
        PROVE  \/ view[w].ver < Content(w)'.ver
               \/ /\ view[w].ver = Content(w)'.ver
                  /\ view[w].hash = HashOf(view[w].ver, view[w].pos, Content(w)'.val, view[w].policy)
    <3>1. Follows(w)
      BY <2>3 DEF Evolves
    <3>2. /\ w \in Present /\ Content(w).rev = view[w].rev
          /\ \/ Content(w)'.ver = Content(w).ver + 1
             \/ Content(w)'.ver = Content(w).ver /\ Content(w)'.val = Content(w).val
      BY <1>1, <2>1, <2>3, <3>1 DEF Follows
    <3>3. Content(w).ver \in Nat
      BY <3>2, Contents
    <3> QED
      BY <2>1, <3>2, <3>3
  <2> QED
    BY <1>1, <2>1, <2>2, <2>3
<1>3. ~stale => \A w \in Wid : cache[w] # Unknown => view[w] # Unknown /\ cache[w] = Base(view[w])
  BY DEF ViewInv
<1> QED
  BY <1>1, <1>2, <1>3 DEF ViewInv, Base

(* The scan finds every object whose projection is no longer the view's,   *)
(* and forgets every object that is gone.                                  *)
LEMMA ViewScans ==
    ASSUME WorldInv, ViewInv, Scan
    PROVE  /\ ViewInv'
           /\ \A w \in Wid : IF w \in Present
                             THEN view'[w] # Unknown /\ view'[w].hash = Hash(Projected(Content(w)))
                             ELSE view'[w] = Unknown
<1> DEFINE p == Pointers
           c == Baselines
           dirty == {w \in Wid : Dirty(w, p, c)}
           same(w) == view[w] # Unknown /\ view[w].hash = Hash(Projected(cell[p[w]]))
           gone == {w \in Wid : view[w] # Unknown /\ store[w] = None}
           fresh(w) == [hash |-> Hash(Projected(cell[p[w]])), rev |-> cell[p[w]].rev,
                        ver |-> cell[p[w]].ver,
                        pos |-> IF same(w) THEN view[w].pos ELSE cell[p[w]].pos, policy |-> policy]
           base(w) == [rev |-> cell[p[w]].rev, ver |-> cell[p[w]].ver, pos |-> cell[p[w]].pos,
                       policy |-> policy]
           lapsed == IF eraseRev # seen.erased THEN gone ELSE {}
<1>1. /\ UNCHANGED <<world, frozen, image, policy>> /\ seen'.erased = eraseRev
      /\ \A w \in Wid : view'[w] = IF w \in lapsed THEN Unknown
                                   ELSE IF w \in dirty THEN fresh(w) ELSE view[w]
      /\ \A w \in Wid : cache'[w] = IF w \in dirty /\ c[w] # Unknown THEN base(w) ELSE c[w]
      /\ stale' = (lapsed # {} \/ \E w \in dirty : c[w] = Unknown /\ ~same(w))
  BY DEF Scan
<1>2. ReadInv /\ StoreInv /\ \A w \in Wid : p[w] = store[w].at
  BY PointersComplete DEF WorldInv, ReadInv
<1>3. \A w \in Wid : c[w] # Unknown => view[w] # Unknown /\ c[w] = Base(view[w])
  BY DEF ViewInv, Baselines
<1>4. \A w \in Wid : Unknown.rev = 0 /\ (w \in Present <=> store[w] # None)
  BY DEF Unknown, Present
<1> HIDE DEF p, c
<1>5. /\ \A w \in Present : p[w] # NoAddr /\ cell[p[w]] = Content(w)
      /\ \A w \in Wid \ Present : p[w] = NoAddr
  BY <1>2, Presence DEF Content, Present
<1>6. dirty \subseteq Present
  BY <1>5 DEF Dirty
<1>7. ASSUME NEW w \in Wid, w \notin Present
      PROVE  view'[w] = Unknown
  <2>1. w \notin dirty /\ (view[w] # Unknown => w \in lapsed)
    BY <1>4, <1>6, <1>7 DEF ViewInv
  <2> QED
    BY <1>1, <2>1
<1>8. ASSUME NEW w \in Present
      PROVE  /\ w \in Wid /\ w \notin lapsed
             /\ view'[w] # Unknown /\ view'[w].hash = HashOf(Content(w).ver, Content(w).pos, Content(w).val, policy)
             /\ view'[w].rev = Content(w).rev /\ view'[w].ver = Content(w).ver
             /\ view'[w].pos = Content(w).pos /\ view'[w].policy = policy
  <2>1. w \in Wid /\ w \notin lapsed
    BY <1>4 DEF Present
  <2>2. Content(w).rev \in 1 .. nextRev /\ Content(w).ver \in Nat /\ nextRev \in Nat
    BY <1>2, Contents DEF ReadInv, NumberInv
  <2>3. Hash(Projected(cell[p[w]])) = HashOf(Content(w).ver, Content(w).pos, Content(w).val, policy)
    BY <1>5, Hashes
  <2>4. CASE w \in dirty
    <3>1. view'[w] = fresh(w)
      BY <1>1, <2>1, <2>4
    <3>2. same(w) => view[w].pos = Content(w).pos
      <4>1. view[w] # Unknown => view[w].hash[2] = view[w].pos
        BY <2>1 DEF ViewInv
      <4> QED
        BY <2>3, <4>1, HashHasPlace
    <3>3. /\ fresh(w).hash = Hash(Projected(cell[p[w]])) /\ fresh(w).rev = Content(w).rev
          /\ fresh(w).ver = Content(w).ver /\ fresh(w).policy = policy
          /\ fresh(w).pos = IF same(w) THEN view[w].pos ELSE Content(w).pos
      BY <1>5
    <3> HIDE DEF fresh, same
    <3>4. fresh(w).rev # Unknown.rev
      BY <1>4, <2>1, <2>2, <3>3
    <3> QED
      BY <2>1, <2>3, <3>1, <3>2, <3>3, <3>4
  <2>5. CASE w \notin dirty
    <3>1. view'[w] = view[w]
      BY <1>1, <2>1, <2>5
    <3>2. /\ c[w] # Unknown /\ c[w].rev = Content(w).rev /\ c[w].ver = Content(w).ver
          /\ c[w].policy = policy /\ c[w].pos = Content(w).pos
      BY <1>5, <2>1, <2>5 DEF Dirty
    <3>3. /\ view[w] # Unknown /\ view[w].rev = Content(w).rev /\ view[w].ver = Content(w).ver
          /\ view[w].pos = Content(w).pos /\ view[w].policy = policy
      <4>1. view[w] # Unknown /\ c[w] = Base(view[w])
        BY <1>3, <2>1, <3>2
      <4>2. /\ Base(view[w]).rev = view[w].rev /\ Base(view[w]).ver = view[w].ver
            /\ Base(view[w]).pos = view[w].pos /\ Base(view[w]).policy = view[w].policy
        BY DEF Base
      <4> QED
        BY <3>2, <4>1, <4>2
    <3>4. view[w].hash = HashOf(view[w].ver, view[w].pos, Content(w).val, view[w].policy)
      BY <2>1, <2>2, <3>3 DEF ViewInv
    <3> QED
      BY <2>1, <3>1, <3>3, <3>4
  <2> QED
    BY <2>4, <2>5
<1>9. Present' = Present /\ \A w \in Present : Content(w)' = Content(w)
  BY <1>1 DEF Present, Content, world
<1>10. \A w \in Wid : view'[w] # Unknown =>
          /\ view'[w].rev \in 1 .. nextRev' /\ view'[w].ver \in Nat
          /\ view'[w].hash[2] = view'[w].pos
          /\ w \in Present'
          /\ view'[w].ver = Content(w)'.ver
          /\ view'[w].hash = HashOf(view'[w].ver, view'[w].pos, Content(w)'.val, view'[w].policy)
  <2> SUFFICES ASSUME NEW w \in Wid, view'[w] # Unknown
               PROVE  /\ view'[w].rev \in 1 .. nextRev' /\ view'[w].ver \in Nat
                      /\ view'[w].hash[2] = view'[w].pos
                      /\ w \in Present'
                      /\ view'[w].ver = Content(w)'.ver
                      /\ view'[w].hash = HashOf(view'[w].ver, view'[w].pos, Content(w)'.val, view'[w].policy)
    OBVIOUS
  <2>1. w \in Present /\ nextRev' = nextRev
    BY <1>1, <1>7 DEF world
  <2>2. Content(w).rev \in 1 .. nextRev /\ Content(w).ver \in Nat
    BY <1>2, <2>1, Contents
  <2> QED
    BY <1>8, <1>9, <2>1, <2>2, HashHasPlace
<1>11. ASSUME ~stale', NEW w \in Wid, cache'[w] # Unknown
       PROVE  view'[w] # Unknown /\ cache'[w] = Base(view'[w])
  <2>1. lapsed = {}
    BY <1>1, <1>11
  <2>2. CASE w \in dirty /\ c[w] # Unknown
    <3>1. w \in Present /\ cache'[w] = base(w)
      BY <1>1, <1>6, <2>2
    <3>2. base(w) = [rev |-> Content(w).rev, ver |-> Content(w).ver, pos |-> Content(w).pos, policy |-> policy]
      BY <1>5, <3>1
    <3> QED
      BY <1>8, <3>1, <3>2 DEF Base
  <2>3. CASE ~(w \in dirty /\ c[w] # Unknown)
    <3>1. cache'[w] = c[w]
      BY <1>1, <2>3
    <3>2. w \notin dirty /\ view'[w] = view[w]
      BY <1>1, <1>11, <2>1, <2>3, <3>1
    <3> QED
      BY <1>3, <1>11, <3>1, <3>2
  <2> QED
    BY <2>2, <2>3
<1>12. ViewInv'
  <2>1. /\ {policy', nextRev', eraseRev', seen'.erased} \subseteq Nat /\ seen'.erased <= eraseRev'
    BY <1>1 DEF ViewInv, world
  <2> QED
    BY <1>10, <1>11, <2>1 DEF ViewInv, Base
<1> QED
  BY <1>7, <1>8, <1>12, Hashes

-----------------------------------------------------------------------------
LEMMA InitWorld == Init => WorldInv
<1> SUFFICES ASSUME Init PROVE WorldInv
  OBVIOUS
<1>1. StoreInv /\ Present = {}
  BY DEF Init, StoreInv, Present, None
<1>2. NumberInv /\ FrozenStaysFrozen
  BY <1>1 DEF Init, NumberInv, FrozenStaysFrozen, Empty
<1>3. Known = {} /\ Cardinality({}) = 0
  BY FS_EmptySet DEF Init, Known
<1>4. PointerInv
  BY <1>3 DEF PointerInv, Init
<1> QED
  BY <1>1, <1>2, <1>4 DEF WorldInv, ReadInv

LEMMA NextWorld ==
    WorldInv /\ [Next]_vars => WorldInv' /\ (Scan => \A w \in Wid : ptrs'[w] = store[w].at)
<1> SUFFICES ASSUME WorldInv, [Next]_vars
             PROVE  WorldInv' /\ (Scan => \A w \in Wid : ptrs'[w] = store[w].at)
  OBVIOUS
<1>0. ReadInv /\ PointerInv /\ {storageRev, eraseRev} \subseteq Nat
  BY DEF WorldInv, PointerInv
<1>1. Scan => WorldInv' /\ \A w \in Wid : ptrs'[w] = store[w].at
  BY ScanStep
<1>2. ASSUME NEW w \in Wid, NEW v \in Value, NEW p \in Place, Insert(w, v, p) PROVE WorldInv'
  BY <1>0, <1>2, InsertStep, PointersKeep DEF WorldInv
<1>3. ASSUME NEW w \in Wid, Erase(w) PROVE WorldInv'
  BY <1>0, <1>3, EraseStep, PointersLapse DEF WorldInv
<1>4. ASSUME NEW w \in Wid, NEW v \in Value, Change(w, v) \/ RelateRetired(w) PROVE WorldInv'
  <2>1. /\ ReadInv' /\ Present' = Present /\ UNCHANGED <<ptrs, seen, eraseRev>>
        /\ (store' = store /\ storageRev' = storageRev) \/ storageRev' = storageRev + 1
    BY <1>0, <1>4, ChangeStep
  <2>2. PointerInv'
    BY <1>0, <2>1, PointersKeep, PointersLapse
  <2> QED
    BY <2>1, <2>2 DEF WorldInv
<1>5. ASSUME NEW w \in Wid, NEW n \in Object, Update(w, n) PROVE WorldInv'
  BY <1>0, <1>5, UpdateStep, PointersLapse DEF WorldInv
<1>6. ASSUME Freeze PROVE WorldInv'
  <2>1. /\ ReadInv' /\ UNCHANGED <<ptrs, seen, eraseRev>>
        /\ (store' = store /\ storageRev' = storageRev) \/ storageRev' = storageRev + 1
    BY <1>0, <1>6, FreezeStep
  <2>2. store' = store => Present' = Present
    BY DEF Present
  <2>3. PointerInv'
    BY <1>0, <2>1, <2>2, PointersKeep, PointersLapse
  <2> QED
    BY <2>1, <2>3 DEF WorldInv
<1>7. ASSUME NEW f \in frozen, Encode(f) \/ Drop(f) PROVE WorldInv'
  <2>1. ReadInv' /\ UNCHANGED <<ptrs, seen, store, storageRev, eraseRev>>
    BY <1>0, <1>7, ReleaseStep
  <2>2. Present' = Present
    BY <2>1 DEF Present
  <2> QED
    BY <1>0, <2>1, <2>2, PointersKeep DEF WorldInv
<1>8. ASSUME Restart PROVE WorldInv'
  <2>1. ReadInv' /\ EngineAnew /\ storageRev' = 1 /\ eraseRev' \in Nat
    BY <1>0, <1>8, RestartStep
  <2>2. seen'.storage = 0 /\ seen'.erase = 0
    BY <2>1 DEF EngineAnew
  <2>3. PointerInv'
    BY <2>1, <2>2 DEF PointerInv
  <2> QED
    BY <2>1, <2>3 DEF WorldInv
<1>9. ASSUME Allow \/ UNCHANGED vars PROVE WorldInv'
  <2>1. UNCHANGED <<cell, store, gen, storageRev, nextRev, eraseRev, frozen, image, ptrs, seen>>
    BY <1>9 DEF Allow, vars, world, engine
  <2>2. Present' = Present /\ Known' = Known /\ \A w \in Present : Content(w)' = Content(w)
    BY <2>1 DEF Present, Known, Content
  <2>3. StoreInv' /\ FrozenStaysFrozen' /\ PointerInv'
    BY <1>0, <2>1, <2>2 DEF ReadInv, StoreInv, FrozenStaysFrozen, PointerInv
  <2>4. NumberInv'
    BY <1>0, <2>1, <2>2 DEF ReadInv, NumberInv
  <2> QED
    BY <2>3, <2>4 DEF WorldInv, ReadInv
<1>10. Mutate => WorldInv'
  <2>1. ASSUME NEW w \in Wid,
               \/ \E v \in Value, p \in Place : Insert(w, v, p)
               \/ Erase(w)
               \/ RelateRetired(w)
               \/ \E v \in Value : Change(w, v)
               \/ \E n \in Object : Update(w, n)
        PROVE  WorldInv'
    BY <1>2, <1>3, <1>4, <1>5, <2>1, WorldStoreConstants
  <2> QED
    BY <2>1 DEF Mutate
<1> QED
  BY <1>1, <1>6, <1>7, <1>8, <1>9, <1>10 DEF Next

(* The view and its baselines, when update() is well-behaved.              *)
LEMMA NextView ==
    ASSUME ~Silent, WorldInv, ViewInv, [Next]_vars
    PROVE  /\ ViewInv'
           /\ Scan => \A w \in Wid :
                 IF w \in Present THEN view'[w] # Unknown /\ view'[w].hash = Hash(Projected(Content(w)))
                                  ELSE view'[w] = Unknown
<1>0. WorldInv' /\ ReadInv /\ ReadInv' /\ policy \in Nat
  BY NextWorld DEF WorldInv, ViewInv
<1>1. CASE Scan
  BY <1>1, ViewScans
<1>2. ASSUME Evolves, policy' \in Nat PROVE ViewInv'
  BY <1>0, <1>2, ViewEvolves
<1>3. ASSUME NEW w \in Wid, NEW v \in Value, NEW p \in Place, Insert(w, v, p) PROVE ViewInv'
  BY <1>0, <1>2, <1>3, InsertStep
<1>4. ASSUME NEW w \in Wid, Erase(w) PROVE ViewInv'
  BY <1>0, <1>2, <1>4, EraseStep
<1>5. ASSUME NEW w \in Wid, NEW v \in Value, Change(w, v) \/ RelateRetired(w) PROVE ViewInv'
  BY <1>0, <1>2, <1>5, ChangeStep
<1>6. ASSUME NEW w \in Wid, NEW n \in Object, Update(w, n) PROVE ViewInv'
  BY <1>0, <1>2, <1>6, UpdateStep
<1>7. ASSUME Freeze PROVE ViewInv'
  BY <1>0, <1>2, <1>7, FreezeStep
<1>8. ASSUME NEW f \in frozen, Encode(f) \/ Drop(f) PROVE ViewInv'
  BY <1>0, <1>2, <1>8, ReleaseStep
<1>9. ASSUME Restart PROVE ViewInv'
  <2>1. EngineAnew /\ {nextRev', eraseRev'} \subseteq Nat
    BY <1>0, <1>9, RestartStep DEF ReadInv, NumberInv
  <2> QED
    BY <2>1 DEF EngineAnew, ViewInv
<1>10. ASSUME Allow \/ UNCHANGED vars PROVE ViewInv'
  <2>1. /\ UNCHANGED <<cell, store, nextRev, eraseRev, seen, view, cache, stale>>
        /\ policy' \in Nat
    BY <1>0, <1>10 DEF Allow, vars, world, engine
  <2>2. Present' = Present /\ \A w \in Present : Content(w)' = Content(w)
    BY <2>1 DEF Present, Content
  <2> QED
    BY <2>1, <2>2 DEF ViewInv, Base
<1>11. CASE Mutate
  <2>1. ASSUME NEW w \in Wid,
               \/ \E v \in Value, p \in Place : Insert(w, v, p)
               \/ Erase(w)
               \/ RelateRetired(w)
               \/ \E v \in Value : Change(w, v)
               \/ \E n \in Object : Update(w, n)
        PROVE  ViewInv'
    BY <1>3, <1>4, <1>5, <1>6, <2>1, WorldStoreConstants
  <2>2. ViewInv'
    BY <1>11, <2>1 DEF Mutate
  <2> QED
    BY <1>1, <2>2
<1>12. ASSUME ~Scan PROVE ViewInv'
  BY <1>7, <1>8, <1>9, <1>10, <1>11, <1>12 DEF Next
<1> QED
  BY <1>1, <1>12

-----------------------------------------------------------------------------
(* The inductive invariant: addresses have one owner, what a snapshot      *)
(* shares is older than the generation, and unless a revision has moved    *)
(* the scan's pointers are into the storage.                               *)
THEOREM WorldInvariant == Spec => []WorldInv
<1>1. WorldInv /\ [Next]_vars => WorldInv'
  BY NextWorld
<1> QED
  BY <1>1, InitWorld, PTL DEF Spec

(* A snapshot never changes under its reader (freeze_snapshot(),           *)
(* writable_find()).                                                       *)
THEOREM SnapshotsAreFrozen == Spec => []FrozenStaysFrozen
<1>1. WorldInv => FrozenStaysFrozen
  BY DEF WorldInv, ReadInv
<1> QED
  BY <1>1, WorldInvariant, PTL

(* Every published world block is accepted by                              *)
(* WorldCheckpointProvider::restore().                                     *)
THEOREM BlocksAreAccepted == Spec => []ImageAcceptable
<1>1. WorldInv => ImageAcceptable
  BY DEF WorldInv, ReadInv, NumberInv, ImageAcceptable, Acceptable, Numbered
<1> QED
  BY <1>1, WorldInvariant, PTL

(* No scan reads through a pointer the storage has left (on_projection()). *)
THEOREM ScansReadTheStorage == Spec => PointersAreLive
<1>1. WorldInv /\ [Next]_vars => [Scan => \A w \in Wid : ptrs'[w] = store[w].at]_vars
  BY NextWorld
<1> QED
  BY <1>1, WorldInvariant, PTL DEF Spec, PointersAreLive

(* Baselines, versions and the kept pointers find every change: after      *)
(* on_projection() the global view is what recomputing every object would  *)
(* give, provided that update() takes a new version with a new content.    *)
THEOREM ScansAreExact == ASSUME ~Silent PROVE Spec => ScanSeesTheWorld
<1> DEFINE Exact == \A w \in Wid :
             IF w \in Present THEN view'[w] # Unknown /\ view'[w].hash = Hash(Projected(Content(w)))
                              ELSE view'[w] = Unknown
<1>1. Init => ViewInv
  BY DEF Init, ViewInv, Unknown
<1>2. WorldInv /\ ViewInv /\ [Next]_vars => ViewInv' /\ (Scan => Exact)
  BY NextView
<1>3. WorldInv /\ ViewInv /\ [Next]_vars => [Scan => Exact]_vars
  BY <1>2
<1> HIDE DEF Exact
<1>4. Spec => [][Scan => Exact]_vars
  BY <1>1, <1>2, <1>3, WorldInvariant, PTL DEF Spec
<1> QED
  BY <1>4 DEF ScanSeesTheWorld, Exact
=============================================================================
