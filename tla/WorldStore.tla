------------------------------ MODULE WorldStore ------------------------------
(***************************************************************************)
(* World (persistent storage) with its frozen snapshots, the world         *)
(* checkpoint provider that encodes one on the publisher's thread, and the *)
(* dirty scan of ProjectionEngine::on_projection, which keeps raw pointers *)
(* into the storage from one tick to the next.                             *)
(*                                                                         *)
(* An object lives in a memory cell shared by the storage and by any       *)
(* number of snapshots.  A cell with no owner is freed and may be handed   *)
(* out again.  An object is its version, its insertion number, one value   *)
(* (properties, state, relations and life cycle together) and a position.  *)
(***************************************************************************)
EXTENDS Integers, FiniteSets

CONSTANTS
    Wid,         \* world ids
    Value,       \* contents of an object
    Retired,     \* the content of an object whose life cycle has ended
    Place,       \* positions
    Addr,        \* memory cells
    NoAddr,
    GenMax,      \* the largest cow_generation: 2^64 - 1
    Silent,      \* whether update() may change a content and keep the version
    MaxVersion, MaxRev, MaxFrozen,   \* bounds
    MaxCount     \* bound: moved or erased objects and policy changes together

ASSUME WorldStoreConstants ==
    /\ IsFiniteSet(Wid)
    /\ Retired \in Value /\ NoAddr \notin Addr
    /\ GenMax \in Nat \ {0, 1} /\ Silent \in BOOLEAN
    /\ {MaxVersion, MaxRev, MaxFrozen, MaxCount} \subseteq Nat

VARIABLES
    cell,        \* Addr -> object, or Blank
    store,       \* Wid -> [at, gen], None when the world has no such object
    gen,         \* cow_generation
    storageRev, nextRev, eraseRev,
    frozen,      \* snapshots alive; was: what each must read (history)
    image,       \* the world block of the latest published checkpoint
    ptrs,        \* world_snapshot_: Wid -> pointer
    seen,        \* world_snapshot_*, seen_erase_revision_
    view,        \* global_view_: Wid -> [hash, rev, ver, pos, policy], or Unknown
    cache,       \* scan_cache_: Wid -> [rev, ver, pos, policy], or Unknown
    stale,       \* scan_cache_dirty_
    policy       \* ProjectionPolicy::version()

world  == <<cell, store, gen, storageRev, nextRev, eraseRev>>
engine == <<ptrs, seen, view, cache, stale, policy>>
vars   == <<world, frozen, image, engine>>

Object  == [ver : 1 .. MaxVersion, rev : 1 .. MaxRev, val : Value, pos : Place]
None    == [at |-> NoAddr, gen |-> 0]
Unknown == [rev |-> 0]
Blank   == [ver |-> 0, rev |-> 0, val |-> Retired, pos |-> CHOOSE p \in Place : TRUE]
Empty   == [obj |-> [w \in Wid |-> Blank], next |-> 0, erase |-> 0]

Room == storageRev + eraseRev + policy < MaxCount

-----------------------------------------------------------------------------
(* Memory.                                                                 *)

Live(s, fs) == {s[w].at : w \in Wid} \cup UNION {{f.at[w] : w \in Wid} : f \in fs}

(* The memory once the cells without an owner are freed.                   *)
Settle(c, s, fs) == [a \in Addr |-> IF a \in Live(s, fs) THEN c[a] ELSE Blank]

Present    == {w \in Wid : store[w] # None}
Content(w) == cell[store[w].at]

(* set_entry() with a new object, owned by the current generation.         *)
Put(w, obj) ==
    /\ Addr \ Live(store, frozen) # {}
    /\ LET a == CHOOSE x \in Addr \ Live(store, frozen) : TRUE
       IN  /\ store' = [store EXCEPT ![w] = [at |-> a, gen |-> gen]]
           /\ cell' = Settle([cell EXCEPT ![a] = obj], store', frozen)

\* Mutant: the writer is handed the shared object.
TouchInPlace(w, obj) ==
    /\ cell' = [cell EXCEPT ![store[w].at] = obj]
    /\ UNCHANGED <<store, storageRev>>

\* Mutant: a moved object is not announced.
TouchSilently(w, obj) ==
    IF store[w].gen = gen
    THEN cell' = [cell EXCEPT ![store[w].at] = obj] /\ UNCHANGED <<store, storageRev>>
    ELSE Put(w, obj) /\ UNCHANGED storageRev

(* writable_find() and the write through the pointer it returns: in place  *)
(* when the object is younger than the last freeze, in a copy otherwise.   *)
Touch(w, obj) ==
    \/ /\ store[w].gen = gen
       /\ cell' = [cell EXCEPT ![store[w].at] = obj]
       /\ UNCHANGED <<store, storageRev>>
    \/ /\ store[w].gen # gen
       /\ Room
       /\ Put(w, obj)
       /\ storageRev' = storageRev + 1

-----------------------------------------------------------------------------
(* The tick thread: commands, systems and the embedding code.              *)

Others == UNCHANGED <<gen, frozen, image, engine>>

(* insert(): the number is used up even when the id is taken.              *)
Insert(w, v, p) ==
    /\ nextRev < MaxRev
    /\ nextRev' = nextRev + 1
    /\ IF w \in Present THEN UNCHANGED <<cell, store>>
       ELSE Put(w, [ver |-> 1, rev |-> nextRev', val |-> v, pos |-> p])
    /\ UNCHANGED <<storageRev, eraseRev>> /\ Others

Erase(w) ==
    /\ w \in Present /\ Room
    /\ store' = [store EXCEPT ![w] = None]
    /\ cell' = Settle(cell, store', frozen)
    /\ eraseRev' = eraseRev + 1
    /\ UNCHANGED <<storageRev, nextRev>> /\ Others

(* set_property(): a retired object is made writable and then left as it   *)
(* is.  add_relation() does the same to an object that is not retired.     *)
Change(w, v) ==
    /\ w \in Present /\ v # Retired
    /\ LET o == Content(w)
       IN  /\ o.ver < MaxVersion
           /\ Touch(w, IF o.val = Retired THEN o ELSE [o EXCEPT !.val = v, !.ver = @ + 1])
    /\ UNCHANGED <<nextRev, eraseRev>> /\ Others

(* add_relation() does not ask whether its object is retired.              *)
RelateRetired(w) ==
    /\ w \in Present /\ Content(w).val = Retired
    /\ Content(w).ver < MaxVersion
    /\ Touch(w, [Content(w) EXCEPT !.ver = @ + 1])
    /\ UNCHANGED <<nextRev, eraseRev>> /\ Others

(* update(): the mutation may do anything; a well-behaved one that changes *)
(* more than the position takes a new version.                             *)
Mutations(o) ==
    {n \in Object : /\ n.rev = o.rev
                    /\ n.ver \in {o.ver, o.ver + 1}
                    /\ n.ver = o.ver /\ n.val # o.val => Silent}

Update(w, n) ==
    /\ w \in Present /\ Room
    /\ n \in Mutations(Content(w))
    /\ Put(w, n)
    /\ storageRev' = storageRev + 1
    /\ UNCHANGED <<nextRev, eraseRev>> /\ Others

(* The policy learns another field to project.                             *)
Allow ==
    /\ Room
    /\ policy' = policy + 1
    /\ UNCHANGED <<world, frozen, image, ptrs, seen, view, cache, stale>>

-----------------------------------------------------------------------------
(* Checkpoints.                                                            *)

Snapshot == [at |-> [w \in Wid |-> store[w].at], next |-> nextRev, erase |-> eraseRev,
             was |-> [w \in Wid |-> IF w \in Present THEN Content(w) ELSE Blank]]

(* freeze_snapshot(): the snapshot shares every object.                    *)
Freeze ==
    /\ Cardinality(frozen) < MaxFrozen
    /\ frozen' = frozen \cup {Snapshot}
    /\ \/ gen < GenMax /\ gen' = gen + 1 /\ UNCHANGED <<store, storageRev>>
       \/ /\ gen = GenMax /\ Room
          /\ store' = [w \in Wid |-> IF w \in Present THEN [store[w] EXCEPT !.gen = 1]
                                                      ELSE None]
          /\ gen' = 2 /\ storageRev' = storageRev + 1
    /\ UNCHANGED <<cell, nextRev, eraseRev, image, engine>>

(* WorldCheckpointProvider::encode() on the publisher's thread, then the   *)
(* snapshot is released.                                                   *)
Encode(f) ==
    /\ image' = [obj   |-> [w \in Wid |-> IF f.at[w] = NoAddr THEN Blank ELSE cell[f.at[w]]],
                 next  |-> f.next, erase |-> f.erase]
    /\ frozen' = frozen \ {f}
    /\ cell' = Settle(cell, store, frozen')
    /\ UNCHANGED <<store, gen, storageRev, nextRev, eraseRev, engine>>

(* A publication that fails or is never made: the snapshot is released.    *)
Drop(f) ==
    /\ frozen' = frozen \ {f}
    /\ cell' = Settle(cell, store, frozen')
    /\ UNCHANGED <<store, gen, storageRev, nextRev, eraseRev, image, engine>>

(* WorldCheckpointProvider::restore() accepts what it reads.               *)
Acceptable(i) == \A w \in Wid : i.obj[w] # Blank => i.obj[w].rev \in 1 .. i.next

EngineAnew ==
    /\ ptrs' = [w \in Wid |-> NoAddr]
    /\ seen' = [size |-> 0, erase |-> 0, storage |-> 0, erased |-> 0]
    /\ view' = [w \in Wid |-> Unknown] /\ cache' = [w \in Wid |-> Unknown]
    /\ stale' = FALSE /\ policy' = 0

(* What restore_snapshot() leaves of a block.                              *)
Restored(i) == i

(* Where a new process may put its objects.                                *)
Placements(n) == {f \in [n -> Addr] : \A v, w \in n : v # w => f[v] # f[w]}

(* The process dies and a new one restores the block: World::restore().    *)
Restart ==
    /\ Acceptable(image)
    /\ LET i == Restored(image)
           n == {w \in Wid : i.obj[w] # Blank}
           at == CHOOSE f \in Placements(n) : TRUE
       IN     /\ Placements(n) # {}
              /\ store' = [w \in Wid |-> IF w \in n THEN [at |-> at[w], gen |-> 1] ELSE None]
              /\ cell' = [a \in Addr |-> IF \E w \in n : at[w] = a
                                         THEN i.obj[CHOOSE w \in n : at[w] = a] ELSE Blank]
              /\ nextRev' = i.next /\ eraseRev' = i.erase
    /\ gen' = 1 /\ storageRev' = 1
    /\ frozen' = {} /\ UNCHANGED image
    /\ EngineAnew

-----------------------------------------------------------------------------
(* The dirty scan at the end of a tick.                                    *)

(* ProjectionPolicy::project(): until a property is allowed only the life   *)
(* cycle of the content shows.                                             *)
Projected(o) ==
    [ver |-> o.ver, pos |-> o.pos, retired |-> o.val = Retired,
     shown |-> IF policy > 0 THEN o.val ELSE Retired]

(* projected_entity_hash(): every projected field, collisions left aside.  *)
Hash(p) == <<p.ver, p.pos, p.retired, p.shown>>

Moved == \/ seen.size # Cardinality(Present)
         \/ seen.erase # eraseRev
         \/ seen.storage # storageRev

Base(s) == [rev |-> s.rev, ver |-> s.ver, pos |-> s.pos, policy |-> s.policy]

(* The raw pointers, read anew when membership or addresses have changed.  *)
Pointers == IF Moved THEN [w \in Wid |-> store[w].at] ELSE ptrs

(* The baselines, copied from the view when its members have changed.      *)
Baselines ==
    IF stale THEN [w \in Wid |-> IF view[w] = Unknown THEN Unknown ELSE Base(view[w])]
    ELSE cache

\* Mutant: the insertion number is not compared.
DirtyIgnoresRevision(w, p, c) ==
    /\ p[w] # NoAddr
    /\ LET o == cell[p[w]]
       IN  c[w] = Unknown \/ c[w].ver # o.ver \/ c[w].policy # policy \/ c[w].pos # o.pos

(* An object read through its pointer differs from its baseline.           *)
Dirty(w, p, c) ==
    /\ p[w] # NoAddr
    /\ LET o == cell[p[w]]
       IN  \/ c[w] = Unknown
           \/ c[w].rev # o.rev
           \/ c[w].ver # o.ver
           \/ c[w].policy # policy
           \/ c[w].pos # o.pos

Scan ==
    LET p == Pointers
        c == Baselines
        dirty   == {w \in Wid : Dirty(w, p, c)}
        obj(w)  == cell[p[w]]
        same(w) == view[w] # Unknown /\ view[w].hash = Hash(Projected(obj(w)))
        gone    == {w \in Wid : view[w] # Unknown /\ store[w] = None}
        fresh(w) == [hash |-> Hash(Projected(obj(w))), rev |-> obj(w).rev, ver |-> obj(w).ver,
                     pos |-> IF same(w) THEN view[w].pos ELSE obj(w).pos, policy |-> policy]
        base(w)  == [rev |-> obj(w).rev, ver |-> obj(w).ver, pos |-> obj(w).pos,
                     policy |-> policy]
        lapsed  == IF eraseRev # seen.erased THEN gone ELSE {}
    IN  /\ ptrs' = p
        /\ seen' = [size |-> IF Moved THEN Cardinality(Present) ELSE seen.size,
                    erase |-> IF Moved THEN eraseRev ELSE seen.erase,
                    storage |-> IF Moved THEN storageRev ELSE seen.storage,
                    erased |-> eraseRev]
        /\ view' = [w \in Wid |-> IF w \in lapsed THEN Unknown
                                  ELSE IF w \in dirty THEN fresh(w) ELSE view[w]]
        /\ cache' = [w \in Wid |-> IF w \in dirty /\ c[w] # Unknown THEN base(w) ELSE c[w]]
        /\ stale' = (lapsed # {} \/ \E w \in dirty : c[w] = Unknown /\ ~same(w))
        /\ UNCHANGED <<world, frozen, image, policy>>

-----------------------------------------------------------------------------
Init ==
    /\ cell = [a \in Addr |-> Blank] /\ store = [w \in Wid |-> None]
    /\ gen = 1 /\ storageRev = 0 /\ nextRev = 0 /\ eraseRev = 0
    /\ frozen = {} /\ image = Empty
    /\ ptrs = [w \in Wid |-> NoAddr]
    /\ seen = [size |-> 0, erase |-> 0, storage |-> 0, erased |-> 0]
    /\ view = [w \in Wid |-> Unknown] /\ cache = [w \in Wid |-> Unknown]
    /\ stale = FALSE /\ policy = 0

Mutate ==
    \E w \in Wid :
       \/ \E v \in Value, p \in Place : Insert(w, v, p)
       \/ Erase(w)
       \/ RelateRetired(w)
       \/ \E v \in Value : Change(w, v)
       \/ \E n \in Object : Update(w, n)

Next ==
    \/ Mutate \/ Allow \/ Scan
    \/ Freeze \/ \E f \in frozen : Encode(f) \/ Drop(f)
    \/ Restart

Spec == Init /\ [][Next]_vars

-----------------------------------------------------------------------------
(* Types; an object of the world was numbered by its counter.              *)
TypeOK ==
    /\ cell \in [Addr -> Object \cup {Blank}]
    /\ store \in [Wid -> [at : Addr, gen : 1 .. GenMax] \cup {None}]
    /\ gen \in 1 .. GenMax
    /\ {storageRev, nextRev, eraseRev, policy} \subseteq Nat
    /\ \A f \in frozen : f.at \in [Wid -> Addr \cup {NoAddr}]
    /\ \A w \in Present : Content(w).rev \in 1 .. nextRev

(* Storage and snapshots: an address is owned by one object of the world,  *)
(* an object a snapshot shares is older than the generation, and what the  *)
(* snapshots share was numbered by their counter.                          *)
StoreInv ==
    /\ gen \in Nat /\ DOMAIN cell = Addr
    /\ store \in [Wid -> [at : Addr, gen : Nat] \cup {None}]
    /\ \A w \in Wid : store[w].gen <= gen
    /\ \A v, w \in Present : v # w => store[v].at # store[w].at
    /\ \A f \in frozen, w \in Wid : f.at[w] = NoAddr \/ f.at[w] \in Addr
    /\ \A f \in frozen, v \in Wid, w \in Present : f.at[v] = store[w].at => store[w].gen < gen

Numbered(n) == [ver : Nat, rev : 1 .. n, val : Value, pos : Place]

NumberInv ==
    /\ {nextRev, eraseRev, image.next, image.erase} \subseteq Nat
    /\ \A w \in Present : Content(w) \in Numbered(nextRev)
    /\ \A f \in frozen :
          /\ {f.next, f.erase} \subseteq Nat
          /\ \A w \in Wid : f.at[w] # NoAddr => f.was[w] \in Numbered(f.next)
    /\ \A w \in Wid : image.obj[w] # Blank => image.obj[w] \in Numbered(image.next)

(* While both revisions are what the scan saw, its pointers are into the   *)
(* storage, and only objects inserted since have none.                     *)
Known == {w \in Wid : ptrs[w] # NoAddr}

PointerInv ==
    /\ {storageRev, eraseRev, seen.storage, seen.erase} \subseteq Nat
    /\ seen.storage <= storageRev /\ seen.erase <= eraseRev
    /\ seen.storage = storageRev /\ seen.erase = eraseRev =>
          /\ \A w \in Known : w \in Present /\ ptrs[w] = store[w].at
          /\ seen.size = Cardinality(Known)

(* A view entry is the hash of an object that has had its number and       *)
(* version, under the policy it names; the object of that number has moved *)
(* on or still has that content.  Unless the members have changed, the     *)
(* baselines are those of the view.                                        *)
HashOf(ver, pos, val, n) == <<ver, pos, val = Retired, IF n > 0 THEN val ELSE Retired>>

ViewInv ==
    /\ {policy, nextRev, eraseRev, seen.erased} \subseteq Nat /\ seen.erased <= eraseRev
    /\ \A w \in Wid : view[w] # Unknown =>
          /\ view[w].rev \in 1 .. nextRev /\ view[w].ver \in Nat
          /\ view[w].hash[2] = view[w].pos
          /\ eraseRev = seen.erased => w \in Present
          /\ w \in Present /\ Content(w).rev = view[w].rev =>
                \/ view[w].ver < Content(w).ver
                \/ /\ view[w].ver = Content(w).ver
                   /\ view[w].hash = HashOf(view[w].ver, view[w].pos, Content(w).val, view[w].policy)
    /\ ~stale => \A w \in Wid :
          cache[w] # Unknown => view[w] # Unknown /\ cache[w] = Base(view[w])

(* A snapshot reads for as long as it lives what the world was when it was *)
(* taken, whatever the tick thread writes meanwhile and however often the  *)
(* generation counter starts again (freeze_snapshot, writable_find).       *)
FrozenStaysFrozen ==
    \A f \in frozen, w \in Wid : f.at[w] # NoAddr => cell[f.at[w]] = f.was[w]

(* A scan reads through no pointer to a cell the storage has left          *)
(* (on_projection keeps them from tick to tick).                           *)
PointersAreLive ==
    [][Scan => \A w \in Wid : ptrs'[w] = store[w].at]_vars

(* After a scan the global view is what a full recomputation of every      *)
(* object would be, though only the dirty ones were recomputed             *)
(* (engine.cpp:112).                                                       *)
ScanSeesTheWorld ==
    [][Scan => \A w \in Wid :
          IF w \in Present THEN view'[w] # Unknown /\ view'[w].hash = Hash(Projected(Content(w)))
                           ELSE view'[w] = Unknown]_vars

(* Every published world block is accepted by restore(), which refuses an  *)
(* object numbered beyond the counter of its block.                        *)
ImageAcceptable == Acceptable(image)
===============================================================================
