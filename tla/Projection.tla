------------------------------ MODULE Projection ------------------------------
(***************************************************************************)
(* projection::ProjectionEngine for one connection: which frame a          *)
(* projection step builds, what the connection remembers of it, and how an *)
(* acknowledgement advances the view the next delta starts from.           *)
(*                                                                         *)
(* An entity is a wid; its projection is its normalised hash, 0 when the   *)
(* object does not exist.  The world is a function wid -> [hash, in]: in   *)
(* says that the position lies in the bounds of the subscription.  One     *)
(* projection runs per tick, so snapshot ids and ticks are one number.     *)
(* The operators are pure: each maps the state of the connection to its    *)
(* next state.                                                             *)
(***************************************************************************)
EXTENDS Integers, Sequences, FiniteSets

CONSTANTS
    Wid,               \* world ids, ordered
    Gap,               \* Gap[w]: interval_ticks of the entity's class, 0: on_change
    MaxFids,           \* max_feature_ids_per_epoch
    MaxUnacked,        \* max_unacked_frames (and bytes, as a number of frames)
    MaxUpdates,        \* max_updates_per_frame
    KeyframeInterval,  \* keyframe_interval_ticks()
    Phase              \* hash of the connection id modulo that interval

ASSUME ProjectionConstants ==
    /\ Wid \subseteq Nat /\ IsFiniteSet(Wid) /\ Wid # {}
    /\ Gap \in [Wid -> Nat]
    /\ {MaxFids, MaxUnacked, MaxUpdates, KeyframeInterval} \subseteq Nat \ {0}
    /\ Phase \in 0 .. KeyframeInterval - 1

NoFrame == [kind |-> "none"]
Nothing == [w \in {} |-> 0]     \* the empty view, mapping or set of operations

Visible(world) == {w \in Wid : world[w].hash # 0 /\ world[w].in}

(* A tracked entity as acknowledge() writes it: last_sent_tick stays 0.    *)
Tracked(fid, hash) == [fid |-> fid, hash |-> hash, last |-> 0]

(* A connection that has just been added: add_connection().                *)
NewConnection ==
    [epoch |-> 1, floor |-> 0, nextFid |-> 1, fid |-> Nothing,
     view |-> Nothing, acked |-> Nothing, base |-> 0, needs |-> TRUE,
     lastKey |-> 0, nextKey |-> 0, recs |-> <<>>, dirty |-> {},
     throttled |-> {}, cached |-> FALSE]

-----------------------------------------------------------------------------
(* What the connection remembers.                                          *)

(* The wids of unacked_wid_counts: those of some unacknowledged record.    *)
Unacked(c) == UNION {DOMAIN c.recs[i].ops : i \in DOMAIN c.recs}

(* Mappings for wids that have none, in ascending order.                   *)
MapFids(c, wids) ==
    LET new == wids \ DOMAIN c.fid
        fidOf(w) == c.nextFid + Cardinality({v \in new : v < w})
    IN  [c EXCEPT !.fid = [w \in DOMAIN c.fid \cup new |->
                               IF w \in new THEN fidOf(w) ELSE c.fid[w]],
                  !.nextFid = @ + Cardinality(new)]

\* Mutant: the numbering starts again, the mappings stay.
ResetKeepsMap(c, snap) ==
    [c EXCEPT !.epoch = @ + 1, !.floor = snap, !.nextFid = 1,
              !.view = Nothing, !.acked = Nothing, !.base = 0, !.needs = TRUE,
              !.recs = <<>>, !.dirty = {}]

(* reset_epoch(): the floor is the snapshot being projected.               *)
ResetEpoch(c, snap) ==
    [c EXCEPT !.epoch = @ + 1, !.floor = snap, !.nextFid = 1, !.fid = Nothing,
              !.view = Nothing, !.acked = Nothing, !.base = 0, !.needs = TRUE,
              !.recs = <<>>, !.dirty = {}]

(* record_sent() followed by evict_unacked(): the oldest records go, and   *)
(* losing one that was never acknowledged asks for a keyframe.             *)
Record(c, snap, ops) ==
    LET all     == Append(c.recs, [id |-> snap, ops |-> ops])
        surplus == Len(all) - MaxUnacked
    IN  IF surplus <= 0 THEN [c EXCEPT !.recs = all]
        ELSE [c EXCEPT !.recs = SubSeq(all, surplus + 1, Len(all)),
                       !.needs = @ \/ \E i \in 1 .. surplus : all[i].id > c.base]

(* The operations of one record carried into a view.                       *)
Replay(view, ops) ==
    LET gone == {w \in DOMAIN ops : ops[w].kind = "leave"}
    IN  [w \in (DOMAIN view \cup DOMAIN ops) \ gone |->
            IF w \in DOMAIN ops THEN Tracked(ops[w].fid, ops[w].hash) ELSE view[w]]

(* acknowledge(): the verdict, and the connection after it.                *)
AckVerdict(c, snap) ==
    IF snap <= c.floor THEN "epoch_mismatch"
    ELSE IF snap <= c.base THEN "duplicate"
    ELSE IF \A i \in DOMAIN c.recs : c.recs[i].id # snap THEN "unknown"
    ELSE "accepted"

Acknowledge(c, snap) ==
    LET n == CHOOSE i \in DOMAIN c.recs : c.recs[i].id = snap
        upTo[i \in 0 .. n] == IF i = 0 THEN c.acked ELSE Replay(upTo[i - 1], c.recs[i].ops)
    IN  [c EXCEPT !.acked = upTo[n], !.base = snap,
                  !.dirty = @ \cup UNION {DOMAIN c.recs[i].ops : i \in 1 .. n},
                  !.recs = SubSeq(@, n + 1, Len(@))]

-----------------------------------------------------------------------------
(* build_frame().                                                          *)

KeyframeDue(c, snap) ==
    IF c.nextKey # 0 THEN snap >= c.nextKey
                     ELSE snap + Phase >= c.lastKey + KeyframeInterval

(* A frame that would need more FIDs than an epoch has.  On a cache hit    *)
(* the code takes the number of unmapped visible wids to be zero.          *)
Exhausted(c, world) ==
    LET unmapped == IF c.cached THEN {} ELSE Visible(world) \ DOMAIN c.fid
    IN  Cardinality(DOMAIN c.fid) + Cardinality(unmapped) > MaxFids

(* The whole visible set; acknowledged entities outside it are recorded as *)
(* leaves so that the acknowledgement removes them.                        *)
BuildKeyframe(c, world, snap, forced) ==
    LET visible == Visible(world)
        m       == MapFids(c, visible)
        enters  == [w \in visible |-> [kind |-> "enter", fid |-> m.fid[w],
                                       hash |-> world[w].hash]]
        ops     == [w \in visible \cup DOMAIN c.acked |->
                       IF w \in visible THEN enters[w]
                       ELSE [kind |-> "leave", fid |-> c.acked[w].fid, hash |-> 0]]
        sent    == [m EXCEPT
                       !.view = [w \in visible |-> [fid |-> m.fid[w], last |-> snap,
                                                    hash |-> world[w].hash]],
                       !.dirty = {}, !.throttled = {}, !.needs = FALSE,
                       !.lastKey = snap,
                       !.nextKey = snap + KeyframeInterval - (IF forced THEN Phase ELSE 0)]
    IN  [conn  |-> Record(sent, snap, ops),
         frame |-> [kind |-> "keyframe", id |-> snap, epoch |-> c.epoch, base |-> 0,
                    ops |-> enters]]

(* The wids a delta looks at.  With the visible set taken from the cache,  *)
(* only those the code calls candidates.                                   *)
Candidates(c, world, changed) ==
    Unacked(c) \cup c.throttled \cup (changed \cap Visible(world))

Scanned(c, world, changed) ==
    IF c.cached THEN Candidates(c, world, changed)
                ELSE Visible(world) \cup DOMAIN c.acked

Entering(c, world) == Visible(world) \ DOMAIN c.acked
Leaving(c, world)  == DOMAIN c.acked \ Visible(world)
Stale(c, world)    == {w \in Visible(world) \cap DOMAIN c.acked :
                          c.acked[w].hash # world[w].hash}

LastSent(c, w) == IF w \in DOMAIN c.view THEN c.view[w].last ELSE 0

(* Updates held back by the frequency of their class.                      *)
HeldBack(c, snap, wids) ==
    {w \in wids : Gap[w] # 0 /\ snap - LastSent(c, w) < Gap[w]}

(* The updates kept when there are more than a frame may carry.            *)
Kept(c, due) ==
    {w \in due : Cardinality({v \in due : c.acked[v].fid < c.acked[w].fid}) < MaxUpdates}

\* Mutant: what an acknowledgement advanced is forgotten.
ConvergeUnacked(c, framed, leaves) ==
    LET back == (Unacked(c) \cap DOMAIN c.acked) \ (DOMAIN framed \cup leaves)
        kept == DOMAIN c.view \ (Unacked(c) \cup DOMAIN framed \cup leaves)
    IN  [w \in DOMAIN framed \cup back \cup kept |->
            IF w \in DOMAIN framed THEN framed[w]
            ELSE IF w \in back THEN c.acked[w] ELSE c.view[w]]

(* current_view brought to "acknowledged, then this frame": only the wids  *)
(* an acknowledgement or an unacknowledged record touched are looked at.   *)
Converge(c, framed, leaves) ==
    LET touched == c.dirty \cup Unacked(c)
        back    == (touched \cap DOMAIN c.acked) \ (DOMAIN framed \cup leaves)
        kept    == DOMAIN c.view \ (touched \cup DOMAIN framed \cup leaves)
    IN  [w \in DOMAIN framed \cup back \cup kept |->
            IF w \in DOMAIN framed THEN framed[w]
            ELSE IF w \in back THEN c.acked[w] ELSE c.view[w]]

(* A delta relative to the acknowledged view, or no frame at all.          *)
BuildDelta(c, world, snap, changed) ==
    LET scan   == Scanned(c, world, changed)
        enters == Entering(c, world) \cap scan
        leaves == Leaving(c, world) \cap scan
        stale  == Stale(c, world) \cap scan
        held   == HeldBack(c, snap, stale)
        due    == stale \ held
        sent   == Kept(c, due)
        m      == [MapFids(c, enters) EXCEPT !.throttled = held]
        fid(w) == IF w \in enters THEN m.fid[w] ELSE c.acked[w].fid
        now(w) == [fid |-> fid(w), hash |-> world[w].hash, last |-> snap]
        framed == [w \in enters \cup due |-> IF w \in enters \cup sent THEN now(w)
                                             ELSE c.acked[w]]
        ops    == [w \in enters \cup leaves \cup sent |->
                      [kind |-> IF w \in enters THEN "enter"
                                ELSE IF w \in leaves THEN "leave" ELSE "update",
                       fid  |-> fid(w),
                       hash |-> IF w \in leaves THEN 0 ELSE world[w].hash]]
    IN  IF enters \cup leaves \cup due = {}
        THEN [conn |-> m, frame |-> NoFrame]
        ELSE [conn  |-> Record([m EXCEPT !.view = Converge(m, framed, leaves), !.dirty = {}],
                               snap, ops),
              frame |-> [kind |-> "delta", id |-> snap, epoch |-> c.epoch, base |-> c.base,
                         ops |-> ops]]

(* build_frame(); changed are the wids whose hash this step changed.  The  *)
(* visible set it used is the cached one of the next step.                 *)
BuildFrame(c, world, snap, changed) ==
    LET exhausted == Exhausted(c, world)
        forced    == c.needs \/ exhausted
        start     == IF exhausted THEN ResetEpoch(c, snap) ELSE c
        built     == IF forced \/ KeyframeDue(c, snap)
                     THEN BuildKeyframe(start, world, snap, forced)
                     ELSE BuildDelta(start, world, snap, changed)
    IN  [built EXCEPT !.conn.cached = TRUE]

=============================================================================
