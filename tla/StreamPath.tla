------------------------------ MODULE StreamPath ------------------------------
(***************************************************************************)
(* One stream connection from the world to a client's replica: the         *)
(* projection of every tick, the pump that queues its frame, the state     *)
(* queue that merges and drops frames, the ordered wire, the client that   *)
(* applies frames and acknowledges them, and the acknowledgements coming   *)
(* back.  The daemon's loop is step, control requests, pump, poll.         *)
(***************************************************************************)
EXTENDS Projection, FiniteSetsExt

CONSTANTS
    Hash,         \* hashes a projection can have
    MaxQueue,     \* max_state_queue_bytes, in entries of frames
    AckTimeout,   \* ack_timeout_seconds, in ticks
    MaxSnap,      \* bound of the model: ticks
    MaxChanges,   \* bound of the model: changes of the world and requests
    MaxWire       \* bound of the model: frames in the transport's buffers

VARIABLES
    world, snap,  \* the world and latest_snapshot_id_
    conn,         \* ConnectionProjection, throttle_pending_ and the visible cache
    pending,      \* pending_frames_[id]
    queue,        \* StateQueue::frames_, in the order of their snapshots
    resync,       \* StateQueue::resync_required_
    dead,         \* must_disconnect
    lastAck,      \* last_ack_tick, and last_pump_tick_ is snap once pumped
    phase,        \* where the daemon's loop is
    wire, acks,   \* frames to the client, acknowledgements to the server
    replica,      \* the client's ReplicaAccumulator
    got,          \* history: the last keyframe applied, the epoch last applied
    lost,         \* history: a frame was dropped and no keyframe queued since
    changed,      \* history: the last snapshot that saw another visible world
    changes       \* changes made, for the bound

server == <<conn, pending, queue, resync, dead, lastAck>>
client == <<replica, got>>
vars   == <<world, snap, server, phase, wire, acks, client, lost, changed, changes>>

Absent == [hash |-> 0, in |-> FALSE]
Places == {Absent} \cup [hash : Hash, in : BOOLEAN]
Start  == {Absent} \cup [hash : {1}, in : BOOLEAN]    \* what it is first has number 1

Init ==
    /\ world \in [Wid -> Start] /\ snap = 0
    /\ conn = NewConnection /\ pending = NoFrame
    /\ queue = {} /\ resync = FALSE /\ dead = FALSE /\ lastAck = 0
    /\ phase = "step" /\ wire = <<>> /\ acks = <<>>
    /\ replica = Nothing /\ got = [key |-> 0, keyEpoch |-> 0]
    /\ lost = FALSE /\ changed = 0 /\ changes = 0

-----------------------------------------------------------------------------
(* The daemon's loop.                                                      *)

(* A property change leaves the spatial index alone; creating, destroying  *)
(* or moving an object changes its revision and with it the cached set.    *)
Moved(next) ==
    \E w \in Wid : \/ (world[w].hash = 0) # (next[w].hash = 0)
                   \/ world[w].in # next[w].in
Dirty(next) == {w \in Wid : world[w].hash # next[w].hash}

(* on_projection() after the tick's systems took the world to next.        *)
Project(next, moved) ==
    LET c     == [conn EXCEPT !.cached = @ /\ ~moved]
        built == BuildFrame(c, next, snap + 1, Dirty(next))
    IN  /\ conn' = built.conn /\ pending' = built.frame
        /\ world' = next /\ snap' = snap + 1
        /\ changed' = IF next = world THEN changed ELSE snap + 1

Step ==
    /\ phase = "step" /\ snap < MaxSnap /\ ~dead
    /\ phase' = "control"
    /\ \/ /\ Project(world, FALSE)
          /\ UNCHANGED changes
       \/ \E w \in Wid, p \in Places :
              /\ changes < MaxChanges /\ p # world[w]
              /\ \/ Project([world EXCEPT ![w] = p], Moved([world EXCEPT ![w] = p]))
                 \/ /\ p.hash # 0 /\ world[w].hash # 0 /\ p.hash # world[w].hash
                    /\ Project([world EXCEPT ![w] = p], TRUE)
              /\ changes' = changes + 1
    /\ UNCHANGED <<queue, resync, dead, lastAck, wire, acks, client, lost>>

(* request_keyframe(), over the control service or the stream itself.      *)
RequestKeyframe ==
    /\ phase = "control" /\ ~conn.needs /\ changes < MaxChanges
    /\ conn' = [conn EXCEPT !.needs = TRUE]
    /\ changes' = changes + 1
    /\ UNCHANGED <<world, snap, pending, queue, resync, dead, lastAck, phase, wire, acks,
                   client, lost, changed>>

(* update_subscription(): other bounds, seen by the next projection.       *)
UpdateSubscription ==
    /\ phase = "control" /\ changes < MaxChanges
    /\ \E in \in [Wid -> BOOLEAN] :
           LET next == [w \in Wid |-> IF world[w].hash = 0 THEN Absent
                                      ELSE [world[w] EXCEPT !.in = in[w]]]
           IN  /\ next # world
               /\ world' = next
    /\ conn' = [conn EXCEPT !.needs = TRUE, !.cached = FALSE]
    /\ changed' = snap + 1 /\ changes' = changes + 1
    /\ UNCHANGED <<snap, pending, queue, resync, dead, lastAck, phase, wire, acks, client,
                   lost>>

Weight(f) == 1 + Cardinality(DOMAIN f.ops)
Bytes(q)  == MapThenSumSet(Weight, q)

(* StateQueue::push: merge, append, drop from the front.  Frames are pushed*)
(* in the order of their snapshots, one of each.                           *)
Merged(q, f) ==
    IF f.kind = "keyframe" THEN {} ELSE {g \in q : g.kind = "keyframe" \/ g.base # f.base}
Shrunk(q) ==
    {f \in q : LET from == {g \in q : g.id >= f.id} IN from = {f} \/ Bytes(from) <= MaxQueue}
Push(q, f) == Shrunk(Merged(q, f) \cup {f})

\* Mutant: the flag is cleared without a request when a frame is pending.
ResyncedWhenIdle == [conn EXCEPT !.needs = @ \/ (resync /\ pending = NoFrame)]

(* A resync seen becomes a keyframe request; the flag is cleared.          *)
Resynced == [conn EXCEPT !.needs = @ \/ resync]

(* pump(): the resync check, then the pending frame is queued, which may   *)
(* ask for a resync again, then the acknowledgement timeout.               *)
Pump ==
    /\ phase = "control" /\ phase' = "poll"
    /\ conn' = Resynced
    /\ pending' = NoFrame
    /\ \/ /\ pending = NoFrame
          /\ resync' = FALSE /\ UNCHANGED <<queue, lost>>
       \/ /\ pending # NoFrame
          /\ queue' = Push(queue, pending)
          /\ LET dropped == queue' # Merged(queue, pending) \cup {pending}
             IN  /\ resync' = dropped
                 /\ lost' = (dropped \/ (lost /\ pending.kind # "keyframe"))
    /\ dead' = (lastAck # 0 /\ snap - lastAck > AckTimeout)
    /\ UNCHANGED <<world, snap, lastAck, wire, acks, client, changed, changes>>

(* flush: next_outbound() as long as the connection takes frames.          *)
First(q) == CHOOSE f \in q : \A g \in q : f.id <= g.id

Send ==
    /\ phase = "poll" /\ ~dead /\ queue # {} /\ Len(wire) < MaxWire
    /\ wire' = Append(wire, First(queue)) /\ queue' = queue \ {First(queue)}
    /\ UNCHANGED <<world, snap, conn, pending, resync, dead, lastAck, phase, acks, client,
                   lost, changed, changes>>

(* inbound_ack(): a foreign epoch, a snapshot at or below the floor or one *)
(* that no record remembers ends the connection.                           *)
InboundAck ==
    /\ phase = "poll" /\ ~dead /\ acks # <<>>
    /\ acks' = Tail(acks)
    /\ LET ack     == Head(acks)
           verdict == IF ack.epoch # conn.epoch THEN "epoch_mismatch"
                      ELSE AckVerdict(conn, ack.id)
       IN  /\ dead' = (verdict \in {"epoch_mismatch", "unknown"})
           /\ conn' = IF verdict = "accepted" THEN Acknowledge(conn, ack.id) ELSE conn
           /\ lastAck' = IF verdict = "accepted" THEN snap ELSE lastAck
    /\ UNCHANGED <<world, snap, pending, queue, resync, phase, wire, client, lost, changed,
                   changes>>

EndPoll ==
    /\ phase = "poll" /\ phase' = "step"
    /\ UNCHANGED <<world, snap, server, wire, acks, client, lost, changed, changes>>

-----------------------------------------------------------------------------
(* The client: ReplicaAccumulator::apply, then an acknowledgement.         *)

Held(ops) == [w \in {v \in DOMAIN ops : ops[v].kind # "leave"} |->
                 [fid |-> ops[w].fid, hash |-> ops[w].hash]]

\* Mutant: a keyframe is laid over the replica instead of replacing it.
AppliedOver(r, f) ==
    [w \in (DOMAIN r \cup DOMAIN f.ops) \ (DOMAIN f.ops \ DOMAIN Held(f.ops)) |->
        IF w \in DOMAIN f.ops THEN Held(f.ops)[w] ELSE r[w]]

Applied(r, f) ==
    IF f.kind = "keyframe" THEN Held(f.ops)
    ELSE [w \in (DOMAIN r \cup DOMAIN f.ops) \ (DOMAIN f.ops \ DOMAIN Held(f.ops)) |->
             IF w \in DOMAIN f.ops THEN Held(f.ops)[w] ELSE r[w]]

Receive ==
    /\ wire # <<>> /\ wire' = Tail(wire)
    /\ LET f == Head(wire)
       IN  /\ replica' = Applied(replica, f)
           /\ got' = IF f.kind = "keyframe" THEN [key |-> f.id, keyEpoch |-> f.epoch] ELSE got
           /\ acks' = Append(acks, [epoch |-> f.epoch, id |-> f.id])
    /\ UNCHANGED <<world, snap, server, phase, lost, changed, changes>>

Next ==
    \/ Step \/ RequestKeyframe \/ UpdateSubscription \/ Pump \/ Send \/ InboundAck \/ EndPoll
    \/ Receive

Spec == Init /\ [][Next]_vars

-----------------------------------------------------------------------------
(* Properties.                                                             *)

Entry == [fid : Nat, hash : Hash]
Kind  == {"enter", "update", "leave"}

(* Types, and the shape of a connection: its records are in order above    *)
(* the acknowledged baseline and never more than max_unacked_frames.       *)
TypeOK ==
    /\ world \in [Wid -> Places] /\ snap \in 0 .. MaxSnap
    /\ phase \in {"step", "control", "poll"}
    /\ conn.epoch \in Nat \ {0} /\ conn.base <= snap
    /\ Len(conn.recs) <= MaxUnacked
    /\ \A i \in DOMAIN conn.recs :
           /\ conn.recs[i].id \in conn.base + 1 .. snap
           /\ \A w \in DOMAIN conn.recs[i].ops : conn.recs[i].ops[w].kind \in Kind
           /\ i > 1 => conn.recs[i - 1].id < conn.recs[i].id
    /\ DOMAIN conn.acked \subseteq DOMAIN conn.fid
    /\ {dead, resync, lost} \subseteq BOOLEAN
    /\ \A w \in DOMAIN replica : replica[w] \in Entry

(* A keyframe heals: once a client has applied a keyframe projected after  *)
(* the last change of its visible world, its replica is that visible       *)
(* world, whatever it missed or kept wrongly before and whatever deltas,   *)
(* computed from older acknowledged views, it applies after it.            *)
KeyframeHeals ==
    got.key # 0 /\ got.key >= changed =>
        /\ DOMAIN replica = Visible(world)
        /\ \A w \in DOMAIN replica : replica[w].hash = world[w].hash

(* M4.md rule "FIDs are not reused within an epoch": whatever was dropped, *)
(* merged or acknowledged, a client of the server's epoch names every      *)
(* entity by the FID the server maps it to, and no two by the same.        *)
ReplicaFidsAgree ==
    got.keyEpoch = conn.epoch =>
        \A w \in DOMAIN replica :
            /\ w \in DOMAIN conn.fid /\ replica[w].fid = conn.fid[w]
            /\ \A v \in DOMAIN replica \ {w} : replica[v].fid # replica[w].fid

(* A frame the state queue dropped is always on its way to being repaired: *)
(* a resync is flagged, a keyframe is asked for, or one is pending.        *)
DropIsRepaired ==
    lost => resync \/ conn.needs \/ pending.kind = "keyframe"

(* The comment on the incremental convergence of current_view: after every *)
(* delta it equals the acknowledged view with this frame's operations.     *)
ViewIsAckedPlusFrame ==
    phase = "control" /\ pending.kind = "delta" =>
        LET whole == Replay(conn.acked, pending.ops)
        IN  /\ DOMAIN conn.view = DOMAIN whole
            /\ \A w \in DOMAIN whole : /\ conn.view[w].fid = whole[w].fid
                                       /\ conn.view[w].hash = whole[w].hash

(* engine.cpp:790: on a cache hit a full loop over the visible entities    *)
(* would skip every wid that is not a candidate, so the result is equal.   *)
Missed(c) ==
    (Entering(c, world) \cup Leaving(c, world) \cup Stale(c, world)) \ Candidates(c, world, {})
CandidatesSuffice ==
    phase = "poll" /\ conn.cached /\ ~conn.needs /\ ~KeyframeDue(conn, snap + 1)
        => Missed(conn) = {}

(* M4.md rule 5: an acknowledgement of a snapshot sent in this epoch is    *)
(* accepted, so every remembered record can be acknowledged.               *)
SentCanBeAcked ==
    \A i \in DOMAIN conn.recs : AckVerdict(conn, conn.recs[i].id) = "accepted"

(* M4.md rule 8: a client that applied everything sent holds the view the  *)
(* server hashes for the connection.                                       *)
ReplicaMatchesView ==
    phase = "poll" /\ wire = <<>> /\ queue = {} /\ ~lost =>
        /\ DOMAIN replica = DOMAIN conn.view
        /\ \A w \in DOMAIN replica : replica[w].hash = conn.view[w].hash

-----------------------------------------------------------------------------
(* What the proofs need: how the properties above are kept.                *)

(* Of a connection c at snapshot n: its shape; its records are in order    *)
(* above the acknowledged baseline.                                        *)
Shaped(c) ==
    /\ DOMAIN c = DOMAIN NewConnection
    /\ c.epoch \in Nat /\ c.nextFid \in Nat /\ c.base \in Nat /\ c.needs \in BOOLEAN
    /\ c.recs \in Seq({c.recs[i] : i \in DOMAIN c.recs})
RecordsInOrder(c, n) ==
    /\ c.base <= n
    /\ \A i \in DOMAIN c.recs :
          /\ c.recs[i].id \in c.base + 1 .. n
          /\ \A j \in DOMAIN c.recs : i < j => c.recs[i].id < c.recs[j].id

(* One numbering of entities for mapping, acknowledged view and records.   *)
Named(c, w, n)   == w \in DOMAIN c.fid /\ c.fid[w] = n
NamesAll(c, ops) == \A w \in DOMAIN ops : ops[w].kind # "leave" => Named(c, w, ops[w].fid)
Numbered(c) ==
    /\ \A w \in DOMAIN c.fid : c.fid[w] \in 0 .. c.nextFid - 1
    /\ \A v, w \in DOMAIN c.fid : c.fid[v] = c.fid[w] => v = w
    /\ \A w \in DOMAIN c.acked : Named(c, w, c.acked[w].fid)
    /\ \A i \in DOMAIN c.recs : NamesAll(c, c.recs[i].ops)

(* Off the wids that a record or an acknowledgement touched, the view sent *)
(* is the acknowledged one, as long as no keyframe is asked for.           *)
SameEntry(view, acked, w) ==
    /\ w \in DOMAIN view <=> w \in DOMAIN acked
    /\ w \in DOMAIN view => view[w].fid = acked[w].fid /\ view[w].hash = acked[w].hash
ViewFollows(c) ==
    ~c.needs => \A w \in (DOMAIN c.view \cup DOMAIN c.acked) \ (c.dirty \cup Unacked(c)) :
                    SameEntry(c.view, c.acked, w)

Connected == Shaped(conn) /\ RecordsInOrder(conn, snap) /\ Numbered(conn) /\ ViewFollows(conn)

(* Frames travel in the order of their snapshots, none comes from an epoch *)
(* before that of the last keyframe applied.                               *)
OnWire   == {wire[i] : i \in DOMAIN wire}
InFlight == OnWire \cup queue \cup ({pending} \ {NoFrame})
FramesInOrder ==
    /\ \A f \in InFlight : /\ f.kind \in {"keyframe", "delta"}
                           /\ f.id \in got.key + 1 .. snap
                           /\ f.epoch \in got.keyEpoch .. conn.epoch
    /\ \A f, g \in InFlight : f.id <= g.id => f.epoch <= g.epoch
    /\ \A i, j \in DOMAIN wire : i < j => wire[i].id < wire[j].id
    /\ \A f \in OnWire, g \in queue : f.id < g.id
    /\ \A f, g \in queue : f.id = g.id => f = g
    /\ pending # NoFrame => /\ phase = "control"
                            /\ pending.id = snap /\ pending.epoch = conn.epoch
                            /\ \A f \in OnWire \cup queue : f.id < snap
Counted ==
    /\ snap \in Nat /\ got.key \in 0 .. snap /\ got.keyEpoch \in 0 .. conn.epoch
    /\ {resync, lost} \subseteq BOOLEAN
    /\ wire \in Seq(OnWire)

(* What was projected since the world last changed shows that world.       *)
Shows(f, wd) ==
    /\ f.kind = "keyframe" => DOMAIN f.ops = Visible(wd)
    /\ \A w \in DOMAIN f.ops :
          IF f.ops[w].kind = "leave" THEN w \notin Visible(wd)
          ELSE w \in Visible(wd) /\ f.ops[w].hash = wd[w].hash
FramesShowTheWorld ==
    /\ changed \in 0 .. snap + 1
    /\ \A f \in InFlight : f.id >= changed => Shows(f, world)

(* Frames of the epoch, and a replica that has its keyframe, use its names.*)
FidsAgree ==
    /\ \A f \in InFlight : f.epoch = conn.epoch => NamesAll(conn, f.ops)
    /\ got.keyEpoch = conn.epoch => \A w \in DOMAIN replica : Named(conn, w, replica[w].fid)

PathInv ==
    /\ Counted /\ Connected /\ FramesInOrder
    /\ FramesShowTheWorld /\ KeyframeHeals
    /\ FidsAgree
    /\ DropIsRepaired
    /\ ViewIsAckedPlusFrame
===============================================================================
