---------------------------- MODULE ClientStream ----------------------------
(***************************************************************************)
(* The clients of tools/gw-stream-client at the end of a stream: the       *)
(* reference client, which runs one closed loop from the session to the    *)
(* verdict of one command; the thin client, which only acknowledges, with  *)
(* its reads, writes and pauses on two threads; and a viewer, a program on *)
(* the same library that feeds an interpolation buffer and asks for        *)
(* keyframes.  `kind` is the one attached.  Frames go through WireCodec.   *)
(*                                                                         *)
(* The gateway is here what the clients see of it: one frame a tick,       *)
(* relative to the view acknowledged last, receipts before frames.  Its    *)
(* queues, epochs and evictions are in StreamPath, its sockets in          *)
(* StreamTransport, its sessions in Sessions.                              *)
(***************************************************************************)
EXTENDS WireCodec, SequencesExt

CONSTANTS
    Wid, Target,    \* entities; the one the reference client writes
    Kinds,          \* kinds of clients to look at
    Delay,          \* interpolation delay, in ticks
    MaxFrames,      \* max_frames of the reference client
    HeartbeatTicks, \* heartbeat_interval_seconds, in ticks
    Changing,       \* bound of the model: entities that change
    MaxTick, MaxEdits, MaxRequests, MaxPauses   \* bounds of the model

(* InterpolationBuffer's constructor takes a negative delay for none.      *)
ASSUME PlaybackDelay == Delay \in Nat

VARIABLES
    kind,       \* the client of this behaviour
    world,      \* the projected entities the connection may see
    srv,        \* [tick, attached, base, view, unacked, key, beat, edits]
    cmd,        \* the reference client's command in the gateway
    down, up,   \* messages under way to the client, and to the gateway
    cli,        \* the program and its replica
    thin,       \* a ThinConnection
    buf         \* InterpolationBuffer::snapshots_

vars == <<kind, world, srv, cmd, down, up, cli, thin, buf>>

Nothing == [w \in {} |-> 0]
Plain   == [ver |-> 1, val |-> 0, type |-> 1, text |-> 1, props |-> 1, state |-> 0,
            rels |-> 0, attrs |-> FALSE]

-----------------------------------------------------------------------------
(* The gateway.                                                            *)

(* What a command or a system of the simulation does to the world.         *)
Touched(e) == [e EXCEPT !.ver = 2, !.val = 1 - @]

(* Bound of the model: the thin client does not look into the entities, so *)
(* one change, to a text no frame can carry, is all it meets.              *)
Edits == IF kind = "thin" THEN {"none", "text"}
         ELSE {"none", "create", "destroy", "touch", "bag", "text", "relate"}

Edited(now, edit, w) ==
    CASE edit = "none"    -> now
      [] edit = "create"  -> [v \in DOMAIN now \cup {w} |-> IF v = w THEN Plain ELSE now[v]]
      [] edit = "destroy" -> Restrict(now, DOMAIN now \ {w})
      [] edit = "touch"   -> [now EXCEPT ![w] = Touched(@)]
      [] edit = "bag"     -> [now EXCEPT ![w].props = @ + 1, ![w].ver = 2]
      [] edit = "text"    -> [now EXCEPT ![w].text = 2, ![w].ver = 2]
      [] edit = "relate"  -> [now EXCEPT ![w].rels = 1, ![w].attrs = TRUE]

CanEdit(edit, w) ==
    CASE edit = "none"   -> TRUE
      [] edit = "create" -> w \notin DOMAIN world
      [] edit = "bag"    -> w \in DOMAIN world /\ world[w].props <= MaxProperties
      [] OTHER           -> w \in DOMAIN world

(* CommandBuffer::apply() of the one command, which expects version 1.     *)
Verdict ==
    IF cmd # "pending" THEN cmd
    ELSE IF Target \notin DOMAIN world THEN "missing"
    ELSE IF world[Target].ver # 1 THEN "conflict" ELSE "applied"

Executed == IF Verdict # cmd /\ Verdict = "applied"
            THEN [world EXCEPT ![Target] = Touched(@)] ELSE world

StateFrame(now, key) ==
    LET base == IF key THEN Nothing ELSE srv.view
        both == DOMAIN now \cap DOMAIN base
    IN  [kind    |-> IF key THEN "keyframe" ELSE "delta",
         snap    |-> srv.tick + 1,
         base    |-> IF key THEN 0 ELSE srv.base,
         enters  |-> Restrict(now, DOMAIN now \ DOMAIN base),
         updates |-> Restrict(now, {w \in both : now[w] # base[w]}),
         leaves  |-> DOMAIN base \ DOMAIN now]

Message(f) == [bytes |-> EncodeStateFrame(f), frame |-> f]
Reliable(b) == [bytes |-> b, frame |-> b.body]

Receipt == IF Verdict = "applied" THEN EncodeReceipt("applied") ELSE EncodeReceipt("rejected")

(* One round of the daemon: the step, the pump, the transport.  A frame    *)
(* the encoder refuses goes out as an empty message and counts as sent.    *)
Tick(edit, w, key) ==
    /\ srv.tick < MaxTick
    /\ kind = "thin" => thin.phase = "up"
    /\ edit # "none" => cmd # "pending" /\ srv.edits < MaxEdits
    /\ CanEdit(edit, w)
    /\ LET now   == Edited(Executed, edit, w)
           frame == StateFrame(now, key \/ srv.key)
           state == srv.attached /\ (key \/ srv.key \/ Changes(frame) > 0)
           first == IF Verdict # cmd THEN <<Reliable(Receipt)>> ELSE <<>>
           beat  == ~state /\ srv.attached /\ srv.tick + 1 - srv.beat >= HeartbeatTicks
           alive == IF beat THEN <<Reliable(EncodeHeartbeat)>> ELSE <<>>
       IN  /\ world' = now
           /\ cmd' = Verdict
           /\ srv' = [srv EXCEPT
                        !.tick = @ + 1, !.key = @ /\ ~state,
                        !.beat = IF beat THEN srv.tick + 1 ELSE @,
                        !.edits = IF edit = "none" THEN @ ELSE @ + 1,
                        !.unacked = IF state THEN Append(@, [snap |-> frame.snap, view |-> now]) ELSE @]
           /\ down' = IF ~srv.attached THEN down
                      ELSE down \o first \o alive \o (IF state THEN <<Message(frame)>> ELSE <<>>)
    /\ UNCHANGED <<kind, up, cli, thin, buf>>

(* The transport's read: an acknowledgement, a request, or neither, which  *)
(* is answered and closed.                                                 *)
ServerReads ==
    /\ up # <<>> /\ srv.attached
    /\ LET b == Head(up)
           c == b.body
       IN  IF DecodeClientControl(b) # ""
           THEN /\ srv' = [srv EXCEPT !.attached = FALSE]
                /\ down' = Append(down, Reliable(EncodeProtocolError(DecodeClientControl(b))))
           ELSE /\ UNCHANGED down
                /\ IF c.kind = "request" THEN srv' = [srv EXCEPT !.key = TRUE]
                   ELSE IF c.snap <= srv.base THEN UNCHANGED srv
                   ELSE IF \A i \in DOMAIN srv.unacked : srv.unacked[i].snap # c.snap
                   THEN srv' = [srv EXCEPT !.attached = FALSE]
                   ELSE srv' = [srv EXCEPT
                                  !.base = c.snap,
                                  !.view = (CHOOSE u \in Range(srv.unacked) : u.snap = c.snap).view,
                                  !.unacked = SelectSeq(@, LAMBDA u : u.snap > c.snap)]
    /\ up' = Tail(up)
    /\ UNCHANGED <<kind, world, cmd, cli, thin, buf>>

(* The gateway ends the connection: a slow client, or a shutdown.          *)
ServerCloses ==
    /\ srv.attached /\ srv' = [srv EXCEPT !.attached = FALSE]
    /\ UNCHANGED <<kind, world, cmd, down, up, cli, thin, buf>>

-----------------------------------------------------------------------------
(* The replica.                                                            *)

(* wire_entity_hash(): every field; no relation has attributes.            *)
WireEntityHash(e) == <<e.ver, e.val, e.type, e.text, e.props, e.state, e.rels, FALSE>>

(* The hash the gateway has of the same entity.                            *)
CanonicalHash(e) == <<e.ver, e.val, e.type, e.text, e.props, e.state, e.rels, e.attrs>>

Hashed(es) == [w \in DOMAIN es |-> WireEntityHash(es[w])]

(* map[wid] = ... for every entity.                                        *)
Put(r, es) == [w \in DOMAIN r \cup DOMAIN es |-> IF w \in DOMAIN es THEN es[w] ELSE r[w]]

ApplyKeyframe(f) == Hashed(f.enters)

(* apply_delta(): leaves, enters, updates.                                 *)
ApplyDelta(r, f) ==
    Put(Put(Restrict(r, DOMAIN r \ f.leaves), Hashed(f.enters)), Hashed(f.updates))

Applied(r, f) == IF f.kind = "keyframe" THEN ApplyKeyframe(f) ELSE ApplyDelta(r, f)

(* The same from the frames as the gateway made them (history).            *)
Meant(r, f) ==
    IF f.kind = "keyframe" THEN f.enters
    ELSE Put(Put(Restrict(r, DOMAIN r \ f.leaves), f.enters), f.updates)

Positions(es) == [w \in DOMAIN es |-> es[w].val]

\* Mutant: the snapshot that starts the bracket goes as well.
RetainedShort(b, s) ==
    LET all  == Append(b, s)
        keep == {i \in DOMAIN all : all[i].time > s.time - Delay} \cup {Len(all)}
    IN  SubSeq(all, CHOOSE i \in keep : \A j \in keep : i <= j, Len(all))

(* InterpolationBuffer::retain(): what is not needed to the left of the    *)
(* time to render goes.                                                    *)
Retained(b, s) ==
    IF b # <<>> /\ s.time <= Last(b).time THEN b
    ELSE LET all  == Append(b, s)
             keep == {1} \cup {i \in DOMAIN all : all[i].time <= s.time - Delay}
         IN  SubSeq(all, CHOOSE i \in keep : \A j \in keep : i >= j, Len(all))

(* InterpolationBuffer::observe().                                         *)
Observed(b, f) ==
    LET last == IF f.kind = "keyframe" \/ b = <<>> THEN Nothing ELSE Last(b).pos
        left == Restrict(last, DOMAIN last \ f.leaves)
        pos  == Put(Put(left, Positions(f.enters)), Positions(f.updates))
    IN  Retained(b, [time |-> f.snap, pos |-> pos])

-----------------------------------------------------------------------------
(* The blocking client, and the program of main().                         *)

Ended(why) == [cli EXCEPT !.pc = "done", !.exit = why]

Calls == <<"open_session", "update_subscription", "acquire_ownership", "connect_stream">>

(* A control call: answered, refused, or given up after io_timeout.        *)
Call(ok) ==
    /\ kind = "reference"
    /\ \E i \in 1 .. Len(Calls) - 1 :
          /\ cli.pc = Calls[i]
          /\ cli' = IF ok THEN [cli EXCEPT !.pc = Calls[i + 1]] ELSE Ended(Calls[i])
    /\ UNCHANGED <<kind, world, srv, cmd, down, up, thin, buf>>

(* connect_stream(): the handshake with the ticket; it may be given up     *)
(* after io_timeout although the gateway has served it.                    *)
Connect(ok, served) ==
    /\ kind = "reference" /\ cli.pc = "connect_stream"
    /\ ok => served
    /\ cli' = IF ok THEN [cli EXCEPT !.pc = "read"] ELSE Ended("connect_stream")
    /\ srv' = IF served THEN [srv EXCEPT !.attached = TRUE, !.key = TRUE] ELSE srv
    /\ UNCHANGED <<kind, world, cmd, down, up, thin, buf>>

Ack(f) == EncodeClientControl([kind |-> "ack", snap |-> f.snap, text |-> 0])

(* A state frame applied to the replica.                                   *)
Held(f, wire) ==
    [cli EXCEPT !.replica = Applied(@, wire), !.meant = Meant(@, f),
                !.got = @ \/ f.kind = "keyframe",
                !.saw = @ \/ Target \in DOMAIN f.updates,
                !.first = IF @ = 0 THEN f.snap ELSE @]

(* The bottom of main()'s loop.                                            *)
Looped(c) ==
    IF c.got /\ c.applied /\ c.saw THEN [c EXCEPT !.pc = "done", !.exit = "ok"]
    ELSE IF c.frames = MaxFrames THEN [c EXCEPT !.pc = "done", !.exit = "incomplete"]
    ELSE [c EXCEPT !.pc = "read"]

\* Mutant: any receipt but a rejection ends the wait.
AfterFrameEager(c) ==
    IF c.got /\ ~c.submitted /\ DOMAIN c.replica # {} THEN [c EXCEPT !.pc = "submit"]
    ELSE Looped([c EXCEPT !.applied = c.submitted])

(* What follows a frame: the command, once there is something to see.      *)
AfterFrame(c) ==
    IF c.got /\ ~c.submitted /\ DOMAIN c.replica # {} THEN [c EXCEPT !.pc = "submit"]
    ELSE Looped(c)

(* read_frame() and the body of the loop.                                  *)
Read ==
    /\ kind = "reference" /\ cli.pc = "read" /\ down # <<>>
    /\ LET m == Head(down)
           f == m.bytes.body
           n == [cli EXCEPT !.frames = @ + 1]
       IN  IF DecodeServerFrame(m.bytes) # ""
           THEN cli' = Ended("stream") /\ UNCHANGED up
           ELSE CASE f.kind \in {"keyframe", "delta"} ->
                        LET h == [Held(m.frame, f) EXCEPT !.frames = @ + 1]
                        IN  \/ cli' = AfterFrame(h) /\ up' = Append(up, Ack(f))
                            \/ /\ ~srv.attached    \* the acknowledgement cannot be written
                               /\ cli' = [h EXCEPT !.pc = "done", !.exit = "stream"]
                               /\ UNCHANGED up
                  [] f.kind = "receipt" ->
                        /\ cli' = IF f.status = "rejected" THEN Ended("receipt")
                                  ELSE AfterFrame([n EXCEPT !.applied = @ \/ f.status = "applied"])
                        /\ UNCHANGED up
                  [] f.kind = "error" -> cli' = Ended("stream") /\ UNCHANGED up
                  [] OTHER -> cli' = AfterFrame(n) /\ UNCHANGED up   \* a heartbeat
    /\ down' = Tail(down)
    /\ UNCHANGED <<kind, world, srv, cmd, thin, buf>>

(* A read that finds nothing for io_timeout, or the connection closed.     *)
ReadFails ==
    /\ kind \in {"reference", "viewer"} /\ cli.pc = "read" /\ down = <<>>
    /\ cli' = Ended("stream")
    /\ UNCHANGED <<kind, world, srv, cmd, down, up, thin, buf>>

(* submit_set_property(): accepted; refused; or given up, served or not.   *)
Submit(answer) ==
    /\ kind = "reference" /\ cli.pc = "submit"
    /\ CASE answer = "accepted" -> /\ cmd' = "pending"
                                   /\ cli' = Looped([cli EXCEPT !.submitted = TRUE])
         [] answer = "refused"  -> cmd' = "refused" /\ cli' = Ended("submit")
         [] answer = "late"     -> cmd' = "pending" /\ cli' = Ended("submit")
         [] answer = "lost"     -> cmd' = "none" /\ cli' = Ended("submit")
    /\ UNCHANGED <<kind, world, srv, down, up, thin, buf>>

(* The viewer: every frame to the replica and to the buffer.               *)
View ==
    /\ kind = "viewer" /\ cli.pc = "read" /\ down # <<>>
    /\ LET m == Head(down)
           f == m.bytes.body
       IN  IF DecodeServerFrame(m.bytes) # "" \/ f.kind = "error"
           THEN cli' = Ended("stream") /\ UNCHANGED <<up, buf>>
           ELSE IF f.kind \in {"keyframe", "delta"}
           THEN /\ cli' = Held(m.frame, f)
                /\ buf' = Observed(buf, f)
                /\ up' = Append(up, Ack(f))
           ELSE UNCHANGED <<cli, up, buf>>
    /\ down' = Tail(down)
    /\ UNCHANGED <<kind, world, srv, cmd, thin>>

(* send_keyframe_request() with a reason of n characters.                  *)
RequestKeyframe(n) ==
    /\ kind = "viewer" /\ cli.pc = "read" /\ cli.frames < MaxRequests
    /\ up' = Append(up, EncodeClientControl([kind |-> "request", text |-> n]))
    /\ cli' = [cli EXCEPT !.frames = @ + 1]
    /\ UNCHANGED <<kind, world, srv, cmd, down, thin, buf>>

-----------------------------------------------------------------------------
(* The thin client: one connection on its io thread, pauses from the main  *)
(* thread.  `reads` counts asynchronous reads under way, `reading` is      *)
(* read_in_flight_; `out` is write_queue_, its head being written while    *)
(* `writing`.                                                              *)

Fresh == [phase |-> "connecting", reading |-> FALSE, reads |-> 0, paused |-> FALSE,
          kicks |-> 0, pauses |-> 0, out |-> <<>>, writing |-> FALSE, writes |-> 0,
          closed |-> FALSE, stopping |-> FALSE]

\* Mutant: a read is begun although one is under way.
MaybeReadAgain(t) ==
    IF t.paused \/ t.closed THEN t ELSE [t EXCEPT !.reading = TRUE, !.reads = @ + 1]

(* maybe_read().                                                           *)
MaybeRead(t) ==
    IF t.paused \/ t.reading \/ t.closed THEN t
    ELSE [t EXCEPT !.reading = TRUE, !.reads = @ + 1]

(* enqueue_ack().                                                          *)
EnqueueAck(t, ack) ==
    LET q == [t EXCEPT !.out = Append(@, ack)]
    IN  IF t.writing THEN q ELSE [q EXCEPT !.writing = TRUE, !.writes = @ + 1]

MarkClosed(t) == [t EXCEPT !.closed = @ \/ ~t.stopping]

ThinOnly == kind = "thin" /\ UNCHANGED <<kind, world, cmd, cli, buf>>

(* do_resolve(), do_connect(), do_handshake().                             *)
ThinConnect(ok) ==
    /\ ThinOnly /\ thin.phase = "connecting"
    /\ thin' = IF ok THEN MaybeRead([thin EXCEPT !.phase = "up"]) ELSE [thin EXCEPT !.phase = "failed"]
    /\ srv' = IF ok THEN [srv EXCEPT !.attached = TRUE, !.key = TRUE] ELSE srv
    /\ UNCHANGED <<down, up>>

(* on_read() with a frame.                                                 *)
ThinRead ==
    /\ ThinOnly /\ thin.reads > 0 /\ down # <<>>
    /\ LET b == Head(down).bytes
           t == [thin EXCEPT !.reading = FALSE, !.reads = @ - 1]
           what == Inspect(b)
       IN  CASE b.size > MaxFrame -> thin' = MarkClosed(t)
             [] b.size <= MaxFrame /\ what = "invalid" -> thin' = [t EXCEPT !.closed = TRUE]
             [] b.size <= MaxFrame /\ what \in {"keyframe", "delta"} ->
                   thin' = MaybeRead(EnqueueAck(t, Ack(b.body)))
             [] OTHER -> thin' = MaybeRead(t)
    /\ down' = Tail(down)
    /\ UNCHANGED <<srv, up>>

(* on_read() with an error: the gateway has closed.                        *)
ThinReadFails ==
    /\ ThinOnly /\ thin.reads > 0 /\ down = <<>> /\ ~srv.attached
    /\ thin' = MarkClosed([thin EXCEPT !.reading = FALSE, !.reads = @ - 1])
    /\ UNCHANGED <<srv, down, up>>

(* on_write().                                                             *)
ThinWritten ==
    /\ ThinOnly /\ thin.writes > 0
    /\ IF srv.attached
       THEN /\ up' = Append(up, Head(thin.out))
            /\ thin' = IF Len(thin.out) = 1
                       THEN [thin EXCEPT !.out = <<>>, !.writing = FALSE, !.writes = @ - 1]
                       ELSE [thin EXCEPT !.out = Tail(@)]
       ELSE thin' = MarkClosed([thin EXCEPT !.writes = @ - 1]) /\ UNCHANGED up
    /\ UNCHANGED <<srv, down>>

(* pause_reads() and resume_reads() on the main thread; the posted kick.   *)
Pause ==
    /\ ThinOnly /\ thin.phase = "up" /\ ~thin.paused /\ thin.pauses < MaxPauses
    /\ thin' = [thin EXCEPT !.paused = TRUE, !.pauses = @ + 1]
    /\ UNCHANGED <<srv, down, up>>

Resume ==
    /\ ThinOnly /\ thin.paused
    /\ thin' = [thin EXCEPT !.paused = FALSE, !.kicks = @ + 1]
    /\ UNCHANGED <<srv, down, up>>

Kick ==
    /\ ThinOnly /\ thin.kicks > 0
    /\ thin' = MaybeRead([thin EXCEPT !.kicks = @ - 1])
    /\ UNCHANGED <<srv, down, up>>

(* set_stopping(), before the gateway is shut down.                        *)
SetStopping ==
    /\ ThinOnly /\ thin.phase = "up" /\ ~thin.stopping
    /\ thin' = [thin EXCEPT !.stopping = TRUE]
    /\ UNCHANGED <<srv, down, up>>

-----------------------------------------------------------------------------
Init ==
    /\ kind \in Kinds
    /\ world \in {[w \in s |-> Plain] :
                   s \in IF kind = "thin" THEN {{Target}} ELSE {{}, {Target}, Changing, Wid}}
    /\ srv = [tick |-> 0, attached |-> kind = "viewer", base |-> 0, view |-> Nothing,
              unacked |-> <<>>, key |-> TRUE, beat |-> 0, edits |-> 0]
    /\ cmd = "none" /\ down = <<>> /\ up = <<>> /\ buf = <<>> /\ thin = Fresh
    /\ cli = [pc |-> IF kind = "viewer" THEN "read" ELSE Head(Calls), exit |-> "no",
              replica |-> Nothing, meant |-> Nothing, got |-> FALSE, submitted |-> FALSE,
              applied |-> FALSE, saw |-> FALSE, frames |-> 0, first |-> 0]

Reference ==
    \/ \E ok \in BOOLEAN : Call(ok)
    \/ \E ok, served \in BOOLEAN : Connect(ok, served)
    \/ \E answer \in {"accepted", "refused", "late", "lost"} : Submit(answer)
    \/ Read \/ ReadFails

Viewer == View \/ \E n \in 1 .. 2 : RequestKeyframe(n)

Thin ==
    \/ \E ok \in BOOLEAN : ThinConnect(ok)
    \/ ThinRead \/ ThinReadFails \/ ThinWritten \/ Pause \/ Resume \/ Kick \/ SetStopping

Gateway ==
    \/ \E edit \in Edits, w \in Changing, key \in BOOLEAN : Tick(edit, w, key)
    \/ ServerReads \/ ServerCloses

Next == Gateway \/ Reference \/ Viewer \/ Thin

(* A process that is running takes its steps: every blocking call of the   *)
(* reference client ends, if need be by its watchdog.                      *)
Spec == Init /\ [][Next]_vars /\ WF_vars(Reference)

-----------------------------------------------------------------------------
(* Types; the counters of the thin client's operations.                    *)
TypeOK ==
    /\ kind \in Kinds /\ DOMAIN world \subseteq Wid
    /\ cmd \in {"none", "pending", "applied", "conflict", "missing", "refused"}
    /\ srv.tick \in 0 .. MaxTick /\ srv.base \in 0 .. srv.tick
    /\ cli.frames \in 0 .. MaxFrames + MaxRequests
    /\ cli.exit \in {"no", "ok", "stream", "submit", "receipt", "incomplete"} \cup Range(Calls)
    /\ (cli.pc = "done") = (cli.exit # "no")
    /\ thin.reads \in Nat /\ thin.writes \in Nat

(* The encoder of the hot path, which reads the projection directly, gives *)
(* what the protocol's encoder gives for the frame's wire structures, also *)
(* when a limit refuses it.                                                *)
EncodersAgree ==
    \A i \in DOMAIN down : down[i].frame.kind \in {"keyframe", "delta"} =>
        down[i].bytes = EncodeServerFrame(ToWireFrame(down[i].frame))

(* Whatever an encoder lets through is accepted at the other end, in both  *)
(* directions, unless the message as a whole is larger, or its tables are  *)
(* more or deeper, than the other end reads: no part of it is refused.     *)
Sized(b) == b.size \in 1 .. MaxFrame

OnlyTheWholeIsRefused ==
    /\ \A i \in DOMAIN down :
          LET b == down[i].bytes IN Sized(b) /\ Verified(b.body) => DecodeServerFrame(b) = ""
    /\ \A i \in DOMAIN up : Sized(up[i]) /\ Verified(up[i].body) => DecodeClientControl(up[i]) = ""

(* Stronger, and false: no encoder counts tables, so a frame within every  *)
(* limit an encoder knows may be one the verifier refuses.                 *)
OnlySizeRefuses ==
    /\ \A i \in DOMAIN down : Sized(down[i].bytes) => DecodeServerFrame(down[i].bytes) = ""
    /\ \A i \in DOMAIN up : Sized(up[i]) => DecodeClientControl(up[i]) = ""

(* The replica holds the entities the frames meant, and for each the hash  *)
(* the gateway has, unless a relation of it has attributes.                *)
ReplicaHashAgrees ==
    /\ DOMAIN cli.replica = DOMAIN cli.meant
    /\ \A w \in DOMAIN cli.replica :
          ~cli.meant[w].attrs => cli.replica[w] = CanonicalHash(cli.meant[w])

(* The newest positions to render are those of the replica, and the oldest *)
(* are as old as the time to render once the stream is.                    *)
PlaybackFollows ==
    buf # <<>> =>
        /\ Last(buf).pos = Positions(cli.meant)
        /\ \A i \in 1 .. Len(buf) - 1 : buf[i].time < buf[i + 1].time
        /\ LET render == Last(buf).time - Delay
           IN  /\ cli.first <= render => buf[1].time <= render
               /\ Len(buf) > 1 => buf[2].time > render

(* The exit code tells what became of the command: 0 only when it was      *)
(* applied, the receipt's code only when it was executed and refused, the  *)
(* codes before it only when it was never sent.                            *)
ExitTellsVerdict ==
    /\ cli.exit = "ok" => cmd = "applied"
    /\ cli.exit = "receipt" => cmd \in {"conflict", "missing"}
    /\ cli.exit \in Range(Calls) => cmd = "none"

(* The WebSocket stream has at most one read and one write at a time, and  *)
(* what waits to be written has a write before it: one under way, or one   *)
(* that failed and ended the connection, which leaves the flag set.        *)
OneOperationEach ==
    /\ thin.reads <= 1 /\ thin.writes <= 1
    /\ thin.out # <<>> => thin.writing

(* The reference client's program ends.                                    *)
ClientReturns == (kind = "reference") ~> (cli.pc = "done")

(* What the comment in queues.cpp says of the frame limit: a frame larger  *)
(* than max_frame_bytes is stopped by the protocol layer.                  *)
FrameLimitHolds == \A i \in DOMAIN down : down[i].bytes.size <= MaxFrame

(* M4.md: the replica's hash is the gateway's.                             *)
HashesAgree ==
    \A w \in DOMAIN cli.replica : cli.replica[w] = CanonicalHash(cli.meant[w])

-----------------------------------------------------------------------------
(* What the proof of PlaybackFollows needs: how the buffer is kept.        *)

(* A state frame under way is the gateway's, of one of the ticks after t   *)
(* and up to n.                                                            *)
IsState(m) == m.bytes.body.kind \in {"keyframe", "delta"}

Fields == {"ver", "val", "type", "text", "props", "state", "rels"}

HasValues(es) == \A w \in DOMAIN es : DOMAIN es[w] = Fields \cup {"attrs"}

Playable(m, t, n) ==
    IsState(m) =>
        /\ m.bytes.body = ToWireFrame(m.frame)
        /\ m.frame.kind = "keyframe" => DOMAIN m.frame.updates = {}
        /\ HasValues(m.frame.enters) /\ HasValues(m.frame.updates)
        /\ m.frame.snap \in t + 1 .. n

(* Messages in the order they were sent: state frames by their ticks, all  *)
(* of them after t and not after n.                                        *)
PlayList(p, t, n) ==
    /\ p \in Seq({p[i] : i \in DOMAIN p})
    /\ \A i \in DOMAIN p : Playable(p[i], t, n)
    /\ \A i, j \in DOMAIN p :
          i < j /\ IsState(p[i]) /\ IsState(p[j]) => p[i].frame.snap < p[j].frame.snap

(* Snapshots by their times, the first one the oldest that was ever there  *)
(* or as old as the time to render.                                        *)
Buffered(b, first) ==
    /\ b \in Seq({b[i] : i \in DOMAIN b})
    /\ \A i \in DOMAIN b : b[i].time \in Nat
    /\ \A i, j \in DOMAIN b : i < j => b[i].time < b[j].time
    /\ b # <<>> => LET render == b[Len(b)].time - Delay
                   IN  /\ b[1].time = first \/ b[1].time <= render
                       /\ Len(b) > 1 => b[2].time > render

Newest(b) == IF b = <<>> THEN 0 ELSE b[Len(b)].time

PlaybackInv ==
    /\ DOMAIN srv = {"tick", "attached", "base", "view", "unacked", "key", "beat", "edits"}
    /\ srv.tick \in Nat /\ Newest(buf) \in 0 .. srv.tick
    /\ HasValues(world)
    /\ PlayList(down, Newest(buf), srv.tick)
    /\ Buffered(buf, cli.first)
    /\ kind # "viewer" => buf = <<>>
    /\ kind = "viewer" /\ buf = <<>> => cli.meant = Nothing /\ cli.first = 0
    /\ buf # <<>> => cli.first \in Nat \ {0} /\ buf[Len(buf)].pos = Positions(cli.meant)
=============================================================================
