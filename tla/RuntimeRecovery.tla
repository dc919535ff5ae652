--------------------------- MODULE RuntimeRecovery ---------------------------
(***************************************************************************)
(* WorldRuntime and everything of it a checkpoint holds, one provider per  *)
(* part: world, clock, command buffer, event bus, decision intents, random *)
(* streams and the set of active entities.  A tick is one step with its    *)
(* phases in order and the checkpoint anchor inside it; a restart restores *)
(* the latest checkpoint in two phases, enqueues the durable commands that *)
(* follow it and runs forward to the last promised tick.                   *)
(*                                                                         *)
(* Handlers and decisions are the application's: `program` names which of  *)
(* three small ones it registered, and whether it seeds an empty world as  *)
(* the daemon does.  Publication of checkpoints is one step here           *)
(* (CheckpointStore takes it apart), and the log is the records that       *)
(* WalWriter would find again.                                             *)
(*                                                                         *)
(* A command is first a record and a ticket, and is enqueued at a later    *)
(* poll, in any order and at any tick; a replay enqueues all of them in    *)
(* the order of the log.  `orderly` is history: so far nothing has         *)
(* happened that a replay cannot repeat.                                   *)
(*                                                                         *)
(* What is pending is a set: the code keeps vectors, sorts them before it  *)
(* walks them, and no two of their elements have the same number.          *)
(***************************************************************************)
EXTENDS Integers, FiniteSets, Sequences, SequencesExt

CONSTANTS
    Wid,
    W1, W2,         \* the objects the handlers and the decisions write
    Activatable,    \* objects the embedding code activates
    Lasting,        \* objects no command destroys
    Text,           \* lengths of the semantic type a CREATE may carry
    TextMod,        \* what a length in a record counts to (2^16 in the code)
    Seed,           \* the object a program that seeds begins with
    Programs,       \* sets of "events", "decisions", "late", "seed"
    MaxLead,        \* max_command_lead_ticks
    GenMax,         \* bound: generations of a slot (2^32 - 1 in the code)
    MaxTick, MaxCmds, MaxRevision, MaxActive   \* bounds

ASSUME RuntimeConstants ==
    /\ {W1, W2, Seed} \subseteq Wid /\ Activatable \cup Lasting \subseteq Wid
    /\ Text \subseteq Nat /\ TextMod \in Nat \ {0}
    /\ \A p \in Programs : p \subseteq {"events", "decisions", "late", "seed"}
    /\ {MaxLead, GenMax, MaxTick, MaxCmds, MaxRevision, MaxActive} \subseteq Nat \ {0}

VARIABLES
    program,    \* the callbacks registered when the process starts
    up,         \* the process runs
    failed,     \* why the latest start was refused, or "no"
    sim,        \* the runtime's state but for the entities
    ecs,        \* [slot: sequence of [wid, gen, used, born], free: sequence];
                \* born: the activation that filled the slot (history)
    handles,    \* the RuntimeIds this process has handed out
    wal,        \* the records in LSN order: commands and state hashes
    open,       \* LSNs of commands whose tickets have not been polled
    orderly,    \* see InTime (history)
    frozen,     \* a captured checkpoint on its way to the disk
    image       \* the latest published checkpoint

runtimeVars == <<program, up, failed, sim, ecs, handles, wal, open, orderly, frozen, image>>

Val     == {0, 1}
Absent  == [val |-> 0, ver |-> 0, rev |-> 0]
Nothing == [tick |-> 0, ecs_active_set |-> {}]

Set(w, v, e) == [kind |-> "set", wid |-> w, val |-> v, expect |-> e, text |-> 0]

Commands == [kind : {"create"}, wid : Wid, val : {0}, expect : {0}, text : Text]
       \cup [kind : {"destroy"}, wid : Wid \ Lasting, val : {0}, expect : {0}, text : {0}]
       \cup {Set(w, v, e) : w \in Wid, v \in Val, e \in {0, 1}}

(* The state of a runtime that has just been constructed.                  *)
Boot == [tick |-> 0, obj |-> [w \in Wid |-> Absent], revision |-> 0, erased |-> 0,
         cmds |-> {}, nextSeq |-> 1, included |-> 0,
         events |-> {}, nextEvent |-> 1,
         intents |-> {}, nextIntent |-> 1, rng |-> 0]

Larger(a, b) == IF a > b THEN a ELSE b

(* CommandBuffer::enqueue().                                               *)
Enqueued(s, due, lsn, op) ==
    [s EXCEPT !.cmds = @ \cup {[seq |-> s.nextSeq, due |-> due, lsn |-> lsn, op |-> op]},
              !.nextSeq = @ + 1,
              !.included = Larger(@, lsn)]

(* A start that has found neither a checkpoint nor a record.               *)
Seeding == [kind |-> "create", wid |-> Seed, val |-> 0, expect |-> 0, text |-> 0]

Begun(p) == IF "seed" \in p THEN Enqueued(Boot, 0, 0, Seeding) ELSE Boot

NoEntities == [slot |-> <<>>, free |-> <<>>]

-----------------------------------------------------------------------------
(* The parts of a step.                                                    *)

(* op(..., 1), then op(..., 2) and so on, n times.                         *)
InTurn(op(_, _), s, n) ==
    LET after[k \in Nat] == IF k = 0 THEN s ELSE op(after[k - 1], k)
    IN  after[n]

(* What is pending under a number, and what of it is due.                  *)
NumberIn(pending, q) == \E c \in pending : c.seq = q
Number(pending, q)   == CHOOSE c \in pending : c.seq = q
Due(pending, tick)   == {c \in pending : c.due <= tick}

SetProperty(s, w, v) ==
    IF s.obj[w] = Absent THEN s
    ELSE [s EXCEPT !.obj[w].val = v, !.obj[w].ver = @ + 1]

(* One command of CommandBuffer::apply().                                  *)
Executed(s, cmd) ==
    LET op == cmd.op IN
    CASE op.kind = "create" ->
            IF s.obj[op.wid] = Absent
            THEN [s EXCEPT !.obj[op.wid] = [val |-> op.val, ver |-> 1, rev |-> s.revision + 1],
                           !.revision = @ + 1]
            ELSE [s EXCEPT !.revision = @ + 1]
      [] op.kind = "destroy" ->
            IF s.obj[op.wid] = Absent THEN s
            ELSE [s EXCEPT !.obj[op.wid] = Absent, !.erased = @ + 1]
      [] op.kind = "set" ->
            IF op.expect # 0 /\ s.obj[op.wid].ver # op.expect THEN s
            ELSE SetProperty(s, op.wid, op.val)

(* CommandBuffer::apply(): what is due, in sequence order.                 *)
ExecutedAt(x, due, q) == IF NumberIn(due, q) THEN Executed(x, Number(due, q)) ELSE x
ExecutedTo(s, due, n) == InTurn(LAMBDA x, q : ExecutedAt(x, due, q), s, n)

Applied(s) ==
    LET due == Due(s.cmds, s.tick)
    IN  ExecutedTo([s EXCEPT !.cmds = @ \ due], due, s.nextSeq - 1)

(* DeterministicRng::next_u64(): the position in the stream.               *)
Drawn(s) == [s EXCEPT !.rng = @ + 1]

(* EventBus::publish().                                                    *)
Published(s, due, prio, v) ==
    [s EXCEPT !.events = @ \cup {[seq |-> s.nextEvent, due |-> due, prio |-> prio, val |-> v]},
              !.nextEvent = @ + 1]

(* The order of EventBus::drain().                                         *)
EventOrder(a, b) ==
    \/ a.due < b.due
    \/ a.due = b.due /\ a.prio > b.prio
    \/ a.due = b.due /\ a.prio = b.prio /\ a.seq < b.seq

(* dispatch_due() with the application's handler, which draws a number and *)
(* writes it into W1; the emptied bus is given two events for the next     *)
(* tick, the second one more urgent.                                       *)
Handled(s, e) == [SetProperty(Drawn(s), W1, (e.val + s.rng) % 2) EXCEPT !.events = @ \ {e}]

FirstHandled(s) ==
    LET due == Due(s.events, s.tick)
    IN  IF due = {} THEN s
        ELSE Handled(s, CHOOSE e \in due : \A d \in due : d = e \/ EventOrder(e, d))

HandledTo(s, n) == InTurn(LAMBDA x, k : FirstHandled(x), s, n)

Dispatched(s) ==
    LET after == HandledTo(s, Cardinality(Due(s.events, s.tick)))
    IN  IF after.events = {}
        THEN Published(Published(after, s.tick + 1, 0, 0), s.tick + 1, 1, 1)
        ELSE after

(* DecisionIntentBuffer::submit() by the application's decision, made from *)
(* the snapshot of the tick.                                               *)
Decided(s) ==
    IF s.obj[W2] = Absent \/ s.intents # {} THEN s
    ELSE [s EXCEPT !.intents = @ \cup {[seq |-> s.nextIntent, due |-> s.tick + 1,
                                       wid |-> W2, val |-> 1 - s.obj[W2].val]},
                   !.nextIntent = @ + 1]

(* DecisionIntentBuffer::flush(): what is due, in sequence order.          *)
Forwarded(x, i) == Enqueued(x, i.due, 0, Set(i.wid, i.val, 0))
ForwardedAt(x, due, q) == IF NumberIn(due, q) THEN Forwarded(x, Number(due, q)) ELSE x
ForwardedTo(s, due, n) == InTurn(LAMBDA x, q : ForwardedAt(x, due, q), s, n)

Flushed(s) ==
    LET due == Due(s.intents, s.tick)
    IN  ForwardedTo([s EXCEPT !.intents = @ \ due], due, s.nextIntent - 1)

(* step() up to the anchor: commands, track A, track B and the decisions.  *)
Phases(p, s) ==
    LET b == IF "events" \in p THEN Dispatched(s) ELSE s
    IN  IF "decisions" \in p THEN Flushed(Decided(b)) ELSE b

Stable(s) == Phases(program, Applied(s))

(* The rest of step(): the projection phase, then the clock.               *)
Finished(s) ==
    LET late == IF "late" \in program THEN Drawn(s) ELSE s
    IN  [late EXCEPT !.tick = @ + 1]

-----------------------------------------------------------------------------
(* The entities.                                                           *)

Active == {w \in Wid : \E i \in DOMAIN ecs.slot : ecs.slot[i].used /\ ecs.slot[i].wid = w}

(* ecs::Runtime::activate(): the entities after it and the slot taken.     *)
SlotFor(e) == IF e.free = <<>> THEN Len(e.slot) + 1 ELSE e.free[Len(e.free)]

Filled(w, g, n) == [wid |-> w, gen |-> g, used |-> TRUE, born |-> n]

Occupied(e, w, n) ==
    IF e.free = <<>> THEN [e EXCEPT !.slot = Append(@, Filled(w, 1, n))]
    ELSE [slot |-> [e.slot EXCEPT ![SlotFor(e)] = Filled(w, @.gen, n)], free |-> Front(e.free)]

(* WorldRuntime::activate().                                               *)
Activate(w) ==
    /\ up /\ w \in Activatable
    /\ sim.obj[w] # Absent /\ w \notin Active
    /\ Cardinality(handles) < MaxActive
    /\ LET i == SlotFor(ecs)
           n == Cardinality(handles) + 1
       IN  /\ ecs' = Occupied(ecs, w, n)
           /\ handles' = handles \cup {[slot |-> i, gen |-> ecs'.slot[i].gen, born |-> n]}
    /\ UNCHANGED <<program, up, failed, sim, wal, open, orderly, frozen, image>>

Names(h) == h.slot <= Len(ecs.slot) /\ ecs.slot[h.slot].used /\ ecs.slot[h.slot].gen = h.gen

\* Mutant: the generation of the slot stays.
DestroyedKeepingGeneration(e, i) ==
    [slot |-> [e.slot EXCEPT ![i].used = FALSE], free |-> Append(e.free, i)]

(* ecs::Runtime::destroy() of a valid RuntimeId; generation 0 is skipped.  *)
Destroy(e, i) ==
    [slot |-> [e.slot EXCEPT ![i].used = FALSE, ![i].gen = IF @ = GenMax THEN 1 ELSE @ + 1],
     free |-> Append(e.free, i)]

(* deactivate() with any RuntimeId handed out, stale ones included.        *)
Deactivate(h) ==
    /\ up /\ Names(h)
    /\ ecs.slot[h.slot].gen < GenMax
    /\ ecs' = Destroy(ecs, h.slot)
    /\ UNCHANGED <<program, up, failed, sim, handles, wal, open, orderly, frozen, image>>

-----------------------------------------------------------------------------
(* Inputs and ticks.                                                       *)

(* encode_external_command_record(): a text is written whole after its     *)
(* length, which has 16 bits.                                              *)
Encoded(op) == [op |-> op, length |-> op.text % TextMod]

(* decode_external_command_record(): a CREATE names a semantic type, and   *)
(* nothing of the record is left over.                                     *)
Decodes(r) ==
    /\ r.op.kind = "create" => r.length > 0
    /\ r.length = r.op.text

(* world_state_hash(): insertion numbers are left out.                     *)
StateHash(s) == [w \in Wid |-> [val |-> s.obj[w].val, ver |-> s.obj[w].ver]]

Cmds == {l \in 1 .. Len(wal) : wal[l].kind = "command"}

(* submit_durable_command(): an admitted command is appended to the log;   *)
(* its ticket is open.                                                     *)
Submit(op, due) ==
    /\ up /\ Cardinality(Cmds) < MaxCmds
    /\ due \in sim.tick + 1 .. sim.tick + MaxLead
    /\ due < MaxTick
    /\ wal' = Append(wal, [kind |-> "command", due |-> due, rec |-> Encoded(op)])
    /\ open' = open \cup {Len(wal')}
    /\ UNCHANGED <<program, up, failed, sim, ecs, handles, orderly, frozen, image>>

(* A replay executes a command at its target tick, after those before it   *)
(* in the log and before what a decision has left for that tick.  From     *)
(* state s on this can still be so for a command that is enqueued now.     *)
InTime(s, due) ==
    \/ s.tick < due
    \/ s.tick = due /\ \A c \in s.cmds : c.due <= due => c.lsn # 0

(* poll_durable_tickets(): tickets are polled in the order of a hash map.  *)
Enqueue(l) ==
    /\ up /\ l \in open
    /\ sim' = Enqueued(sim, wal[l].due, l, wal[l].rec.op)
    /\ open' = open \ {l}
    /\ orderly' = (orderly /\ \A k \in open : k >= l)
    /\ UNCHANGED <<program, up, failed, ecs, handles, wal, frozen, image>>

(* freeze() of the providers: each its own part, by value.                 *)
FrozenCommands(s) == [pending |-> s.cmds, next |-> s.nextSeq, included |-> s.included]
FrozenEvents(s)   == [pending |-> s.events, next |-> s.nextEvent]
FrozenIntents(s)  == [pending |-> s.intents, next |-> s.nextIntent]
FrozenWorld(s)    == [obj |-> s.obj, revision |-> s.revision, erased |-> s.erased]

\* Mutant: the clock is frozen as it stands.
FrozenClockAsIs(s) == s.tick

(* The tick to resume with.                                                *)
FrozenClock(s) == s.tick + 1

(* CheckpointCoordinator::capture(): every provider, at the anchor.        *)
Capture(s) ==
    [tick |-> s.tick + 1, clock |-> FrozenClock(s), command_buffer |-> FrozenCommands(s),
     event_bus |-> FrozenEvents(s), ai_intents |-> FrozenIntents(s),
     random_streams |-> s.rng, world |-> FrozenWorld(s), ecs_active_set |-> Active]

Step(save) ==
    /\ up /\ sim.tick < MaxTick
    /\ LET s == Stable(sim)
       IN  /\ s.revision <= MaxRevision
           /\ frozen' = IF save THEN Capture(s) ELSE frozen
           /\ sim' = Finished(s)
           /\ wal' = Append(wal, [kind |-> "hash", tick |-> sim.tick, hash |-> StateHash(s)])
           /\ orderly' = (orderly /\ \A l \in open : InTime(Finished(s), wal[l].due))
    /\ save => frozen = Nothing
    /\ UNCHANGED <<program, up, failed, ecs, handles, open, image>>

(* The background publication ends, well or not.                           *)
Publish(ok) ==
    /\ up /\ frozen # Nothing
    /\ image' = IF ok THEN frozen ELSE image
    /\ frozen' = Nothing
    /\ UNCHANGED <<program, up, failed, sim, ecs, handles, wal, open, orderly>>

(* A crash loses what was in memory and the records at the end of the log  *)
(* that were not yet durable: hashes, and commands with open tickets.      *)
RuntimeCrash ==
    /\ up
    /\ \E n \in 0 .. Len(wal) :
          /\ \A i \in n + 1 .. Len(wal) : wal[i].kind = "hash" \/ i \in open
          /\ wal' = SubSeq(wal, 1, n)
    /\ up' = FALSE /\ frozen' = Nothing /\ open' = {}
    /\ sim' = Boot /\ ecs' = NoEntities /\ handles' = {}
    /\ UNCHANGED <<program, failed, orderly, image>>

-----------------------------------------------------------------------------
(* Restart.                                                                *)

(* The registered providers, by name, and what each restores after.        *)
Provider == <<"ai_intents", "clock", "command_buffer", "ecs_active_set",
              "event_bus", "random_streams", "world">>
Needs    == [p \in Range(Provider) |-> IF p = "ecs_active_set" THEN "world" ELSE p]

\* Mutant: providers are restored in the order of their names.
OrderByName == Provider

(* providers_in_restore_order(): by name, each after what it depends on.   *)
Listed(done, p) == IF p \in Range(done) THEN done ELSE Append(done, p)

ListedWith(done, p) == Listed(Listed(done, Needs[p]), p)
ListedTo(n)         == InTurn(LAMBDA done, k : ListedWith(done, Provider[k]), <<>>, n)

RestoreOrder == ListedTo(Len(Provider))

Numbered(b) == \A c \in b.pending :
                   /\ c.seq \in 1 .. b.next - 1
                   /\ \A d \in b.pending : d.seq = c.seq => d = c

(* validate_restore() of every provider.  Each looks at its own block; the *)
(* active set is not compared with the world of the same checkpoint.       *)
Validates(i) ==
    /\ i.clock >= 0
    /\ Numbered(i.command_buffer) /\ Numbered(i.event_bus) /\ Numbered(i.ai_intents)
    /\ \A w \in Wid : i.world.obj[w].rev <= i.world.revision

(* restore() of the providers into a runtime r = [sim, ok].                *)
RestoreClock(i, r) == [r EXCEPT !.sim.tick = i.clock]

RestoreCommands(i, r) ==
    LET b == i.command_buffer
    IN  [r EXCEPT !.sim.cmds = b.pending, !.sim.nextSeq = b.next, !.sim.included = b.included]

RestoreEvents(i, r) ==
    [r EXCEPT !.sim.events = i.event_bus.pending, !.sim.nextEvent = i.event_bus.next]

RestoreIntents(i, r) ==
    [r EXCEPT !.sim.intents = i.ai_intents.pending, !.sim.nextIntent = i.ai_intents.next]

RestoreRandom(i, r) == [r EXCEPT !.sim.rng = i.random_streams]

RestoreWorld(i, r) ==
    [r EXCEPT !.sim.obj = i.world.obj, !.sim.revision = i.world.revision,
              !.sim.erased = i.world.erased]

(* An entity is made again from the object it stands for: after clear(),   *)
(* each in a slot of its own.                                              *)
RestoreEntities(i, r) ==
    [r EXCEPT !.ok = \A w \in i.ecs_active_set : r.sim.obj[w] # Absent]

MadeAgain(active) ==
    LET order == SetToSeq(active)
    IN  [slot |-> [k \in DOMAIN order |-> Filled(order[k], 1, 0)], free |-> <<>>]

Restored(i, r, p) ==
    CASE ~r.ok                -> r
      [] p = "ai_intents"     -> RestoreIntents(i, r)
      [] p = "clock"          -> RestoreClock(i, r)
      [] p = "command_buffer" -> RestoreCommands(i, r)
      [] p = "ecs_active_set" -> RestoreEntities(i, r)
      [] p = "event_bus"      -> RestoreEvents(i, r)
      [] p = "random_streams" -> RestoreRandom(i, r)
      [] OTHER                -> RestoreWorld(i, r)

(* CheckpointLoader::restore_into(): nothing is restored unless every      *)
(* block validates; then one provider after the other.                     *)
Fresh == [sim |-> Boot, ok |-> TRUE]
RestoredTo(i, n) == InTurn(LAMBDA r, k : Restored(i, r, RestoreOrder[k]), Fresh, n)

RestoreInto(i) ==
    IF i = Nothing THEN Fresh
    ELSE IF ~Validates(i) THEN [Fresh EXCEPT !.ok = FALSE]
    ELSE RestoredTo(i, Len(RestoreOrder))

(* The commands after the checkpoint, all of them before the first step.   *)
EnqueuedAt(x, last, l) ==
    IF l > last /\ l \in Cmds THEN Enqueued(x, wal[l].due, l, wal[l].rec.op) ELSE x
EnqueuedTo(s, n) == InTurn(LAMBDA x, l : EnqueuedAt(x, s.included, l), s, n)

EnqueuedAll(s) == EnqueuedTo(s, Len(wal))

(* The last tick a record after the checkpoint promises.                   *)
PromisedTick(s) ==
    LET ticks == {IF l \in Cmds THEN wal[l].due ELSE wal[l].tick : l \in s.included + 1 .. Len(wal)}
    IN  IF ticks = {} THEN -1 ELSE CHOOSE t \in ticks : \A u \in ticks : u <= t

(* Steps up to a tick, the last one included; failing a recorded hash ends *)
(* it.                                                                     *)
Replays(r, t, from) ==
    IF ~r.ok \/ r.sim.tick # t THEN r
    ELSE LET x == Stable(r.sim)
         IN  [sim |-> Finished(x),
              ok |-> \A l \in from + 1 .. Len(wal) :
                        wal[l].kind = "hash" /\ wal[l].tick = t => wal[l].hash = StateHash(x)]

RunTo(s, n) == InTurn(LAMBDA r, k : Replays(r, k - 1, s.included), [sim |-> s, ok |-> TRUE], n)
Run(s, last) == RunTo(s, last + 1)

(* A command that no step of the replay has executed.                      *)
Unexecuted(s) == PromisedTick(s) < s.tick /\ \E l \in Cmds : l > s.included

(* The seed is in no record, and given only to a world of which nothing is *)
(* recovered.                                                              *)
Unseeded == "seed" \in program /\ image = Nothing /\ wal # <<>>

(* The process starts: refused when the checkpoint, a record or a hash is  *)
(* refused, or a command has come to no outcome.                           *)
Restart ==
    /\ ~up /\ failed = "no"
    /\ LET base == RestoreInto(image)
           run  == Run(EnqueuedAll(base.sim), PromisedTick(base.sim))
       IN  IF ~base.ok
           THEN /\ failed' = "checkpoint" /\ sim' = base.sim
                /\ UNCHANGED <<up, ecs>>
           ELSE IF \E l \in Cmds : l > base.sim.included /\ ~Decodes(wal[l].rec)
           THEN /\ failed' = "record" /\ UNCHANGED <<up, sim, ecs>>
           ELSE IF ~run.ok
           THEN failed' = "fork" /\ UNCHANGED <<up, sim, ecs>>
           ELSE IF Unexecuted(base.sim)
           THEN failed' = "outcome" /\ UNCHANGED <<up, sim, ecs>>
           ELSE /\ up' = TRUE /\ UNCHANGED failed
                /\ sim' = IF image = Nothing /\ wal = <<>> THEN Begun(program) ELSE run.sim
                /\ ecs' = MadeAgain(image.ecs_active_set)
    /\ orderly' = (orderly /\ ~Unseeded)
    /\ UNCHANGED <<program, handles, wal, open, frozen, image>>

-----------------------------------------------------------------------------
RuntimeInit ==
    /\ program \in Programs /\ up = TRUE /\ failed = "no"
    /\ sim = Begun(program) /\ ecs = NoEntities /\ handles = {}
    /\ wal = <<>> /\ open = {} /\ orderly = TRUE /\ frozen = Nothing /\ image = Nothing

RuntimeNext ==
    \/ \E op \in Commands, due \in 0 .. MaxTick : Submit(op, due)
    \/ \E l \in open : Enqueue(l)
    \/ \E w \in Wid : Activate(w)
    \/ \E h \in handles : Deactivate(h)
    \/ \E save \in BOOLEAN : Step(save)
    \/ \E ok \in BOOLEAN : Publish(ok)
    \/ RuntimeCrash \/ Restart

RuntimeSpec == RuntimeInit /\ [][RuntimeNext]_runtimeVars

-----------------------------------------------------------------------------
(* Types; the numbers of pending commands are different and were handed out. *)
RuntimeTypeOK ==
    /\ program \in Programs /\ up \in BOOLEAN
    /\ failed \in {"no", "checkpoint", "record", "fork", "outcome"}
    /\ sim.tick \in 0 .. MaxTick /\ open \subseteq Cmds
    /\ \A w \in Wid : sim.obj[w].rev \in 0 .. sim.revision
    /\ Numbered(FrozenCommands(sim))
    /\ \A i, j \in DOMAIN ecs.slot :
          i # j /\ ecs.slot[i].used /\ ecs.slot[j].used => ecs.slot[i].wid # ecs.slot[j].wid

(* The runtime of one that was never stopped, given every command of the   *)
(* log before its first tick.                                              *)
Unstopped == Run(EnqueuedAll(Begun(program)), sim.tick - 1).sim

(* A running process is at every tick boundary where one that never        *)
(* crashed would be, whatever checkpoint it came back from, however the    *)
(* commands arrived and wherever they were between the log and the buffer: *)
(* the state is a function of the durable log, unless a command was        *)
(* enqueued too late or overtaken, or a seed was lost (restore_into and    *)
(* the replay of main.cpp).                                                *)
StateFollowsFromLog ==
    up /\ orderly =>
        LET u == Unstopped
        IN  /\ sim.obj = u.obj /\ sim.revision = u.revision /\ sim.erased = u.erased
            /\ sim.rng = u.rng /\ sim.intents = u.intents /\ sim.events = u.events

(* A start never refuses the checkpoint or a record the process itself     *)
(* wrote; it finds another hash, or a command without an outcome, only     *)
(* when a command was enqueued too late or overtaken, or a seed was lost   *)
(* (main.cpp, the exits with code 5).                                      *)
RestartSucceeds == failed # "no" => ~orderly /\ failed \in {"fork", "outcome"}

(* The same without conditions, which the code does not meet: a running    *)
(* process holds the objects the log gives it.  False when a record is     *)
(* found but no checkpoint, and the seed is not given again (main.cpp,     *)
(* after the replay), and when commands are enqueued out of order          *)
(* (poll_durable_tickets).                                                 *)
StateFollowsAlways == up => Unstopped.obj = sim.obj

(* A replay finds the hashes the process recorded.  False for the same     *)
(* reasons.                                                                *)
RestartAlways == failed # "fork"

(* Every command after the checkpoint comes to an outcome in the replay.   *)
(* False when its tick was saved before it was enqueued (main.cpp, the     *)
(* outcomes written for executed commands).                                *)
OutcomeAlways == failed # "outcome"

(* A RuntimeId that is still valid names the activation it was handed out  *)
(* for, however its slot was reused meanwhile (ecs::Runtime::valid).       *)
HandleNamesItsEntity ==
    \A h \in handles : Names(h) => ecs.slot[h.slot].born = h.born

(* A refused checkpoint leaves the runtime as it was (restore_into: two    *)
(* phases so that no half-restored state remains).                         *)
RefusedLeavesNothing == failed = "checkpoint" => sim = Boot

-----------------------------------------------------------------------------
(* What the proof of HandleNamesItsEntity needs.                           *)
Slots == [wid : Wid, gen : Nat, used : BOOLEAN, born : Nat]

(* The free slots are unused, each of them once.                           *)
FreeInv ==
    /\ ecs.slot \in Seq(Slots) /\ ecs.free \in Seq(Nat)
    /\ \A k \in DOMAIN ecs.free :
          /\ ecs.free[k] \in DOMAIN ecs.slot /\ ~ecs.slot[ecs.free[k]].used
          /\ \A j \in DOMAIN ecs.free : j # k => ecs.free[j] # ecs.free[k]

(* A handle is no newer than its slot, and older than whatever fills a     *)
(* slot that is unused now; one that names a slot names its activation.    *)
HandleInv ==
    /\ IsFiniteSet(handles) /\ (~up => handles = {})
    /\ \A h \in handles :
          /\ h.slot \in DOMAIN ecs.slot /\ h.gen \in Nat
          /\ LET s == ecs.slot[h.slot]
             IN  /\ h.gen <= s.gen
                 /\ ~s.used => h.gen < s.gen
                 /\ s.used /\ s.gen = h.gen => s.born = h.born

(* Checkpoints hold finitely many active entities.                         *)
ImageInv ==
    /\ IsFiniteSet(frozen.ecs_active_set) /\ IsFiniteSet(image.ecs_active_set)
    /\ frozen.ecs_active_set \cup image.ecs_active_set \subseteq Wid

EntityInv == DOMAIN ecs = {"slot", "free"} /\ FreeInv /\ HandleInv /\ ImageInv

-----------------------------------------------------------------------------
(* What the proof of StateFollowsFromLog needs: the state at every tick as *)
(* a function of the callbacks p and a log, whatever restarts there were.  *)

(* No random number is drawn after the anchor, no command destroys an      *)
(* object that has an entity, and a record can hold the length of a text.  *)
Replayable ==
    /\ \A p \in Programs : "late" \notin p
    /\ Activatable \subseteq Lasting
    /\ Text \subseteq 1 .. TextMod - 1

Object  == [val : Val, ver : Nat, rev : Nat]
Ops     == Commands \cup {Seeding}
Pending == [seq : Nat \ {0}, due : Nat, lsn : Nat, op : Ops]
Event   == [seq : Nat \ {0}, due : Nat, prio : {0, 1}, val : Val]
Intent  == [seq : Nat \ {0}, due : Nat, wid : {W2}, val : Val]
Finite(S) == {T \in SUBSET S : IsFiniteSet(T)}
State   == [tick : Nat, obj : [Wid -> Object], revision : Nat, erased : Nat,
            cmds : SUBSET Pending, nextSeq : Nat \ {0}, included : Nat,
            events : Finite(Event), nextEvent : Nat \ {0},
            intents : SUBSET Intent, nextIntent : Nat \ {0}, rng : Nat]

(* The same state with other commands pending.                             *)
Holding(s, pending, next, last) ==
    [s EXCEPT !.cmds = pending, !.nextSeq = next, !.included = last]

IsCommand(log, l)  == log[l].kind = "command"
DueAt(log, l, t)   == l \in DOMAIN log /\ IsCommand(log, l) /\ log[l].due = t

(* The commands of a log that s does not include, each of which can still  *)
(* be executed where a replay executes it.                                 *)
Rest(log, s)       == {l \in s.included + 1 .. Len(log) : IsCommand(log, l)}
RestInTime(log, s) == \A l \in Rest(log, s) : InTime(s, log[l].due)

(* The commands of a log for the tick of s in the order of their LSNs,     *)
(* then the one a decision of the tick before has left.                    *)
FromLogAt(log, t, x, l) == IF DueAt(log, l, t) THEN Executed(x, log[l].rec) ELSE x
FromLog(log, s, n) == InTurn(LAMBDA x, l : FromLogAt(log, s.tick, x, l), s, n)

LeftOver(x, left) == IF left = {} THEN x ELSE Executed(x, CHOOSE c \in left : TRUE)

Commanded(log, s) == Holding(LeftOver(FromLog(log, s, Len(log)), s.cmds), {}, 1, 0)
Played(p, log, s) == Phases(p, Commanded(log, s))
Later(s)          == [s EXCEPT !.tick = @ + 1]

History(p, log, t) == InTurn(LAMBDA x, k : Later(Played(p, log, x)), Begun(p), t)
HashAt(p, log, t)  == StateHash(Played(p, log, History(p, log, t)))

(* What every state of it satisfies.                                       *)
Sound(s) ==
    /\ s \in State /\ \A w \in Wid : s.obj[w].rev <= s.revision
    /\ Numbered(FrozenEvents(s))
    /\ Numbered(FrozenIntents(s)) /\ \A i, j \in s.intents : i = j

(* The commands pending in s: those of the log from this tick on, in the   *)
(* log's order, and what a decision has left, after every command for this *)
(* tick.                                                                   *)
Logged(log, s, c) ==
    /\ c.lsn \in 1 .. s.included /\ IsCommand(log, c.lsn) /\ c.due >= s.tick
    /\ c.due = log[c.lsn].due /\ c.op = log[c.lsn].rec.op
    /\ \A d \in s.cmds : d.lsn # 0 => (d.lsn < c.lsn <=> d.seq < c.seq)

Left(s, left, c) ==
    /\ c.lsn = 0 /\ c.due <= s.tick /\ \E d \in left : c.op = d.op
    /\ \A d \in s.cmds : d # c /\ d.due <= s.tick => d.lsn # 0 /\ d.seq < c.seq

PendingOf(log, s, left) ==
    /\ Numbered(FrozenCommands(s)) /\ s.included \in 0 .. Len(log)
    /\ \A c \in s.cmds : Logged(log, s, c) \/ Left(s, left, c)
    /\ \A l \in 1 .. s.included :
          IsCommand(log, l) /\ log[l].due >= s.tick => \E c \in s.cmds : c.lsn = l
    /\ left # {} => \E c \in s.cmds : c.lsn = 0

(* s is what the log says, but for the commands that are pending.          *)
Matches(p, log, s) ==
    LET h == History(p, log, s.tick)
    IN  /\ Sound(s) /\ s = Holding(h, s.cmds, s.nextSeq, s.included)
        /\ PendingOf(log, s, h.cmds)

(* What a log holds, and what a checkpoint stands for.                     *)
LogOK(log) ==
    /\ log \in Seq({log[l] : l \in DOMAIN log})
    /\ \A l \in DOMAIN log :
          IF IsCommand(log, l)
          THEN /\ log[l].due \in Nat \ {0}
               /\ log[l].rec.op \in Ops /\ Decodes(log[l].rec)
          ELSE log[l].kind = "hash" /\ log[l].tick \in Nat

HashesOK(p, log) ==
    \A l \in DOMAIN log : ~IsCommand(log, l) => log[l].hash = HashAt(p, log, log[l].tick)

HashesBefore(log, n, t) == \A l \in 1 .. n : ~IsCommand(log, l) => log[l].tick < t

LastIncluded(log, n) == n = 0 \/ IsCommand(log, n)

KeptState(p, i) ==
    IF i = Nothing THEN Begun(p)
    ELSE [tick |-> i.clock, obj |-> i.world.obj, revision |-> i.world.revision,
          erased |-> i.world.erased, cmds |-> i.command_buffer.pending,
          nextSeq |-> i.command_buffer.next, included |-> i.command_buffer.included,
          events |-> i.event_bus.pending, nextEvent |-> i.event_bus.next,
          intents |-> i.ai_intents.pending, nextIntent |-> i.ai_intents.next,
          rng |-> i.random_streams]

Kept(p, log, i) ==
    LET s == KeptState(p, i)
    IN  /\ Matches(p, log, s) /\ RestInTime(log, s)
        /\ LastIncluded(log, s.included) /\ HashesBefore(log, s.included, s.tick)

(* s is no later than x.                                                   *)
NoLater(s, x) == s.tick <= x.tick /\ s.included <= x.included

RunningInv ==
    /\ Matches(program, wal, sim)
    /\ open = Rest(wal, sim) /\ RestInTime(wal, sim)
    /\ LastIncluded(wal, sim.included) /\ HashesBefore(wal, Len(wal), sim.tick)
    /\ NoLater(KeptState(program, image), sim) /\ NoLater(KeptState(program, frozen), sim)

(* While nothing has happened that a replay cannot repeat.                 *)
FollowInv ==
    /\ failed = "no" /\ HashesOK(program, wal)
    /\ Kept(program, wal, image) /\ Kept(program, wal, frozen)
    /\ up => RunningInv

(* Whatever happens, what is saved can be restored.                        *)
Storable(s) == Sound(s) /\ Numbered(FrozenCommands(s))

Standing(s, active) == \A w \in active : w \in Lasting /\ s.obj[w] # Absent

Restorable(p, i) == Storable(KeptState(p, i)) /\ Standing(KeptState(p, i), i.ecs_active_set)

StorageInv ==
    /\ program \in Programs /\ failed \in {"no", "fork", "outcome"}
    /\ LogOK(wal) /\ open \subseteq Rest(wal, Boot)
    /\ Restorable(program, image) /\ Restorable(program, frozen)
    /\ IF up THEN Storable(sim) /\ Standing(sim, Active) ELSE open = {} /\ frozen = Nothing

RecoveryInv == StorageInv /\ (orderly => FollowInv)
==============================================================================
