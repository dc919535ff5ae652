# GeoWorld: formal models

TLA+ models of the parts of GeoWorld whose correctness depends on interleavings,
crashes and ordering, the TLC runs that check them on small instances, and the
theorems TLAPS proves for every value of the constants. File names without a
directory are under `src/libs`; line numbers refer to the commit the models were
written from.

## 1. The system

`geoworldd` runs one world on one main thread: a loop that steps the simulation,
records a state hash, publishes what the tick did to the commands it applied,
polls the control service, collects finished WAL tickets, pumps projections to
the subscribed connections and polls the stream transport
(`apps/geoworldd/main.cpp`). Background threads exist where I/O would stall the
loop: the WAL writer, the checkpoint publisher, the gRPC control server and a
thread pool for per-entity work.

| Component | State it keeps | Operations | Interacts with |
|---|---|---|---|
| Write-ahead log (`persistence/wal_writer.cpp`, `wal_reader.cpp`, `wal_codec.cpp`) | bounded queue, batch, next LSN, fault, segments on disk | append, shutdown, group commit, rotate, fault, start (scan, trim) | called by the gateway and the main loop, tickets polled by them; file system |
| Durable registry (`gateway/durable.cpp`, `durable_persistence.cpp`) | idempotency key -> admission and outcome | lookup, register, mark accepted, mark final, erase, restore | gateway core, WAL records, restart |
| Gateway core (`gateway/gateway_core.cpp`) | pending durable tickets, pending commands, subscriptions, receipts | submit, submit durable, poll tickets, on commands applied, attach, pump, ack | registry, WAL, command buffer, projection, queues, sessions |
| Command buffer and tick (`simulation/command_buffer.cpp`, `tick.cpp`, `runtime`) | ordered pending commands per tick, included LSN | enqueue, apply, snapshot, restore | gateway core, checkpoint |
| Checkpoints (`persistence/checkpoint.cpp`, `checkpoint_codec.cpp`, `manifest.cpp`) | captured state, published files, retained segments | capture at a tick boundary, publish in the background, prune | main loop, WAL directory |
| Recovery and replay (`persistence/recovery.cpp`, `replay.cpp`, providers) | latest valid checkpoint, replay plan | choose, restore, plan, replay, compare hashes | checkpoint, WAL scan, main loop |
| Branches (`persistence/branch.cpp`) | branch manifest | fork from a checkpoint | checkpoint |
| Projection (`projection/engine.cpp`, `connection.cpp`, `policy.cpp`) | per connection: epoch, baseline, unacknowledged frames, dirty set | project a tick, acknowledge, reset epoch, evict | gateway core, replica |
| Outbound queues (`gateway/queues.cpp`) | bounded event queue, latest-wins state queue | push, pop | projection, transport |
| Replica and clients (`protocol/replica.cpp`, `tools/gw-stream-client`) | baseline sequence, entities | apply snapshot or delta, ask for resync, acknowledge, reconnect | stream transport |
| Sessions, tickets, ownership (`gateway/session.cpp`, `ownership.cpp`, `auth.cpp`) | sessions, one-time stream tickets, leases on entities | open, redeem, expire, close, acquire, release | control server, gateway core |
| Control server and stream transport (`gateway/control_server.cpp`, `stream_transport.cpp`) | mailbox of calls, connections and their phase | post, poll, accept, handshake, read, write, close | gateway core |
| Cells (`spatial/cell_lifecycle.cpp`, `streaming.cpp`, `aoi.cpp`) | life-cycle phase of each cell, sets to load and to sleep | request, load, activate, sleep, unload | main loop |
| Thread pool (`foundation/thread_pool.cpp`) | job, generation, next index, workers busy | run, worker loop, stop | simulation |
| World storage (`world_model/world.cpp`) | objects shared with frozen snapshots, generations, revisions | change, erase, freeze, restore | tick, checkpoint provider, projection scan |
| Runtime (`runtime`, `ai`, `rules`, `ecs_runtime`) | clock, events, decision intents, random streams, active entities | step, activate, freeze, restore | command buffer, checkpoint, replay |
| Codecs (`protocol/codec.cpp`, `gateway/frame_codec.cpp`) | none | encode, decode, refuse at limits | gateway, clients |
| Geometry, metrics, authoring tools, showcase | data a tick transforms, counters | sequential | main loop |

Hard behaviour, by component: the WAL loses power between any two file
operations; durable admission is spread over a WAL thread, a poll, a tick and a
second WAL append, so a crash can fall between promise, execution and outcome;
checkpoints are captured at one moment and published at another while segments
are pruned; projections are sent through queues that drop, to clients that
acknowledge late and reconnect; a control call is posted by one thread and
served by another after its caller may have given up. `PROJECT.json` lists the
individual hazards with the line where each one bites.

What makes each component correct, in one sentence each: an acknowledged record
is read again at its LSN (log); a durable command is executed once, in the same
order live and in replay, and its outcome is the one its client was told
(pipeline); a recovery point never misses an admitted command nor counts one
twice, and pruning never removes what recovery needs (checkpoint); a replica
that has acknowledged everything equals the projection, and a lost or reordered
frame ends in a resync instead of a wrong view (projection); a ticket opens at
most one stream and a lease has one holder (sessions); an entity is never
simulated in an unloaded cell and no cell is stuck in a transition (cells); every
index of a job runs once and `run` returns after the last (thread pool); a frozen
snapshot never changes and a restored runtime continues as the one that was
stopped (world and runtime); no frame is lost or overtaken between two threads
and the core keeps no connection nobody will detach (transport); what is
encoded can be decoded, and a client's program says truly what became of its
command (clients).

## 2. Plan

The order follows what an operator of the daemon would lose first.

| # | Modules | Content | State |
|---|---|---|---|
| 1 | `WalWriter`, `DurableLog`, `WalWriter_proofs` | the log under every durable promise, its abstract specification, refinement and proofs | done |
| 2 | `CommandPipeline`, `CommandPipeline_proofs` | a durable command from submission to its receipt and across restarts, composed with what module 1 provides | done |
| 3 | `CheckpointStore`, `CheckpointStore_proofs` | data and manifest published atomically one after the other, verification, retention, pins of branches, WAL pruning against `included_lsn`, the choice of a recovery point, forks | done, proved |
| 4 | `WorldStore`, `WorldStore_proofs` | copy-on-write storage, frozen snapshots read by another thread, the projection's scan over kept pointers | done, proved |
| 5 | `RuntimeRecovery`, its theorems at the end of `WalWriter_proofs` | the runtime's tick, the eight providers of a checkpoint, replay against the log, handles to entities | done, proved |
| 6 | `Projection`, composed in `StreamPath` with the state queue and the replica, `StreamPath_proofs` | deltas against acknowledged views, eviction, epochs, queues that drop, late acknowledgements | done, proved |
| 7 | `Sessions`, `Sessions_proofs` | sessions, one-time tickets, leases, budget, receipts on streams, the mailbox of the control server | done, proved |
| 8 | `StreamTransport`, `StreamTransport_proofs` | the life of a connection over the main thread and the shard threads | done, safety proved |
| 9 | `WireCodec`, composed in `ClientStream` with the three clients, `ClientStream_proofs` | limits of both encoders and the decoder, replica, interpolation buffer, reference and thin client | done, invariants proved |
| 10 | `ThreadPool`, its theorems at the end of `StreamPath_proofs` | the fork-join pool at the level of its atomics | done, invariants proved |

The plan is carried out: every safety property of a passing run is also a
theorem, some under an assumption it names (section 12). Liveness stays with TLC.

The models are cut where one part meets the next, and each names what it takes
from its neighbour: `CommandPipeline` uses the log as `WalWriter` delivers it,
`RuntimeRecovery` a checkpoint that is published in one step (`CheckpointStore`
takes that apart), `ClientStream` a gateway that sends one frame a tick
(`StreamPath` takes that apart), `Sessions` a command whose fate is
`CommandPipeline`'s.

## 3. Module 1: the write-ahead log

`WalWriter.tla` models one writer process after the other over one directory.

| Model | Code (`persistence/src`) |
|---|---|
| `AppendOk`, `AppendRefused`, `Shutdown` | `WalWriter::append`, `shutdown`, under the queue mutex |
| `TakeOne`, `CloseBatch`, `WorkerExit` | `run()`: the mutex is released during the group commit window, so appends interleave with the collection of a batch |
| `CreateSegment`, `WriteHeader`, `RotateSync`, `RotateRename`, `RotateSyncDir`, `WriteRecord`, `EndWrites`, `SyncBatch` | `process_batch`, `ensure_segment_for`, `rotate_segment`: one action per file operation |
| `IoError`, `FailBatch`, `SetFault`, `DrainQueue` | a failed operation and `enter_fault`, in the code's order: tickets, flag, queue |
| `Fulfil`, `FinishBatch` | tickets fulfilled one at a time, then `last_durable` |
| `KilledProcess`, `PowerLoss`, `PowerLossNoFile`, `PowerLossUndoRename` | what a kill leaves, and what a power loss may take: unsynced records, the name of a new file, a rename whose directory was not synced |
| `Readable`, `ScanFails`, `StartRefused`, `Start` | `scan_wal_directory`, `trim_active_tail`, `start()` |

A record is its LSN and the call that carried it. All segments form one sequence
(`log`), of which the first `split` records are in closed segments; segments are
measured in records. Two switches describe the disk and are constants because
the code cannot know them: `LinkOnDataSync` (does `fdatasync` of a new file also
persist its directory entry; `DurableStays` is violated when it does not) and
`TruncateMayFail` (does `truncate_file` fail while the tail is trimmed;
`trim_active_tail` ignores the result, and `DurableStays` is violated when it
does). `DurableLog.tla` is the promise: a sequence readers see, positions
promised, and the loss of any tail that holds no promised entry.

## 4. Module 2: the command pipeline

`CommandPipeline.tla` follows a command with a request id through the main loop.
The WAL appears as what module 1 provides: queued records reach `log` in order, a
fulfilled ticket is in `log` for good, and a stop leaves `log` and some prefix of
the queue.

| Model | Code |
|---|---|
| `SubmitKnown`, `SubmitNew` | `GatewayCore::submit_durable_command`: a known key with the same content is answered (a pending key only joins its ticket), a new one is registered and appended |
| `StartPoll`, `PollSkip`, `PollFailed`, `PollDurable`, `EndPoll` | `poll_durable_tickets`: entries in any order, because `pending_durable_` is an `unordered_map`, while the writer fulfils tickets |
| `ApplyCommand`, `EndTick` | `WorldRuntime::step`, `CommandBuffer::apply`: one command at a time in sequence order, then the checkpoint anchor, the clock, the hash record and the sweep of hash tickets |
| `SettleOutcome` | `on_commands_applied`: receipt found by ingress sequence, verdict published, outcome record offered to the WAL |
| `WalCommit`, `WalFault`, `Publish`, `PublishFails` | the background threads |
| `StopSignal`, `Shutdown`, `Crash` | SIGTERM with flush, or a kill |
| `Restart`, `ReplayTick`, `ReplayDiverges`, `EndReplay`, `ReplayIncomplete`, `WriteOutcome`, `Serve`, `ExitRefused` | `run_daemon` before it serves: `RecoveryPlanner::build`, resubmission under LSNs, replay with hash comparison, `DurableIdempotencyIndex::restore`, missing outcomes |

`told` (answers given to clients) and `world.ran` (requests a world has executed)
are history variables; no guard reads them. Commands act on one object with a
version, which is what makes their verdicts depend on their order. A state hash
is the state it covers.

## 5. Checkpoints: `CheckpointStore`

The directory of one branch: a publication in the background of a daemon, forks
made by `gw-replay` beside it, kills, power losses, failing and rotten files, and
the recovery point the next start chooses.

| Model | Code (`persistence/src`) |
|---|---|
| `Capture`, `NameData`, `SyncDirectory`, `SyncData`, `NameManifest`, `SyncManifest`, `Verify`, `PublishFails` | `CheckpointCoordinator::publish` over `atomic_publish`: rename and directory sync are separate steps, twice |
| `Pinned`, `Removable`, `RetireData`, `RetireManifest`, `EndRetention` | retention: pins listed once, data removed before its manifest, going on past a failed removal |
| `EndRetention`, `Covered`, `PruneOne`, `EndPrune` | `prune_covered_segments`: one listing settles what goes (`doomed`), each removal may fail and the next one is tried all the same |
| `ChooseBase`, `PublishFork`, `ForkFails` | `fork_branch_at_checkpoint`, a process of its own |
| `Candidates`, `Latest`, `StartsFrom`, `StartsAnew`, `RestartFrom`, `RestartAnew` | `CheckpointLoader::list_valid` and `RecoveryPlanner::build`; the WAL is its records and the first LSNs of its segments |

A publication is named by the generation in its file names, so no file is
overwritten. Nothing syncs the WAL directory after a removal but the next rotation
(`wal_writer.cpp:322`): `segsS` are the segments of that sync, and after a power
loss any of the pruned ones may be back. So a failed removal, or one a power loss
takes back, can leave an old segment beyond a hole, and `scan_wal_directory`
(`wal_reader.cpp:124`) refuses the directory for it, although no checkpoint needs
the records that are missing. `ReportedIsKept` therefore says what pruning does
guarantee: the records behind the latest checkpoint are all there, and a hole is
the only ground on which the next start can be refused; that no start is refused
(`NeverRefused`) is false (section 13).

Retention counts pairs whose manifest it finds, readable or not
(`checkpoint.hpp` says "published and verified"). A restart and a fork trust a
name no directory sync has covered yet: `BaseStays` is therefore about running
daemons, and `reported` about publications that returned.

## 6. Storage and runtime: `WorldStore`, `RuntimeRecovery`

`WorldStore` models the persistent-storage build (`CMakeLists.txt:367`): objects
in memory cells shared by the storage and its snapshots, a generation that says
which entries a snapshot may share, and three readers on other schedules. Cells
without an owner may be handed out again, which is what makes a stale pointer
visible.

| Model | Code |
|---|---|
| `Touch`, `Insert`, `Erase`, `Change`, `RelateRetired`, `Update` | `World` (`world_model/world.cpp`): `writable_find` copies an entry a snapshot may share |
| `Freeze`, `Drop`, `Encode` | `freeze_snapshot`, with the renumbering at the end of the generation counter; the provider that encodes on the publisher's thread |
| `Restart` | `World::restore` of a published block |
| `Moved`, `Pointers`, `Baselines`, `Dirty`, `Scan` | `ProjectionEngine::on_projection` (`projection/engine.cpp:112-286`): pointers and baselines kept while three numbers stand |

`update()` is taken to raise the version with the content. With `Silent = TRUE`
(a caller that does not) `ScanSeesTheWorld` fails, although the comment at
`engine.cpp:112` claims the equality; only a moved position is noticed without a
new version (`projection_test.cpp:225`).

`RuntimeRecovery` has the tick in the order of `WorldRuntime::step` (commands,
events, decisions, anchor, projection phase, clock), a checkpoint of eight parts
and a restart that validates all, restores all in the order of
`providers_in_restore_order`, enqueues the durable commands behind the
checkpoint, runs to the last promised tick, comparing hashes on the way, and
refuses to serve when one of these commands came to no outcome. What
is pending (commands, events, intents) is a set of numbered elements: the code
keeps vectors, sorts them before it walks them and hands every number out once.
Each of its loops is `InTurn`, a step taken for one number after the other.

| Model | Code |
|---|---|
| `Applied`, `Dispatched`, `Decided`, `Flushed`, `Stable`, `Finished`, `Step` | `runtime`, `rules/event_bus.cpp`, `ai` decision snapshots and intents, `simulation/command_buffer.cpp` |
| `ExecutedTo`, `HandledTo`, `ForwardedTo`, `EnqueuedTo`, `ListedTo`, `RestoredTo`, `RunTo` | the loops of `apply`, `dispatch_due`, `flush`, the scan of the replayed records, `providers_in_restore_order`, the second phase of `restore_into` and the replay |
| `Activate`, `Deactivate`, `Destroy`, `Names` | `ecs_runtime/runtime.cpp`: slots, generations, the free list |
| `MadeAgain` | `EcsActiveSetProvider::restore`: a new slot for each entity of the active set |
| `Capture`, `Publish`, `Validates`, `RestoreOrder`, `RestoreClock` ... `RestoreEntities`, `RestoreInto` | `persistence/provider_runtime.cpp`, `provider_world.cpp`, `checkpoint.cpp`, `recovery.cpp` |
| `Submit`, `Enqueue`, `Encoded`, `Decodes` | `submit_durable_command`, `poll_durable_tickets` (`gateway/gateway_core.cpp`), `gateway/durable.cpp` |
| `Seeding`, `Begun`, `EnqueuedAll`, `Run`, `Unexecuted`, `Restart` | the seed object and the recovery of `apps/geoworldd/main.cpp` |

A command is appended to the log in one step and enqueued in another, when its
ticket is polled: any number of ticks, checkpoints and other commands later, and
in any order, since the code walks a hash map. A crash may take the record of a
command whose ticket is `open`, or leave it. A replay enqueues all of them in the
order of the log before its first tick. Where the process itself enqueued a
command after its target tick, after a later one of the log, or at its target tick
behind what a decision had left for that tick, a replay does something else; where
the seed was in no checkpoint yet, a start that finds a record does not give it
again. `orderly` is history and says that none of this has happened (`InTime`,
`Enqueue`, `Unseeded`): while it holds the state follows from the log and no start
is refused. Section 13 has what happens otherwise. A ticket that fails belongs to
a writer at fault (`CommandPipeline`) and is left out; so are outcome records,
which no step of the runtime reads, and an exhausted sequence space.

Handlers and decisions are the application's. `Programs` names which of three
small ones are registered; the daemon itself registers none. What they enqueue
for a far tick would be ordered differently by a replay, and what a projection
phase callback ("late") does after the anchor is in no checkpoint, so
`StateFollowsFromLog` is checked for handlers that write into the coming tick.
State of the behaviour-tree and FSM evaluators is in no checkpoint and not in the
model. `revision` is not in `world_state_hash`, but is in the property.

## 7. The stream: `Projection`, `StreamPath`, `StreamTransport`

`Projection` holds pure operators for one connection: which frame a step builds,
what is remembered of it, how an acknowledgement advances the baseline.
`StreamPath` adds the world, the state queue of `gateway/queues.cpp`, the pump,
the wire and the client's replica. The queue is the set of its frames: there is
at most one frame of a snapshot, and `push_back` and `pop_front` follow the order
of the snapshots.

| Model | Code |
|---|---|
| `BuildKeyframe`, `BuildDelta`, `Candidates`, `Entering`, `Leaving`, `Stale`, `HeldBack`, `Converge` | `ProjectionEngine::build_frame`, `process_visible_wid`: candidates on a cache hit, the slow class, truncation, the incremental view |
| `Record`, `AckVerdict`, `Acknowledge`, `Replay`, `ResetEpoch` | `connection.cpp` |
| `Merged`, `Shrunk`, `Push`, `Resynced`, `Pump`, `Send` | `StateQueue::push`, `GatewayCore::pump`, `next_outbound` |
| `Receive`, `Applied` | `ReplicaAccumulator::apply`, `ThinConnection::enqueue_ack` |

One snapshot per tick; hashes may repeat; policy versions, relevance filters and
the reliable queue are left out (the latter is in `Sessions`). A reconnect is a
new connection with epoch 1, so one connection is enough. A queue overflow can
drop the keyframe that opens an epoch: `ReplicaFidsAgree` is conditioned on the
epoch of the last keyframe the client has.

`StreamTransport` is one instance of a connection on two threads: accepted and
checked on the main thread, carried there or handed to a shard. Steps are what
the other thread can observe: a critical section, an atomic operation, a post.

| Model | Code (`gateway/stream_transport.cpp`) |
|---|---|
| `Accept` ... `EndHere` | `ws_session` and `Impl` on the main thread |
| `TakeInbox`, `HandleEvent`, `Access`, `FlushLocal`, `FlushRemote`, `Sweep` | the parts of `poll()` |
| `RunHandler`, `TakeOutbox`, `WriteThere` ... `EndThere` | `shard_session`: handlers, the outbox drain with its kick flag, reads, writes, close |

`CloseSession` is what an RPC does to the core between two polls: the connections
of a session leave the core's table (`Known`) while their sockets, their sessions
and their entries in `remotes` stay (`gateway_core.cpp:90`). They get no further
frame, are condemned for nothing, and are detached when their peer goes.

A close waits for the WebSocket handshake without a timeout, so a peer that does
not answer keeps its session (`docs/M4.md:110` and `:488` promise an end);
`shutdown()` is not modelled.

## 8. Sessions: `Sessions`

The gateway core without its durable path, behind the mailbox that carries RPCs
from gRPC threads to the main loop.

| Model | Code (`gateway/src`) |
|---|---|
| `Call`, `TakeJobs`, `Done`, `JobsDone` | `ControlService::dispatch`, `post`, `run_jobs` |
| `Open`, `Close`, `Ticket`, `Subscribe`, `Acquire`, `Release`, `Submit` | the bodies of the RPCs in `gateway_core.cpp`, `session.cpp`, `ownership.cpp` |
| `Step`, `Pump`, `Attach`, `Ack`, `Send`, `Detach`, `TimePasses` | outcomes and receipts, heartbeats, timeouts, the data plane |

The timeout of a call is taken as longer than an iteration of the loop: a job
that outlives its caller writes to memory that is gone, which no model can state.
`pending_subscriptions_` and `receipts_` outlive a closed session
(`docs/M4.md:228`), so `NothingOutlivesClose` is about leases, tickets and
streams; ownership is checked at admission only (`docs/M4.md:230`);
`last_ack_tick` 0 stands for "never" (`docs/M4.md:336`). What `acquire` grants
before it refuses at a later key stays granted.

## 9. Codecs and clients: `WireCodec`, `ClientStream`

A projected entity is reduced to the counts and lengths the limits look at;
`WireCodec` has the direct encoder of state frames, the protocol's encoder over
wire structures, and the decoder, each with its refusals: what the encoders
measure (text lengths, entries of a bag, relations, entities) and what only the
decoder does (the bytes of the whole message, and the number and depth of its
tables, `Verified`). `Tables` and `Depth` count a message by its schema. The two
encoders are separate definitions, as they are separate functions, which the code
keeps identical statement by statement (`frame_codec.cpp:129`): `DirectFrame` is
the tables the direct one writes, `ToWireFrame` what the other is given; that
they agree for entities of a projection is the lemma `DirectEncoderIsTheOther`.
`ClientStream` runs one
of three clients of `tools/gw-stream-client` against a gateway that sends one
frame a tick: the reference client's closed loop (`Call`, `Connect`, `Read`,
`ReadFails`, `Submit`), the thin client with its reads, writes and pauses on two
threads (`ThinConnect` ... `SetStopping`), and a viewer on the same library that
feeds `InterpolationBuffer` (`View`, `RequestKeyframe`). A blocking call of the
reference client may be given up by its watchdog after the gateway served it.

## 10. The thread pool: `ThreadPool`

Every atomic access and critical section of `foundation/thread_pool.cpp`, and the
two halves of a condition-variable wait, because the destructor stores its flag
without the mutex. `Post`, `CallerClaim`, `CallerWork`, `CallerJoin` are `run()`;
`Check`, `Block`, `Claim`, `Work`, `Leave`, `Tell` the worker loop; `Destroy`,
`NotifyStop`, `JoinThreads` the destructor.

## 11. Runs

| Run | Instance | Shows |
|---|---|---|
| `wal_safety` | 3 appends (1 relaxed), queue, batch and segment of 2 records, 3 LSNs, 2 crashes | acknowledged records are read again at their LSN, in admission order, every directory a crash leaves is accepted, the writer refines `DurableLog`, every accepted append is answered |
| `pipeline_safety` | 2 requests over create, guarded set and destroy; queue of 2; 5 ticks; 2 kills or signals; no checkpoints | promised commands are kept and executed, receipts and verdicts are the right ones, retries never go back |
| `pipeline_checkpoint` | create, and a set delayed by a tick hint; a checkpoint every second and a hash every third of 5 ticks; 2 stops | no double execution and no forgotten key, from a checkpoint either |
| `pipeline_hole` | checkpoint every tick, 1 kill | violated `PromisedIsKept` |
| `checkpoint_store` | 2 publications, retention of 1, pruning on, 3 records and segments, 1 fork, 2 failing operations, 1 rotten pair, 2 stops | what was reported and all records behind it are kept, only a hole in older segments can refuse a start, an accepted start skips no record, and retention leaves every base |
| `world_store` | 2 objects, 2 values, 2 places, 5 cells, 2 generations | snapshots are frozen across the renumbering, kept pointers are live, the scan's shortcut is exact |
| `runtime_recovery` | 2 objects, 2 commands with leads of up to 2 and polled at any time, 3 ticks, events with decisions or a seed with decisions (1.2 million states, depth 23) | while commands are enqueued in their turn and no seed is lost, the state follows from the log and no restart is refused; handles name their activation |
| `stream` | 3 entities, 2 FIDs an epoch, 1 slow entity, 2 unacknowledged frames, queue of 2 small frames, 4 snapshots | a keyframe heals, FIDs agree, drops are repaired, the incremental view is exact |
| `transport` | 1 connection, with and without shards, 2 frames each way, a buffer of 1 | frames keep their order, core and sessions agree, no wake-up is lost, with calls of `close_session` at any point |
| `sessions` | 2 callers, 2 connections, 2 sessions, 4 calls, 2 properties, a reliable queue of 1, 5 ticks | nothing acts for a closed session, a retry is not enqueued again, receipts reach live streams, leases stand |
| `client` | 3 clients, 3 entities, limits of 1 and 2, a frame limit of 7 bytes, 11 tables and 6 levels, 3 ticks | what was encoded is refused as a whole or not at all, playback follows, exit codes are true, one operation at a time |
| `thread_pool` | 2 workers and the caller, jobs of 1 and 3 indices, 3 jobs | every index once, a barrier, and `run()` returns |

Why the bounds are enough. Two stops give a daemon that was itself recovered and
is stopped again, in particular during recovery; a third repeats one of these.
Two requests are the least for which order, a gap in the LSNs and a wrong receipt
exist. A queue of two fills (so records are refused and outcome records dropped)
and still holds a command and the outcome of another. In the WAL, three appends
over segments of two force a rotation and a batch across it, and three LSNs let
the space run out. Two publications that keep one pair bring a retention, a pruning
and a start from either, and two failing operations a removal that fails in each;
three publications, the least in which a pair is neither the newest nor the only
older one, were checked with one failing operation (7.8 million states) outside
the run, for its length. Three entities for two FIDs force the rebuild
of an epoch; four snapshots leave room for a drop, its keyframe and a late
acknowledgement. A generation counter of two wraps at the second freeze. Two
sessions are needed to contend for a lease, two connections for one ticket. Two
commands are enough for one to overtake the other, and three ticks for a
checkpoint between their target ticks.
Jobs of one and three indices have fewer and as many indices as threads, and three
jobs let a worker that slept through one meet the next two. In the pipeline the
last tick repeats (`NextTick`), so its tick bound ends no behaviour; elsewhere it
does, and every property is about states and steps before it.

Deadlock is checked where the system never stops: the pipeline and the
transport. Elsewhere each cfg says what may be the end of a behaviour.
`ConnSymmetry` and `Symmetry` exchange callers, connections and objects that no
definition tells apart; no run with symmetry checks liveness.

Fairness. `wal_safety` assumes that the worker thread is scheduled and nothing
about callers, crashes or failures. `pipeline_safety` assumes that the main loop
and the recovery take their steps, that the writer commits or faults (its loop
does one or the other), that a publication ends, that a shutdown completes and
that an operator starts a stopped daemon again; stops are bounded, since a daemon
killed in every recovery executes nothing. `thread_pool` assumes that threads are
scheduled and that one that asks for the mutex again and again gets it, nothing
of spurious wake-ups. `transport` assumes that the main loop polls and the
io_contexts run what is ready; of socket operations only those of a peer that is
gone are assumed to end, because a live peer need neither read nor answer.

## 12. Proofs

Every theorem holds for all values of the constants that the named `ASSUME` of
its module allows, whatever the bounds of the runs; a further assumption is part
of the theorem's statement. Each safety theorem rests on an inductive invariant,
stated at the end of the module it is about (the clients' and the log's first
beside the proof), which TLC checked on the run's instance before it was proved.
Proofs have one lemma per action, and under it a step per conjunct that action can
disturb.

| Theorem | States | Under |
|---|---|---|
| `WalWriter_proofs!WalInvariant`, `DurableRecordsStay`, `RestartIsAccepted`, `TypeCorrect` | `WalInv`, `DurableStays`, `RestartAccepts`, `TypeOK` | `Honest` |
| `WalWriter_proofs!OrderInvariant`, `PromisesFollowAdmission` | `OrderInv`, `LsnsFollowAdmission` | `Honest` |
| `WalWriter_proofs!WriterImplementsLog` | `ImplementsDurableLog` | `Honest`, `EnoughLsns` |
| `CommandPipeline_proofs!TypeCorrect`, `RegistryForward` | `TypeOK`, `RegistryMovesForward` | |
| `CommandPipeline_proofs!PromisesSurvive`, `ReceiptsAreOwn`, `VerdictsAreExecuted` | `PromisedIsKept`, `ReceiptIsOwn`, `VerdictMeansExecuted` | `CheckpointEvery = 0` |
| `CommandPipeline_proofs!NothingRunsTwice`, `PromisesAreRemembered` | `AtMostOnce`, `PromisedIsRemembered` | |
| `WalWriter_proofs!EntityInvariant`, `HandlesNameTheirEntities` | of `RuntimeRecovery`: `EntityInv`, `HandleNamesItsEntity` | |
| `WalWriter_proofs!RecoveryInvariant`, `StatesFollowFromTheLog`, `RestartsSucceed` | of `RuntimeRecovery`: `RecoveryInv`, `StateFollowsFromLog`, `RestartSucceeds` | `Replayable` |
| `CheckpointStore_proofs!StoreInvariant`, `StoreTypes`, `ReportedAreKept`, `NothingIsSkipped` | `StoreInv`, `TypeOK`, `ReportedIsKept`, `NothingSkipped` | |
| `CheckpointStore_proofs!ForksKeepTheirBase` | `BaseStays` | `~ForkWhileLive` |
| `WorldStore_proofs!WorldInvariant`, `SnapshotsAreFrozen`, `BlocksAreAccepted`, `ScansReadTheStorage` | `WorldInv`, `FrozenStaysFrozen`, `ImageAcceptable`, `PointersAreLive` | |
| `WorldStore_proofs!ScansAreExact` | `ScanSeesTheWorld` | `~Silent` |
| `StreamPath_proofs!PathInvariant`, `KeyframesHeal`, `ReplicasUseTheFids`, `DropsAreRepaired`, `ViewsConverge` | `PathInv`, `KeyframeHeals`, `ReplicaFidsAgree`, `DropIsRepaired`, `ViewIsAckedPlusFrame` | |
| `StreamPath_proofs!PoolInvariant`, `IndicesRunOnce`, `RunIsABarrier` | of `ThreadPool`: `PoolInv`, `EachIndexOnce`, `Barrier` | |
| `StreamTransport_proofs!TransportInvariant`, `FramesStayInOrder`, `CoreKnowsLiveSessions`, `RemotesAreAttached` | `TransportInv`, `FramesKeepOrder`, `CoreMatchesSessions`, `NoStaleRemote` | |
| `Sessions_proofs!SessionInvariant`, `ClosingLeavesNothing`, `TicketsOpenOneStream`, `RetriesAreNotEnqueued`, `ReceiptsArrive`, `LeasesStand` | `SessionInv`, `NothingOutlivesClose`, `TicketOpensOneStream`, `EnqueuedOnce`, `ReceiptsReachStreams`, `GrantsStand` | |
| `ClientStream_proofs!EncodedIsDecoded` | a theorem about the operators of `WireCodec` | |
| `ClientStream_proofs!StreamInvariant`, `RefusedAsAWhole`, `OneAtATime` | `StreamInv`, `OnlyTheWholeIsRefused`, `OneOperationEach` | |
| `ClientStream_proofs!ReportInvariant`, `ExitCodesTell`, `PlaybackKeepsUp` | `ReportInv`, `ExitTellsVerdict`, `PlaybackFollows` | |

**The log.** `Honest` describes the disk: names persist with `fdatasync`,
truncation works, no payload is over the limit. Each part of it dropped gives a
counterexample (section 3). `WalInv` says that LSN `i` is record `i` and that what
a closed segment lacks on stable storage is only a suffix (disk), that the
writer's next LSN and its files agree with the disk (writer), that the LSNs of the
running batch are the last records of the log (batch), and that every ticket
answered "durable" names a stable record (promise). `DurableStays` alone is not
inductive: a power loss between the last write of a batch and its sync needs the
batch part. `OrderInv` adds the order of admission: the batch and the queue are
the end of the sequence of accepted calls, whatever failed before them is over,
no call is written twice, and promises made before the running batch lie below
it. From it follow `LsnsFollowAdmission` and, action by action, that the writer
is the abstract log: a write and the sync under it append, a fulfilled ticket is
a promise, a crash loses a tail without promises, all else stutters.
`EnoughLsns` says that the calls ever made are no more than LSNs exist; without
it the model's last LSN is given twice, where the program has 2^64.

**The pipeline.** `RegistryInv` ties each pending ticket to its own pending entry
and each expected receipt to its own durable one; it carries
`RegistryMovesForward`. `PipelineInv` says that a ticket's LSN is a command record
of its request (`TicketInv`), that the queue entry of a ticket is that record
(`QueueInv`), that whatever is in the buffer or was reported has its record
(`RecordInv`), and that what the registry knows is held by the world, what is
promised is logged and known, and what is logged is held again once the replay is
set up (`HoldInv`). `ReceiptInv` adds that a finished replay leaves an empty
buffer, so that the ingress sequences found there are all of the process that
serves, one command each. These three need `CheckpointEvery = 0`, and
`pipeline_hole` and section 13 show why: with checkpoints the properties fail.
`OnceInv` needs no such assumption. A request has one record at most, in the log
or on its way there; an open ticket's command is in no world and no buffer;
registry and log know the same requests; and world, buffer and every checkpoint
hold each request once, with `included` at or behind its record, so that the
replay behind a checkpoint brings nothing twice.

**Checkpoints.** `StoreInv` says that the newest segment stays and that what a
pruning still has to remove ends before the record behind its checkpoint
(`SegInv`), that files belong to publications begun (`DirInv`), and that while
every file can be read there is a best pair (`BestInv`): complete in the directory
and in its last sync, not older than what was reported, every record behind it in
a segment that exists (`Held`), and such that no newer pair that exists now or may
turn up after a power loss needs an older record. That last clause is what
retention and pruning must not break between their steps. Older segments may have
holes, since a removal may fail or be taken back; before the first report no
segment is gone. `BaseStays` needs that no branch is forked while a daemon
publishes; section 13 has the counterexample.

**The world.** `WorldInv` says that an object a snapshot shares is older than the
current generation and no two entries share a cell (`StoreInv`), that objects were
numbered by the counter of their block (`NumberInv`), and that while both
revisions stand the kept pointers are the storage's (`PointerInv`). `ViewInv` says
of every cached baseline that it is of an entry with this revision and at least
this version, which makes the scan's shortcut exact when `update()` raises the
version with the content (`~Silent`).

**Entities.** `HandleNamesItsEntity` is not inductive: a stale handle must not come
to name the next occupant of its slot. `EntityInv` says that a handle is not newer
than its slot and strictly older than a slot that is unused (`HandleInv`), that
every free slot is unused and listed once, so that no slot is filled twice
(`FreeInv`), and that the active set of a checkpoint is finite, so that a restart
makes a sequence of slots (`ImageInv`). `Deactivate` ends at the last generation `GenMax`,
before the counter wraps to 1: after 2^32 - 1 reuses of one slot a handle that old
would be valid again.

**Recovery.** A runtime that was restarted has executed the commands of the log
under other numbers, and may have come from any checkpoint, so no comparison of
two runtimes is inductive. `History` is what both are compared with: the state at
every tick as a function of the callbacks and the log alone, in which a tick
executes the log's commands for it in the order of their LSNs and then the one
that a decision has left. `Matches` says that a runtime is in the history of its
tick but for its pending commands and their numbers, and that these commands are
the ones the log still owes it, in the log's order, with the decision's behind
every command for the same tick (`PendingOf`). `RecoveryInv` has two parts.
`StorageInv` holds whatever happens: every record of the log can be decoded, the
published checkpoint and the one on its way can be restored, the objects of active
entities exist. `FollowInv` holds while the process is `orderly`: no start was
refused, the runtime matches the log, both checkpoints match it at the tick they
resume with (`Kept`), the open tickets are exactly the commands the runtime has not
included and each is still in time (`RestInTime`), and each hash in the log is the
one `History` has for its tick (`HashesOK`).

The proof has three parts. First, each operation of a tick is shown to leave the
pending commands out of account: it does the same to a state and to that state
holding other commands (`Holding`), so a tick of a runtime that matches is a tick
of the history (`MatchesLater`); that the pending commands in the order of their
numbers do what the log says in the order of its LSNs is an argument over the
least number not yet executed. Second, the history up to a tick does not change
when the log grows by commands for later ticks or loses hashes from its end
(`PlayedStays`, `KeptStays`, `KeptInShorter`), which covers a submission, a step
and a crash; a poll moves a command from what is owed to what is pending, at the
end of the log's order because it was not overtaken. Third, a start: the providers in their order, each bringing its part
of the checkpoint and none taking back what another brought, make the state the
checkpoint was captured from; enqueueing the commands behind it makes that state
match the whole log; and every replayed tick finds its hash. Loops are functions
over the numbers; what holds of all of their values is shown by the set of
numbers it holds for, which has 0 and with every number the next (`EveryNumber`,
`Steps`).

`Replayable` is what the code needs for this. Nothing may be drawn after the anchor
("late"), since the checkpoint of the tick was taken before. No command may destroy
an object that has an entity, and the length of a text must be positive and fit
its record: section 13 has what happens otherwise. The theorems of the runtime
close the module of the log it is replayed from.

**The stream.** `PathInv` relates the wire, the queue, the frame pending and the
replica: frames are ordered by snapshot and by epoch along that path and lie
behind the client's last keyframe; those projected since the world last changed
show the present world; frames and replica of the current epoch use the FIDs of
the mapping, which is injective; and off the wids an acknowledgement or a record
touched, the incremental view is the acknowledged one unless a keyframe is asked
for. Nothing is assumed but `ProjectionConstants`. The replay of acknowledged
records is a recursive function; what it yields is shown by a least
counterexample over the records, not computed. The queue drops from the front,
so a keyframe can be lost too: that is why `KeyframeHeals` speaks of the last
keyframe applied, and why `DropIsRepaired` is needed beside it.

**The pool.** `PoolInv` adds to the two properties what they rest on: `active`
and `entered` are the numbers of workers inside the job and of workers that have
seen it (`CountInv`, an argument over cardinalities), an index below the counter
was run or is held by exactly one thread (`IndexInv`), and whoever stops taking
indices has seen the counter at its end (`EndInv`). `Barrier` is not inductive
without `entered`: a worker that never entered would still come. Its theorems are
in the module of the component that runs its chunks on the pool.

**The transport.** `TransportInv` says that a connection has frames in one of the
two sessions only (`OneCarrier`), that what is being written is the front of the
queue unless an error frame was put before it (`FrontIsWritten`), who is registered
where (`Lives`), and in which order handlers and events of one connection stand in
their queues (`HandlersInOrder`, `EventsInOrder`): an attach event before the
closed event, an erase handler only for what the core has forgotten. The
invariant speaks of the connections the transport still owes a `detach_stream()`
(`EndsAreOwed`, `RemotesAreOwed`), of which `close_session()` may have taken any
from the core; the two properties follow for what is left.

**Sessions.** `SessionInv` is the properties themselves with what a ticket
leaves behind (`TicketsSpent`), that what was enqueued has a receipt, and that
what a stream was due is what it was sent followed by its queue (`StreamsWhole`).

**Clients.** `StreamInv`: everything under way is what the other end accepts unless
the message as a whole is beyond what that end reads, and the flags of the thin client say which of its operations are under way. It must
speak of the acknowledgements still in the thin client's queue, which is where the
messages on the wire come from. `ReportInv`, in the proof module, ties what the
reference client has counted to what the gateway did: a receipt it holds is of its
command and true, and each end of its loop leaves the exit code that says so.
`PlaybackInv` adds to the buffer what comes after it: the state frames under way
are of later ticks than its newest snapshot and in the order of their ticks, so
`retain()` never meets a time that is not newer, and their entities have the
values to render. Its only assumption, `PlaybackDelay`, is the clamp in the
constructor (`replica.cpp:171`): with a negative delay the time to render would
lie beyond the newest snapshot.

Only model-checked. The four liveness properties (`EveryTicketEnds`,
`PromiseIsExecuted`, `RunReturns`, `BoxDrains`) rest on fairness and stay with
TLC. So do the type invariant of `StreamPath` and the bound of an outbox in that of
`StreamTransport`. The properties of the next section are stated in the modules
and fail in the instances given there; the type invariants have no run of their
own.

## 13. Where code and documents part

One run is expected to fail. `pipeline_hole`: `included_durable_lsn_` is a
maximum, tickets are polled in map order while the writer fulfils them, so a
checkpoint may claim an acknowledged command it does not hold (`docs/M5.md:448`).

Further disagreements the models show. Each property is stated in its module and
fails in the instance described:

| Property | Instance | What happens |
|---|---|---|
| `WalWriter!DurableStays` | `wal_safety` with `Large <- OneLarge` | `append` and `decode_record` compare different sizes with the same limit (`wal_writer.cpp:196`, `wal_codec.cpp:69`): an acknowledged record is trimmed by the next start |
| `WalWriter!LastDurableIsStable` | `wal_safety` | after a kill `start` reports scanned records as durable that no sync covered (`wal_writer.cpp:162`, `docs/M5.md:169`) |
| `CommandPipeline!ReceiptIsOwn` | `pipeline_checkpoint` with a checkpoint every tick | ingress sequences restart with the process, restored commands keep old ones (`gateway_core.cpp:619`, `docs/M4.md:302`): a verdict is recorded for the wrong request |
| `CommandPipeline!OneVerdict` | `pipeline_hole` without checkpoints | commands finished together run in map order and replay in LSN order (`gateway_core.cpp:383`): after a kill a client may be told the opposite verdict |
| `CommandPipeline!RestartIsAccepted` | the same with a hash every tick | the seed object is in no record (`main.cpp:578`): with a hash record and no checkpoint the daemon refuses its own log |
| `CheckpointStore!NeverRefused` | `checkpoint_store` | `prune_covered_segments` goes on past a removal that fails (`checkpoint.cpp:106`) and syncs none of them: the scan refuses the hole (`wal_reader.cpp:124`) although only covered records are missing (`docs/M5.md:378`: recovery ends at the last promised point or the current one) |
| `CheckpointStore!BaseStays` | `checkpoint_store` with `ForkWhileLive = TRUE` | pins are read once before retention (`checkpoint.cpp:344`): a branch forked meanwhile loses its base (`docs/M5.md:232`) |
| `StreamPath!CandidatesSuffice` | `stream` | on a cache hit a delta misses a wid whose acknowledged state changed since (`engine.cpp:789`): the client keeps a destroyed entity until a keyframe |
| `StreamPath!SentCanBeAcked` | `stream` | the keyframe that opens a rebuilt epoch is at the epoch's floor (`engine.cpp:599`): acknowledging it disconnects (`docs/M4.md:190`) |
| `StreamPath!ReplicaMatchesView` | `stream` | a client that applies everything has more than the acknowledged view and one frame (`docs/M4.md:193`) |
| `StreamTransport!SessionsAreKnown` | `transport` | `close_session` erases the streams of its session from the core and tells the transport nothing (`gateway_core.cpp:90`; `docs/M4.md:228` has it release the session's subscriptions): their sockets stay open, silent, until the client leaves |
| `StreamTransport!ErrorBeforeClose` | `transport` | an error frame put in front of a frame being written is removed in its place (`stream_transport.cpp:318`) |
| `RuntimeRecovery!StateFollowsAlways` | `runtime_recovery` | the seed of a start that crashed before its first checkpoint is not given again once a record is found (`main.cpp:575`, `docs/M5.md:7`) |
| `RuntimeRecovery!RestartAlways` | `runtime_recovery` | the same with a hash behind it: the start is refused as a fork; without a seed, a command enqueued after its target tick or behind a later one does it (`gateway_core.cpp:384`, `:383`) |
| `RuntimeRecovery!OutcomeAlways` | `runtime_recovery` | a command whose ticket is polled after a checkpoint has passed its target tick has no outcome in a replay: the start is refused although every file is sound (`main.cpp:424`) |
| `RuntimeRecovery!RestartSucceeds` | `Text = {0, 1, 2}` | a CREATE without semantic type, or with one of 65536 bytes, is admitted and logged, and every later start exits with code 5 (`durable.cpp:394`, `docs/M5.md:7`) |
| `RuntimeRecovery!RefusedLeavesNothing` | `Lasting = {}`, `Programs = {{"events"}}` | the active set is compared with the world only while restoring (`provider_runtime.cpp:548`, `docs/M5.md:447`) |
| `ClientStream!OnlySizeRefuses` | `client` | the verifier's limits on tables and depth are the decoder's alone and may be anything but zero (`limits.hpp:45`): a frame inside every limit an encoder knows is refused as malformed (`codec.cpp:629`), which ends the stream |
| `ClientStream!FrameLimitHolds` | `client` | no encoder looks at the size of the frame it made (`queues.cpp:33`, `docs/M4.md:335`) |
| `ClientStream!HashesAgree` | `client` | attributes of relations are in the gateway's hash and not on the wire (`docs/M4.md:193`) |

Smaller observations. Commands restored with a checkpoint's buffer get no outcome
record; a record whose append
reported a fault may still be on disk and run after a restart. With more than one
checkpoint kept, the older pairs may be unusable after pruning. The slow class of
an entity stops mattering once its frame is acknowledged; an entity truncated
from a delta is no candidate on a cache hit. A frame an encoder refuses goes out
as an empty message that counts as sent (`gateway_core.cpp:573`). The reference
client counts any earlier update of its entity as the effect of its command, and
not at all an effect that arrives in a keyframe. The thin client's write flag
stays set after a failed write. The pool's destructor can notify between a
worker's predicate and its wait, and then joins for ever (`thread_pool.cpp:20`).

## 14. Not modelled

Commands without request id (`submit_command`) in `CommandPipeline`, which are in
no record and vanish with the process (`Sessions` has their admission). Cell life
cycle and streaming plans (`spatial`): no program of the repository runs them,
only an integration test; one oddity is that a plan puts loaded cells to sleep
while `sleep()` accepts active ones only (`streaming.cpp:56`). Behaviour trees,
state machines and scripting: sequential evaluators with no state in a
checkpoint. `ReplayDriver` and the inspection tools: sequential readers of the
log. Geometry over the S2 library; byte layouts, compression, TLS, gRPC and
HTTP plumbing, which are third-party or pure I/O; metrics and logs; the authoring
tools and the showcase, which are a user interface and document conversion.
`PROJECT.json`, "components", gives the reason for each.
