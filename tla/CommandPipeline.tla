--------------------------- MODULE CommandPipeline ---------------------------
(***************************************************************************)
(* A durable command from submission to its final receipt, and across the  *)
(* restarts of geoworldd: admission and registry (GatewayCore,             *)
(* DurableIdempotencyIndex), the command buffer, the tick, the main loop's *)
(* order of calls, the checkpoint anchor, and the recovery that run_daemon *)
(* performs before it serves again.                                        *)
(*                                                                         *)
(* The WAL appears as what module WalWriter is proved to provide: queued   *)
(* records reach the log in order, a fulfilled ticket is in the log for    *)
(* good, and a kill keeps the log and any prefix of what was queued.       *)
(*                                                                         *)
(* Data abstraction.  A request is an idempotency key (principal, request  *)
(* id); a command is what its fingerprint covers.  Commands act on one     *)
(* object.  The state hash is injective: it is the state it covers.        *)
(***************************************************************************)
EXTENDS Integers, Sequences, FiniteSets

CONSTANTS
    Request,          \* idempotency keys
    Command,          \* [op, expects, hint]: operation, expected version, target tick hint
    NoReq, NoImage,
    Lead, MaxLead,    \* GatewayConfig.command_lead_ticks, max_command_lead_ticks
    HashEvery,        \* hash_interval_ticks, 0: none
    CheckpointEvery,  \* checkpoint_interval_ticks, 0: none
    QueueMax,         \* WalConfig.queue_max_records
    MaxTick,          \* bound: the last tick, which repeats
    MaxStop           \* bound: kills and stop signals in one behaviour

Op == {"create", "set", "destroy"}

ASSUME PipelineConstants ==
    /\ NoReq \notin Request
    /\ \A c \in Command : c \in [op : Op, expects : Nat, hint : Nat]
    /\ Lead \in Nat /\ MaxLead \in Nat
    /\ HashEvery \in Nat /\ CheckpointEvery \in Nat
    /\ QueueMax \in Nat \ {0} /\ MaxTick \in Nat /\ MaxStop \in Nat

VARIABLES
    log,       \* the records a scan of the WAL finds, at LSN 1, 2, ...
    image,     \* the latest published checkpoint, or NoImage
    queue,     \* records handed to the WAL writer and not yet fulfilled
    fault,     \* the WAL writer is in its fault state
    pc,        \* where the main thread is
    clock,     \* TickClock::tick(): the tick processed next
    world,
    buffer, nextSeq, included,   \* CommandBuffer
    report,    \* outcomes of this tick (or of the replay) not yet handled
    frozen,    \* the captured checkpoint being published, or NoImage
    until,     \* replay_until_tick, NoReplay when no record asks for a replay
    stop,      \* g_stop
    index,     \* durable_index_
    ingress,   \* ingress_sequence_
    pending,   \* pending_durable_
    toPoll,    \* entries of pending_durable_ this poll has still to visit
    waiters,   \* pending_commands_
    told,      \* history: what clients were answered about a request
    stops

disk    == <<log, image>>
wal     == <<queue, fault>>
sim     == <<clock, world, buffer, nextSeq, included>>
gateway == <<index, ingress, pending, toPoll, waiters>>
vars    == <<disk, wal, pc, sim, report, frozen, until, stop, gateway, told, stops>>

NoReplay == -1
Waiting  == 0
Failed   == -1
Live     == {"step", "settle", "poll", "stopping"}
Final    == {"applied", "rejected"}
Verdict(ok) == IF ok THEN "applied" ELSE "rejected"

-----------------------------------------------------------------------------
(* World and commands.  seed is the demonstration object of geoworldd, ran  *)
(* is history: the requests this world has executed, with their verdicts.   *)

Missing    == [version |-> 0, by |-> NoReq]
EmptyWorld == [seed |-> FALSE, obj |-> Missing, ran |-> <<>>]
Hash(w)    == <<w.seed, w.obj>>
Executed(w) == {w.ran[i].req : i \in DOMAIN w.ran}

Accepts(w, c) ==
    CASE c.op = "create"  -> w.obj.version = 0
      [] c.op = "destroy" -> w.obj.version # 0
      [] c.op = "set"     -> w.obj.version # 0 /\ c.expects \in {0, w.obj.version}

ObjectAfter(w, e) ==
    CASE e.cmd.op = "create"  -> [version |-> 1, by |-> e.req]
      [] e.cmd.op = "destroy" -> Missing
      [] e.cmd.op = "set"     -> [version |-> w.obj.version + 1, by |-> e.req]

RunOn(w, e) ==
    IF e.req = NoReq THEN [w EXCEPT !.seed = TRUE]
    ELSE [w EXCEPT !.obj = IF Accepts(w, e.cmd) THEN ObjectAfter(w, e) ELSE @,
                   !.ran = Append(@, [req |-> e.req, ok |-> Accepts(w, e.cmd)])]

Succeeds(w, e) == e.req = NoReq \/ Accepts(w, e.cmd)
SeedEntry == [seq |-> 1, target |-> 0, req |-> NoReq, cmd |-> NoReq, ingress |-> 0, lsn |-> 0]

(* WAL records of the three kinds the daemon writes and replays.            *)
CommandRec(r, c, t) == [kind |-> "command", req |-> r, cmd |-> c, target |-> t]
OutcomeRec(r, ok)   == [kind |-> "outcome", req |-> r, ok |-> ok]
HashRec(t, w)       == [kind |-> "hash", tick |-> t, hash |-> Hash(w)]

CommandsAfter(n) == {l \in DOMAIN log : l > n /\ log[l].kind = "command"}
OutcomesAfter(n) == {l \in DOMAIN log : l > n /\ log[l].kind = "outcome"}
HashesAfter(n)   == {l \in DOMAIN log : l > n /\ log[l].kind = "hash"}

MaxOf(S, default) == IF S = {} THEN default ELSE CHOOSE x \in S : \A y \in S : y <= x
MinOf(S) == CHOOSE x \in S : \A y \in S : x <= y

-----------------------------------------------------------------------------
(* The tick: WorldRuntime::step() applies the due commands in sequence      *)
(* order, live and in the replay alike.                                     *)

Due == {e \in buffer : e.target <= clock}
Ticking == pc = "step" \/ (pc = "replay" /\ clock <= until)

ApplyCommand ==
    /\ Ticking
    /\ \E e \in Due :
         /\ \A d \in Due : e.seq <= d.seq
         /\ world' = RunOn(world, e)
         /\ buffer' = buffer \ {e}
         /\ report' = Append(report, [req |-> e.req, ingress |-> e.ingress, lsn |-> e.lsn,
                                      ok |-> Succeeds(world, e)])
    /\ UNCHANGED <<disk, wal, pc, clock, nextSeq, included, frozen, until, stop, gateway,
                   told, stops>>

Every(n) == n # 0 /\ clock < MaxTick /\ (clock + 1) % n = 0
NextTick == IF clock < MaxTick THEN clock + 1 ELSE clock

(* The records a full queue or a faulty writer refuses are dropped.         *)
Offered(entry) == IF ~fault /\ Len(queue) < QueueMax THEN Append(queue, entry) ELSE queue

Snapshot == [world |-> world, clock |-> clock + 1, buffer |-> buffer, nextSeq |-> nextSeq,
             included |-> included]

(* The rest of a live step: the checkpoint anchor, which skips its turn     *)
(* while an earlier publication runs, the clock, the hash record, and the   *)
(* sweep of hash tickets, which stops the daemon when one has failed.       *)
EndTick ==
    /\ pc = "step" /\ Due = {}
    /\ frozen' = IF Every(CheckpointEvery) /\ frozen = NoImage THEN Snapshot ELSE frozen
    /\ queue' = IF Every(HashEvery)
                THEN Offered([rec |-> HashRec(clock, world), ingress |-> 0]) ELSE queue
    /\ stop' = (stop \/ (fault /\ \E i \in DOMAIN queue : queue[i].rec.kind = "hash"))
    /\ clock' = NextTick
    /\ pc' = "settle"
    /\ UNCHANGED <<disk, fault, world, buffer, nextSeq, included, report, until, gateway,
                   told, stops>>

(* Mutant: receipts are answered first come, first served.                  *)
OldestWaiter(o) == {w \in waiters : \A v \in waiters : w.ingress <= v.ingress}

(* on_commands_applied(), one outcome of the tick at a time: the receipt is *)
(* found by ingress sequence, published, and only then offered to the WAL.  *)
WaitersOf(o) == {w \in waiters : w.ingress = o.ingress}

SettleOutcome ==
    /\ pc = "settle" /\ report # <<>>
    /\ LET o == Head(report) IN
         IF WaitersOf(o) = {} THEN UNCHANGED <<waiters, index, told, queue>>
         ELSE \E w \in WaitersOf(o) :
                /\ waiters' = waiters \ {w}
                /\ index' = [index EXCEPT ![w.req].state = Verdict(o.ok)]
                /\ told' = [told EXCEPT ![w.req] = @ \cup {Verdict(o.ok)}]
                /\ queue' = Offered([rec |-> OutcomeRec(w.req, o.ok), ingress |-> 0])
    /\ report' = Tail(report)
    /\ UNCHANGED <<disk, fault, pc, sim, frozen, until, stop, ingress, pending, toPoll, stops>>

-----------------------------------------------------------------------------
(* control.poll() and poll_durable_tickets().                               *)

Serving == pc = "settle" /\ report = <<>>

(* Mutant: a retry of a pending request is answered as if it were durable.  *)
AnswerEarly(r, c) ==
    /\ Serving
    /\ index[r].state = "pending" /\ index[r].cmd = c
    /\ told' = [told EXCEPT ![r] = @ \cup {"durable"}]
    /\ UNCHANGED <<disk, wal, pc, sim, report, frozen, until, stop, gateway, stops>>

(* A retry of a known key with the same content gets the existing answer;   *)
(* with other content, or refused at admission, it changes nothing.         *)
SubmitKnown(r, c) ==
    /\ Serving
    /\ index[r].state \in {"durable"} \cup Final /\ index[r].cmd = c
    /\ told' = [told EXCEPT ![r] = @ \cup {index[r].state}]
    /\ UNCHANGED <<disk, wal, pc, sim, report, frozen, until, stop, gateway, stops>>

TargetOf(c) == IF c.hint = 0 THEN clock + Lead ELSE c.hint

(* Mutant: a decided key may be registered again.                           *)
Undecided(r) == index[r].state \in {"absent"} \cup Final
Unknown(r) == index[r].state = "absent"

(* Mutant: the key is not registered before the append completes.           *)
RegisterLater(r, c) == UNCHANGED index
Register(r, c) == index' = [index EXCEPT ![r] = [state |-> "pending", cmd |-> c]]

SubmitNew(r, c) ==
    /\ Serving /\ Unknown(r)
    /\ TargetOf(c) \in clock + 1 .. clock + MaxLead
    /\ TargetOf(c) <= MaxTick
    /\ ~fault /\ Len(queue) < QueueMax
    /\ ingress' = ingress + 1
    /\ queue' = Append(queue, [rec |-> CommandRec(r, c, TargetOf(c)), ingress |-> ingress'])
    /\ Register(r, c)
    /\ pending' = pending \cup
         {[ingress |-> ingress', req |-> r, cmd |-> c, target |-> TargetOf(c), ticket |-> Waiting]}
    /\ UNCHANGED <<disk, fault, pc, sim, report, frozen, until, stop, toPoll, waiters, told, stops>>

StartPoll ==
    /\ Serving
    /\ pc' = "poll"
    /\ toPoll' = {p.ingress : p \in pending}
    /\ UNCHANGED <<disk, wal, sim, report, frozen, until, stop, index, ingress, pending,
                   waiters, told, stops>>

(* pending_durable_ is an unordered_map: entries are visited in any order,  *)
(* and the writer fulfils tickets while the loop runs.                      *)
PollSkip(p) ==
    /\ pc = "poll" /\ p.ingress \in toPoll /\ p.ticket = Waiting
    /\ toPoll' = toPoll \ {p.ingress}
    /\ UNCHANGED <<disk, wal, pc, sim, report, frozen, until, stop, index, ingress, pending,
                   waiters, told, stops>>

PollFailed(p) ==
    /\ pc = "poll" /\ p.ingress \in toPoll /\ p.ticket = Failed
    /\ toPoll' = toPoll \ {p.ingress}
    /\ pending' = pending \ {p}
    /\ index' = [index EXCEPT ![p.req].state = "absent", ![p.req].cmd = NoReq]
    /\ told' = [told EXCEPT ![p.req] = @ \cup {"unavailable"}]
    /\ UNCHANGED <<disk, wal, pc, sim, report, frozen, until, stop, ingress, waiters, stops>>

EntryOf(p, seq) == [seq |-> seq, target |-> p.target, req |-> p.req, cmd |-> p.cmd,
                    ingress |-> p.ingress, lsn |-> p.ticket]

(* Mutant: a command whose target tick has passed is not enqueued.          *)
DeliverInTime(p) ==
    buffer' = IF p.target >= clock THEN buffer \cup {EntryOf(p, nextSeq)} ELSE buffer
Deliver(p) == buffer' = buffer \cup {EntryOf(p, nextSeq)}

(* Mutant: the outcome's ok flag is not looked at.                          *)
HasOutcome(p) == p.ticket # Waiting
IsDurable(p) == p.ticket > 0

PollDurable(p) ==
    /\ pc = "poll" /\ p.ingress \in toPoll /\ IsDurable(p)
    /\ toPoll' = toPoll \ {p.ingress}
    /\ pending' = pending \ {p}
    /\ index' = [index EXCEPT ![p.req].state = "durable"]
    /\ Deliver(p)
    /\ nextSeq' = nextSeq + 1
    /\ included' = IF p.ticket > included THEN p.ticket ELSE included
    /\ waiters' = IF \E w \in waiters : w.ingress = p.ingress THEN waiters
                  ELSE waiters \cup {[ingress |-> p.ingress, req |-> p.req]}
    /\ told' = [told EXCEPT ![p.req] = @ \cup {"durable"}]
    /\ UNCHANGED <<disk, wal, pc, clock, world, report, frozen, until, stop, ingress, stops>>

EndPoll ==
    /\ pc = "poll" /\ toPoll = {}
    /\ pc' = IF stop THEN "stopping" ELSE "step"
    /\ UNCHANGED <<disk, wal, sim, report, frozen, until, stop, gateway, told, stops>>

-----------------------------------------------------------------------------
(* The two background threads: the WAL writer and the checkpoint publisher. *)

WalCommit ==
    /\ pc \in Live /\ ~fault /\ queue # <<>>
    /\ log' = Append(log, Head(queue).rec)
    /\ queue' = Tail(queue)
    /\ pending' = {IF p.ingress = Head(queue).ingress THEN [p EXCEPT !.ticket = Len(log')] ELSE p
                     : p \in pending}
    /\ UNCHANGED <<image, fault, pc, sim, report, frozen, until, stop, index, ingress, toPoll,
                   waiters, told, stops>>

WalFault ==
    /\ pc \in Live /\ ~fault
    /\ fault' = TRUE
    /\ pending' = {IF p.ticket = Waiting THEN [p EXCEPT !.ticket = Failed] ELSE p : p \in pending}
    /\ UNCHANGED <<disk, queue, pc, sim, report, frozen, until, stop, index, ingress, toPoll,
                   waiters, told, stops>>

Publish ==
    /\ pc \in Live /\ frozen # NoImage
    /\ image' = frozen
    /\ frozen' = NoImage
    /\ UNCHANGED <<log, wal, pc, sim, report, until, stop, gateway, told, stops>>

PublishFails ==
    /\ pc \in Live /\ frozen # NoImage
    /\ frozen' = NoImage
    /\ UNCHANGED <<disk, wal, pc, sim, report, until, stop, gateway, told, stops>>

-----------------------------------------------------------------------------
(* The process ends: by a signal (the writer flushes its queue and the      *)
(* publication is awaited), or by a kill, or because it refused to start.   *)

Absent == [r \in Request |-> [state |-> "absent", cmd |-> NoReq]]

MemoryLost ==
    /\ queue' = <<>> /\ fault' = FALSE /\ stop' = FALSE
    /\ clock' = 0 /\ world' = EmptyWorld /\ buffer' = {} /\ nextSeq' = 1 /\ included' = 0
    /\ report' = <<>> /\ frozen' = NoImage /\ until' = NoReplay
    /\ index' = Absent /\ ingress' = 0 /\ pending' = {} /\ toPoll' = {} /\ waiters' = {}

StopSignal ==
    /\ pc \in Live /\ ~stop /\ stops < MaxStop
    /\ stop' = TRUE /\ stops' = stops + 1
    /\ UNCHANGED <<disk, wal, pc, sim, report, frozen, until, gateway, told>>

Shutdown ==
    /\ pc = "stopping" /\ frozen = NoImage /\ (fault \/ queue = <<>>)
    /\ \E n \in 0..Len(queue) : log' = log \o [i \in 1..n |-> queue[i].rec]
    /\ MemoryLost
    /\ pc' = "down"
    /\ UNCHANGED <<image, told, stops>>

Crash ==
    /\ pc \notin {"down", "refused"} /\ stops < MaxStop
    /\ \E n \in 0..Len(queue) : log' = log \o [i \in 1..n |-> queue[i].rec]
    /\ MemoryLost
    /\ pc' = "down" /\ stops' = stops + 1
    /\ UNCHANGED <<image, told>>

Refuse == pc' = "refused" /\ MemoryLost /\ UNCHANGED <<disk, told, stops>>

ExitRefused ==
    /\ pc = "refused"
    /\ pc' = "down"
    /\ UNCHANGED <<disk, wal, sim, report, frozen, until, stop, gateway, told, stops>>

-----------------------------------------------------------------------------
(* run_daemon() before it serves: restore the checkpoint, submit the        *)
(* commands behind it under their LSN, replay to the last tick any record   *)
(* names, compare hashes, rebuild the registry, write missing outcomes.     *)

Fresh == [world |-> EmptyWorld, clock |-> 0, buffer |-> {}, nextSeq |-> 1, included |-> 0]
Base  == IF image = NoImage THEN Fresh ELSE image
Floor == Base.included

Replayed(l) ==
    [seq |-> Base.nextSeq + l, target |-> log[l].target, req |-> log[l].req,
     cmd |-> log[l].cmd, ingress |-> l, lsn |-> l]

(* Mutant: replay also takes the records the checkpoint already contains.   *)
AllCommands == CommandsAfter(0)

(* Mutant: a command whose outcome is in the log is not replayed.           *)
OpenCommands ==
    {l \in CommandsAfter(Floor) : \A o \in OutcomesAfter(l) : log[o].req # log[l].req}

ToReplay == CommandsAfter(Floor)

ReplayTicks ==
    {log[l].target : l \in ToReplay} \cup {log[l].tick : l \in HashesAfter(Floor)}

Restart ==
    /\ pc = "down"
    /\ world' = Base.world /\ clock' = Base.clock
    /\ buffer' = Base.buffer \cup {Replayed(l) : l \in ToReplay}
    /\ nextSeq' = Base.nextSeq + Len(log) + 1
    /\ included' = MaxOf(ToReplay, Floor)
    /\ until' = MaxOf(ReplayTicks, NoReplay)
    /\ pc' = "replay"
    /\ UNCHANGED <<disk, wal, report, frozen, stop, gateway, told, stops>>

(* The last hash recorded for a tick is the one compared.                   *)
Diverges ==
    LET points == {l \in HashesAfter(Floor) : log[l].tick = clock}
    IN  points # {} /\ log[MaxOf(points, 0)].hash # Hash(world)

ReplayTick ==
    /\ pc = "replay" /\ clock <= until /\ Due = {} /\ ~Diverges
    /\ clock' = clock + 1
    /\ UNCHANGED <<disk, wal, pc, world, buffer, nextSeq, included, report, frozen, until,
                   stop, gateway, told, stops>>

ReplayDiverges ==
    /\ pc = "replay" /\ clock <= until /\ Due = {} /\ Diverges
    /\ Refuse

(* Mutant: the registry is rebuilt from the records behind the checkpoint.  *)
CommandsBehind(r) == {l \in CommandsAfter(Floor) : log[l].req = r}

(* DurableIdempotencyIndex::restore() over the whole log: the first command *)
(* record of a key registers it, later outcomes decide it, and a second     *)
(* command record with other content is corruption.                        *)
CommandsOf(r) == {l \in CommandsAfter(0) : log[l].req = r}
OutcomesOf(r) == {l \in OutcomesAfter(MinOf(CommandsOf(r))) : log[l].req = r}

(* Mutant: only keys without an outcome are restored.                       *)
RestoredOpen(r) ==
    IF CommandsOf(r) = {} \/ OutcomesOf(r) # {} THEN [state |-> "absent", cmd |-> NoReq]
    ELSE [state |-> "durable", cmd |-> log[MinOf(CommandsOf(r))].cmd]

RestoredEntry(r) ==
    IF CommandsOf(r) = {} THEN [state |-> "absent", cmd |-> NoReq]
    ELSE [state |-> IF OutcomesOf(r) = {} THEN "durable"
                    ELSE Verdict(log[MaxOf(OutcomesOf(r), 0)].ok),
          cmd |-> log[MinOf(CommandsOf(r))].cmd]

Conflicting == \E r \in Request : \E k, l \in CommandsOf(r) : log[k].cmd # log[l].cmd

Reported  == {report[i].lsn : i \in DOMAIN report}
Unwritten == {i \in DOMAIN report : /\ report[i].lsn > Floor
                                    /\ \A l \in OutcomesAfter(Floor) : log[l].req # report[i].req}

EndReplay ==
    /\ pc = "replay" /\ clock > until
    /\ ToReplay \subseteq Reported /\ ~Conflicting
    /\ index' = [r \in Request |-> RestoredEntry(r)]
    /\ pc' = "outcomes"
    /\ UNCHANGED <<disk, wal, sim, report, frozen, until, stop, ingress, pending, toPoll, waiters,
                   told, stops>>

ReplayIncomplete ==
    /\ pc = "replay" /\ clock > until
    /\ ~(ToReplay \subseteq Reported) \/ Conflicting
    /\ Refuse

(* Outcomes the log lacks are written one by one, each waited for.          *)
WriteOutcome ==
    /\ pc = "outcomes"
    /\ \E i \in Unwritten :
         /\ \A k \in Unwritten : report[i].lsn <= report[k].lsn
         /\ log' = Append(log, OutcomeRec(report[i].req, report[i].ok))
         /\ index' = [index EXCEPT ![report[i].req].state = Verdict(report[i].ok)]
    /\ UNCHANGED <<image, wal, pc, sim, report, frozen, until, stop, ingress, pending, toPoll,
                   waiters, told, stops>>

(* A world without checkpoint and records starts with the seed object.      *)
Serve ==
    /\ pc = "outcomes" /\ Unwritten = {}
    /\ report' = <<>>
    /\ IF image = NoImage /\ log = <<>>
       THEN buffer' = {SeedEntry} /\ nextSeq' = 2
       ELSE UNCHANGED <<buffer, nextSeq>>
    /\ pc' = "step"
    /\ UNCHANGED <<disk, wal, clock, world, included, frozen, until, stop, gateway,
                   told, stops>>

-----------------------------------------------------------------------------
Init ==
    /\ log = <<>> /\ image = NoImage /\ queue = <<>> /\ fault = FALSE /\ pc = "down"
    /\ clock = 0 /\ world = EmptyWorld /\ buffer = {} /\ nextSeq = 1 /\ included = 0
    /\ report = <<>> /\ frozen = NoImage /\ until = NoReplay /\ stop = FALSE
    /\ index = Absent /\ ingress = 0 /\ pending = {} /\ toPoll = {} /\ waiters = {}
    /\ told = [r \in Request |-> {}] /\ stops = 0

PollOne(p) == PollSkip(p) \/ PollFailed(p) \/ PollDurable(p)

MainThread ==
    \/ ApplyCommand \/ EndTick \/ SettleOutcome \/ StartPoll \/ EndPoll
    \/ \E p \in pending : PollOne(p)

Recover ==
    \/ Restart \/ ReplayTick \/ ReplayDiverges \/ EndReplay \/ ReplayIncomplete
    \/ WriteOutcome \/ Serve \/ ExitRefused

Client == \E r \in Request, c \in Command : SubmitKnown(r, c) \/ SubmitNew(r, c)

Next ==
    \/ MainThread \/ Recover \/ Client \/ WalCommit \/ WalFault \/ Publish \/ PublishFails
    \/ StopSignal \/ Shutdown \/ Crash

Spec == Init /\ [][Next]_vars

(* The loop and the recovery run while they can, the writer commits or      *)
(* fails, a shutdown completes, and a stopped daemon is started again.      *)
FairSpec ==
    /\ Spec
    /\ WF_vars(MainThread) /\ WF_vars(Recover) /\ WF_vars(WalCommit \/ WalFault)
    /\ WF_vars(Publish \/ PublishFails) /\ WF_vars(Shutdown)

-----------------------------------------------------------------------------
Kept == {"durable"} \cup Final
Entry == [seq : Nat, target : Nat, req : Request, cmd : Command, ingress : Nat, lsn : Nat]
            \cup {SeedEntry}
Result == [req : Request, ingress : Nat, lsn : Nat, ok : BOOLEAN]
            \cup [req : {NoReq}, ingress : {0}, lsn : {0}, ok : BOOLEAN]
Ticket == [ingress : Nat, req : Request, cmd : Command, target : Nat, ticket : Nat \cup {Failed}]
World == [seed : BOOLEAN, obj : [version : Nat, by : Request \cup {NoReq}],
          ran : Seq([req : Request, ok : BOOLEAN])]
State == [world : World, clock : Nat, buffer : SUBSET Entry, nextSeq : Nat, included : Nat]
Record == [kind : {"command"}, req : Request, cmd : Command, target : Nat]
            \cup [kind : {"outcome"}, req : Request, ok : BOOLEAN]
            \cup [kind : {"hash"}, tick : Nat,
                  hash : BOOLEAN \X [version : Nat, by : Request \cup {NoReq}]]

TypeOK ==
    /\ log \in Seq(Record) /\ queue \in Seq([rec : Record, ingress : Nat])
    /\ image \in State \cup {NoImage} /\ frozen \in State \cup {NoImage}
    /\ pc \in Live \cup {"down", "refused", "replay", "outcomes"}
    /\ clock \in Nat /\ world \in World /\ buffer \subseteq Entry
    /\ nextSeq \in Nat /\ included \in Nat /\ until \in Nat \cup {NoReplay}
    /\ report \in Seq(Result) /\ fault \in BOOLEAN /\ stop \in BOOLEAN
    /\ index \in [Request -> [state : {"absent", "pending"} \cup Kept, cmd : Command \cup {NoReq}]]
    /\ ingress \in Nat /\ pending \subseteq Ticket /\ toPoll \subseteq Nat
    /\ waiters \subseteq [ingress : Nat, req : Request]
    /\ told \in [Request -> SUBSET (Kept \cup {"unavailable"})] /\ stops \in Nat

Promised == {r \in Request : told[r] \cap Kept # {}}
InBuffer == {e.req : e \in buffer} \ {NoReq}

(* No request is executed twice in the history a world stands for, however  *)
(* often its client retries and wherever the daemon stops: counted are its  *)
(* executions and its entries in the buffer.                                *)
AtMostOnce ==
    \A r \in Request :
        Cardinality({i \in DOMAIN world.ran : world.ran[i].req = r})
            + Cardinality({e \in buffer : e.req = r}) <= 1

(* A request whose client was told durable_accepted (or a verdict) is never *)
(* dropped: it has run or is in the buffer of whatever daemon is up, the    *)
(* one that promised or a restarted one.                                    *)
PromisedIsKept ==
    pc \in Live \cup {"replay", "outcomes"} =>
        Promised \subseteq Executed(world) \cup InBuffer

(* The registry of a serving daemon knows every promised request, so that a *)
(* retry is answered and never admitted a second time.                      *)
PromisedIsRemembered ==
    pc \in Live => \A r \in Promised : index[r].state \in Kept

(* The receipt found for an outcome is that of the command that ran:        *)
(* on_commands_applied() matches them by ingress sequence, which restarts   *)
(* at 1 with each process, and replayed commands carry their LSN instead.   *)
ReceiptIsOwn ==
    pc = "settle" /\ report # <<>> =>
        \A w \in WaitersOf(Head(report)) : w.req = Head(report).req

(* A verdict in the registry of a serving daemon, its own or one read from  *)
(* the log, is about a request that this world has executed.                *)
VerdictMeansExecuted ==
    pc \in Live =>
        \A r \in Request : index[r].state \in Final => r \in Executed(world)

(* A client is never told two verdicts for one request (docs/M5.md:135: the *)
(* outcome record exists before a final receipt, and a later query by key   *)
(* returns it).                                                             *)
OneVerdict == \A r \in Request : ~(Final \subseteq told[r])

(* A daemon that was only killed can be started again.                      *)
RestartIsAccepted == pc # "refused"

(* Answers to retries never go back while a daemon is up: a registered key  *)
(* is forgotten only when its append failed, a durable one gets one verdict *)
(* and a verdict stays.                                                     *)
RegistryMovesForward ==
    [][\A r \in Request : pc \in Live /\ pc' \in Live =>
         \/ index'[r] = index[r]
         \/ index[r].state = "absent" /\ index'[r].state = "pending"
         \/ index[r].state = "pending" /\ index'[r].state \in {"absent", "durable"}
         \/ index[r].state = "durable" /\ index'[r].state \in Final]_vars

(* The inductive invariant behind RegistryMovesForward: every ticket is of  *)
(* its own pending request, every receipt to come of its own durable one.   *)
RegistryInv ==
    /\ pc \notin Live => pending = {} /\ waiters = {}
    /\ \A p \in pending : index[p.req].state = "pending"
    /\ \A p, q \in pending : p.req = q.req => p = q
    /\ \A w \in waiters : index[w.req].state = "durable"
    /\ \A v, w \in waiters : v.req = w.req => v = w

(* The inductive invariant behind PromisedIsKept when no checkpoint is      *)
(* taken, and parts of it that hold with checkpoints too.                   *)
Logged(r) == CommandsOf(r) # {}
Held == Executed(world) \cup InBuffer
Up == Live \cup {"outcomes"}

NoCheckpoints == image = NoImage /\ frozen = NoImage

(* A process that does not serve yet holds no promise of its own.           *)
QuietInv ==
    /\ pc \notin Live => pending = {} /\ waiters = {} /\ queue = <<>>
    /\ pc \notin Up => \A r \in Request : index[r].state = "absent"
    /\ pc \in {"down", "refused"} => report = <<>>

(* A ticket belongs to one registered request, and names its record.        *)
TicketInv ==
    /\ \A p \in pending : /\ p.ingress \in 1..ingress
                          /\ index[p.req].state = "pending"
                          /\ p.ticket > 0 => p.ticket \in CommandsOf(p.req)
    /\ \A p, q \in pending : p.req = q.req => p = q

QueueInv ==
    \A i \in DOMAIN queue :
        /\ queue[i].ingress <= ingress
        /\ \A p \in pending : queue[i].ingress = p.ingress =>
             queue[i].rec.kind = "command" /\ queue[i].rec.req = p.req

(* The registry, the tickets and the records on their way to the log: true  *)
(* with and without checkpoints.                                            *)
WriterInv == RegistryInv /\ QuietInv /\ TicketInv /\ QueueInv

(* Whatever runs or will run has its record.                                *)
RecordInv ==
    /\ \A r \in InBuffer : Logged(r)
    /\ \A i \in DOMAIN report :
         report[i].req = NoReq \/ (report[i].req \in Executed(world) /\ Logged(report[i].req))

(* Known, promised and logged requests, and what the world holds of them.   *)
HoldInv ==
    /\ pc \in Up => \A r \in Request : index[r].state \in Kept => Logged(r) /\ r \in Held
    /\ pc \in {"replay", "outcomes"} => \A r \in Request : Logged(r) => r \in Held
    /\ \A r \in Promised : Logged(r) /\ (pc \in Up => index[r].state \in Kept)
    /\ \A w \in waiters : w.req \in Promised

PipelineInv == NoCheckpoints /\ WriterInv /\ RecordInv /\ HoldInv

(* The inductive invariant, with PipelineInv, behind ReceiptIsOwn and       *)
(* VerdictMeansExecuted when no checkpoint is taken.  A replay that ended   *)
(* has left nothing in the buffer, so every ingress sequence there is of    *)
(* the process that serves, and stands for one command at most.             *)
OwnNumber(x) ==
    /\ x.ingress <= ingress
    /\ \A w \in waiters : w.ingress = x.ingress => w.req = x.req
    /\ \A p \in pending : p.ingress # x.ingress

ReplayInv ==
    /\ pc = "replay" => /\ \A e \in buffer : e.lsn \in CommandsAfter(0) \ Reported
                       /\ \A d, e \in buffer : d.lsn = e.lsn => d = e
    /\ pc = "outcomes" => buffer = {}

NumberInv ==
    /\ \A w \in waiters : w.ingress \in 1..ingress /\ \A p \in pending : p.ingress # w.ingress
    /\ \A v, w \in waiters : v.ingress = w.ingress => v = w
    /\ \A p, q \in pending : p.ingress = q.ingress => p = q
    /\ pc \in Live => /\ \A e \in buffer : OwnNumber(e)
                      /\ \A i \in DOMAIN report : OwnNumber(report[i])

VerdictInv ==
    pc \in Up => \A r \in Request : index[r].state \in Final => r \in Executed(world)

ReceiptInv == ReplayInv /\ NumberInv /\ VerdictInv

(* The inductive invariant behind AtMostOnce and PromisedIsRemembered, with *)
(* and without checkpoints.  A request has one command record at most, in   *)
(* the log or on its way there, and the registry knows it.                  *)
IsCommand(i) == queue[i].rec.kind = "command"

OneRecordInv ==
    /\ \A r \in Request : \A k, l \in CommandsOf(r) : k = l
    /\ \A i \in DOMAIN queue : IsCommand(i) =>
         /\ ~Logged(queue[i].rec.req)
         /\ \/ index[queue[i].rec.req].state = "pending"
            \/ index[queue[i].rec.req].state = "absent" /\ fault
         /\ \A p \in pending : p.req = queue[i].rec.req => p.ingress = queue[i].ingress
    /\ \A i, j \in DOMAIN queue :
         IsCommand(i) /\ IsCommand(j) /\ queue[i].rec.req = queue[j].rec.req => i = j

(* A ticket without an LSN has no record, and its command has not run.      *)
OpenInv ==
    \A p \in pending : /\ p.ticket \in {Waiting, Failed} => ~Logged(p.req)
                       /\ p.ticket = Failed => fault
                       /\ p.req \notin Held

(* The registry and the log know the same requests.                         *)
KnownInv ==
    /\ pc \in Up => \A r \in Request : /\ index[r].state \in Kept => Logged(r)
                                       /\ Logged(r) => index[r].state # "absent"
    /\ \A i \in DOMAIN report : report[i].req = NoReq \/ Logged(report[i].req)
    /\ \A r \in Promised : Logged(r) /\ (pc \in Up => index[r].state \in Kept)
    /\ \A w \in waiters : w.req \in Promised

(* What a world and a buffer hold they hold once, and n, the last LSN they  *)
(* include, covers its record: the replay behind a checkpoint brings        *)
(* nothing a second time.                                                   *)
HeldBy(w, b) == Executed(w) \cup ({e.req : e \in b} \ {NoReq})

HeldOnce(w, b) ==
    /\ \A i, j \in DOMAIN w.ran : w.ran[i].req = w.ran[j].req => i = j
    /\ \A d, e \in b : d.req = e.req => d = e
    /\ \A e \in b : e.req \notin Executed(w)

Covered(w, b, n) == \A r \in HeldBy(w, b) : Logged(r) /\ \A l \in CommandsOf(r) : l <= n

HeldInv == HeldOnce(world, buffer) /\ Covered(world, buffer, included)

ImageInv ==
    \A s \in {image, frozen} \ {NoImage} :
        HeldOnce(s.world, s.buffer) /\ Covered(s.world, s.buffer, s.included)

OnceInv == WriterInv /\ OneRecordInv /\ OpenInv /\ KnownInv /\ HeldInv /\ ImageInv

(* docs/M5.md:377: a command acknowledged as durable must execute, however  *)
(* the daemon stops afterwards.                                             *)
PromiseIsExecuted ==
    \A r \in Request : r \in Promised ~> r \in Executed(world)
=============================================================================
