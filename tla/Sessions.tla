-------------------------------- MODULE Sessions --------------------------------
(***************************************************************************)
(* gateway::GatewayCore without its durable path, with its SessionManager, *)
(* OwnershipRegistry and ReliableQueues, behind the ControlServer that     *)
(* carries RPCs from gRPC threads to the main loop.  An RPC posts a job    *)
(* under a mutex and waits; the loop steps the world, reports outcomes,    *)
(* runs the posted jobs, pumps and serves the data streams.                *)
(*                                                                         *)
(* A call waits until its job has run: dispatch_timeout is taken as longer *)
(* than any iteration.  Tokens are fresh, as an external generator makes   *)
(* them.  A state frame is only known to exist; what a command does to the *)
(* world is CommandPipeline's.                                             *)
(***************************************************************************)
EXTENDS Integers, Sequences, FiniteSets, SequencesExt, FiniteSetsExt, Functions

CONSTANTS
    Caller,         \* gRPC threads
    Conn,           \* connections of the data plane
    Key,            \* properties of the one object there is
    Writable,       \* keys the authorization policy lets sessions write
    KeyLists,       \* key lists that clients ask for
    Seqn,           \* client sequences
    Hints,          \* target_tick_hint; 0 asks for the default lead
    Leases,         \* lease_until_tick
    MaxSessions, TicketTtl, Rate, Lead, MaxLead, AckTimeout, HeartbeatEvery,
    MaxReliable,    \* GatewayConfig; the reliable queue is counted in frames
    MaxCalls, MaxOpened, MaxIssued, MaxTick, MaxNow    \* bounds of the model

ASSUME SessionConstants ==
    /\ Writable \subseteq Key /\ KeyLists \subseteq Seq(Key)
    /\ Hints \subseteq Nat /\ Leases \subseteq Nat /\ Seqn \subseteq Nat
    /\ {MaxSessions, TicketTtl, Rate, Lead, MaxLead, AckTimeout, HeartbeatEvery, MaxReliable,
        MaxCalls, MaxOpened, MaxIssued, MaxTick, MaxNow} \subseteq Nat

VARIABLES
    tick,       \* runtime.clock().tick()
    now,        \* the steady clock, in seconds
    opened,     \* next_session_value_ - 1
    sessions,   \* SessionManager::sessions_: bucket and time of its last refill
    tickets,    \* tickets_: session and expiry
    issued,     \* number of tickets issued
    receipts,   \* receipts_
    grants,     \* OwnershipRegistry::grants_
    subs,       \* pending_subscriptions_
    conns,      \* connections_
    ingress,    \* ingress_sequence_
    pending,    \* pending_commands_
    buffer,     \* CommandBuffer::pending_
    phase,      \* where the main loop is
    jobs,       \* posted jobs
    running,    \* jobs taken by run_jobs()
    waiting,    \* callers in their RPC
    called,     \* number of calls made
    log         \* history: redemptions, enqueued commands, frames due and sent

core == <<opened, sessions, tickets, issued, receipts, grants, subs, conns, ingress, pending,
          buffer>>
vars == <<tick, now, core, phase, jobs, running, waiting, called, log>>

Ids     == 1 .. MaxOpened
NoGrant == [owner |-> 0, lease |-> 0]
Heartbeat == 0     \* a frame of the reliable queue; receipts are ingress sequences

(* A map with one entry more, or another one at its key.                   *)
With(f, x, v) == [y \in DOMAIN f \cup {x} |-> IF y = x THEN v ELSE f[y]]

Init ==
    /\ tick = 0 /\ now = 0 /\ opened = 0 /\ issued = 0 /\ ingress = 0
    /\ sessions = <<>> /\ tickets = <<>> /\ receipts = <<>> /\ conns = <<>>
    /\ grants = [k \in Key |-> NoGrant]
    /\ subs = {} /\ pending = {} /\ buffer = {}
    /\ phase = "step" /\ jobs = <<>> /\ running = <<>> /\ waiting = {} /\ called = 0
    /\ log = [redeemed |-> <<>>, enqueued |-> {}, due |-> <<>>, told |-> <<>>]

-----------------------------------------------------------------------------
(* RPCs: dispatch() posts the job, run_jobs() takes all of them at once.   *)

Requests ==
    [op : {"open"}] \cup
    [op : {"close", "ticket", "subscribe"}, s : Ids] \cup
    [op : {"acquire"}, s : Ids, keys : KeyLists, lease : Leases] \cup
    [op : {"release"}, s : Ids, keys : KeyLists] \cup
    [op : {"submit"}, s : Ids, q : Seqn, key : Key, hint : Hints]

(* A call made since the last jobs were taken is one made just before the  *)
(* next are: nothing else looks at the posted jobs.                        *)
Call(k) ==
    /\ phase = "control" \/ (phase = "jobs" /\ running # <<>>)
    /\ tick < MaxTick /\ k \notin waiting /\ waiting' = waiting \cup {k}
    /\ called < MaxCalls /\ called' = called + 1
    /\ \E r \in Requests :
          /\ r.op # "open" => r.s <= opened
          /\ jobs' = Append(jobs, [by |-> k, req |-> r])
    /\ UNCHANGED <<tick, now, core, phase, running, log>>

TakeJobs ==
    /\ phase = "control" /\ tick < MaxTick    \* the model ends with a step
    /\ running' = jobs /\ jobs' = <<>> /\ phase' = "jobs"
    /\ UNCHANGED <<tick, now, core, waiting, called, log>>

(* The job of req is the next; its caller wakes up when it is done.             *)
Runs(op) == phase = "jobs" /\ running # <<>> /\ Head(running).req.op = op
Done ==
    /\ running' = Tail(running) /\ waiting' = waiting \ {Head(running).by}
    /\ UNCHANGED <<tick, now, phase, jobs, called>>
req == Head(running).req

Known(s) == s \in DOMAIN sessions

(* issue_ticket().  issue_stream_ticket() has no RPC of its own; a caller  *)
(* on the main thread is taken as one more job.                            *)
IssueTo(s) ==
    /\ issued < MaxIssued /\ issued' = issued + 1
    /\ tickets' = With(tickets, issued + 1, [session |-> s, expires |-> now + TicketTtl])

(* open_session(): refused for its versions, its credential, its rights,   *)
(* or when there are too many sessions.                                    *)
Open ==
    /\ Runs("open") /\ Done
    /\ \/ UNCHANGED core
       \/ /\ Cardinality(DOMAIN sessions) < MaxSessions /\ opened < MaxOpened
          /\ opened' = opened + 1
          /\ sessions' = With(sessions, opened + 1, [tokens |-> Rate, refilled |-> now])
          /\ IssueTo(opened + 1)
          /\ UNCHANGED <<receipts, grants, subs, conns, ingress, pending, buffer>>
    /\ UNCHANGED log

(* close_session(): ownership, session, tickets and connections go; the    *)
(* pending subscription stays, as do receipts and pending commands.        *)
\* Mutant: the tickets of a closed session stay.
TicketsStay(s)   == {}
TicketsOf(s)     == {t \in DOMAIN tickets : tickets[t].session = s}
ConnectionsOf(s) == {c \in DOMAIN conns : conns[c].session = s}

Close ==
    /\ Runs("close") /\ Done
    /\ IF Known(req.s)
       THEN /\ grants' = [k \in Key |-> IF grants[k].owner = req.s THEN NoGrant ELSE grants[k]]
            /\ sessions' = Restrict(sessions, DOMAIN sessions \ {req.s})
            /\ tickets' = Restrict(tickets, DOMAIN tickets \ TicketsOf(req.s))
            /\ conns' = Restrict(conns, DOMAIN conns \ ConnectionsOf(req.s))
            /\ UNCHANGED <<opened, issued, receipts, subs, ingress, pending, buffer>>
       ELSE UNCHANGED core
    /\ UNCHANGED log

Ticket ==
    /\ Runs("ticket") /\ Done
    /\ IF Known(req.s)
       THEN IssueTo(req.s) /\ UNCHANGED <<opened, sessions, receipts, grants, subs, conns, ingress,
                                        pending, buffer>>
       ELSE UNCHANGED core
    /\ UNCHANGED log

(* update_subscription(): refused for an area that is too large.           *)
Subscribe ==
    /\ Runs("subscribe") /\ Done
    /\ subs' \in {subs} \cup (IF Known(req.s) THEN {subs \cup {req.s}} ELSE {})
    /\ UNCHANGED <<opened, sessions, tickets, issued, receipts, grants, conns, ingress, pending,
                   buffer, log>>

(* OwnershipRegistry.                                                      *)
Live(g)         == g.owner # 0 /\ g.lease > tick
\* Mutant: a lease ends a tick early for others.
TakenUntilLast(s, k) == Live(grants[k]) /\ grants[k].owner # s /\ grants[k].lease > tick + 1
Taken(s, k)     == Live(grants[k]) /\ grants[k].owner # s
Holds(s, k)     == Live(grants[k]) /\ grants[k].owner = s
Grantable(s, k) == k \in Writable /\ ~Taken(s, k)

(* acquire_ownership(): the keys before the first refused one are granted. *)
Acquired(s, keys) ==
    LET refused == {i \in DOMAIN keys : ~Grantable(s, keys[i])}
    IN  IF refused = {} THEN ToSet(keys) ELSE {keys[i] : i \in 1 .. Min(refused) - 1}

Acquire ==
    /\ Runs("acquire") /\ Done
    /\ IF Known(req.s) /\ req.keys # <<>> /\ req.lease > tick
       THEN grants' = [k \in Key |-> IF k \in Acquired(req.s, req.keys)
                                     THEN [owner |-> req.s, lease |-> req.lease] ELSE grants[k]]
       ELSE UNCHANGED grants
    /\ UNCHANGED <<opened, sessions, tickets, issued, receipts, subs, conns, ingress, pending,
                   buffer, log>>

Release ==
    /\ Runs("release") /\ Done
    /\ grants' = [k \in Key |-> IF Known(req.s) /\ k \in ToSet(req.keys) /\ grants[k].owner = req.s
                                THEN NoGrant ELSE grants[k]]
    /\ UNCHANGED <<opened, sessions, tickets, issued, receipts, subs, conns, ingress, pending,
                   buffer, log>>

(* consume_command_budget().  Mutant: the refill is not dated.             *)
Refilled(b) == Min({Rate, b.tokens + (now - b.refilled) * Rate})
ConsumedUndated(b) == [b EXCEPT !.tokens = IF Refilled(b) < 1 THEN Refilled(b)
                                           ELSE Refilled(b) - 1]
Consumed(b) == [tokens |-> IF Refilled(b) < 1 THEN Refilled(b) ELSE Refilled(b) - 1,
                refilled |-> now]

Target(hint)   == IF hint = 0 THEN tick + Lead ELSE hint
InWindow(t)    == t >= tick + 1 /\ t <= tick + MaxLead
\* Commands that create or destroy need can_manage_objects() in place of this.
Admitted(s, k) == k \in Writable /\ Holds(s, k)

\* Mutant: only a terminal receipt answers a retry.
AnsweredAtLast(s, q) == <<s, q>> \in DOMAIN receipts /\ receipts[<<s, q>>].status # "accepted"
Answered(s, q)       == <<s, q>> \in DOMAIN receipts

(* submit_command(): a known receipt answers a retry before anything is    *)
(* spent; budget, window, rights and ownership come next.                  *)
Submit ==
    /\ Runs("submit") /\ Done
    /\ IF ~Known(req.s) \/ Answered(req.s, req.q)
       THEN UNCHANGED <<core, log>>
       ELSE /\ sessions' = [sessions EXCEPT ![req.s] = Consumed(@)]
            /\ IF Refilled(sessions[req.s]) >= 1 /\ InWindow(Target(req.hint)) /\ Admitted(req.s, req.key)
               THEN /\ ingress' = ingress + 1
                    /\ buffer' = buffer \cup {[ingress |-> ingress + 1, at |-> Target(req.hint)]}
                    /\ pending' = pending \cup {[ingress |-> ingress + 1, s |-> req.s, q |-> req.q]}
                    /\ receipts' = With(receipts, <<req.s, req.q>>,
                                         [ingress |-> ingress + 1, status |-> "accepted"])
                    /\ log' = [log EXCEPT !.enqueued = @ \cup
                                  {[ingress |-> ingress + 1, s |-> req.s, q |-> req.q, at |-> now]}]
               ELSE UNCHANGED <<ingress, buffer, pending, receipts, log>>
            /\ UNCHANGED <<opened, tickets, issued, grants, subs, conns>>

RunJob == Open \/ Close \/ Ticket \/ Subscribe \/ Acquire \/ Release \/ Submit

JobsDone ==
    /\ phase = "jobs" /\ running = <<>> /\ phase' = "pump"
    /\ UNCHANGED <<tick, now, core, jobs, running, waiting, called, log>>

-----------------------------------------------------------------------------
(* The main loop.                                                          *)

Applied  == {a \in buffer : a.at <= tick}
Deferred == {a \in buffer : a.at > tick}
SessionOf(i) == (CHOOSE p \in pending : p.ingress = i).s

(* ReliableQueue::push() of frames, one after the other: a frame that does *)
(* not fit is refused, and a refused receipt condemns the connection.      *)
Fits(c, n) == Len(conns[c].queue) + n <= MaxReliable
\* Mutant: a refused receipt is dropped.
PushWhatFits(c, frames) ==
    [conns[c] EXCEPT !.queue = SubSeq(@ \o frames, 1, Min({MaxReliable, Len(@ \o frames)}))]
PushReceipts(c, frames) ==
    LET room == MaxReliable - Len(conns[c].queue)
    IN  [conns[c] EXCEPT !.queue = @ \o SubSeq(frames, 1, Min({room, Len(frames)})),
                         !.must = @ \/ ~Fits(c, Len(frames))]

(* WorldRuntime::step() and on_commands_applied(): in the order of their   *)
(* sequence the terminal receipts go to every connection of the session.   *)
InOrder(S) ==
    CHOOSE s \in [1 .. Cardinality(S) -> S] : \A i, j \in DOMAIN s : i < j => s[i] < s[j]
ReceiptsFor(c) ==
    InOrder({a.ingress : a \in {b \in Applied : SessionOf(b.ingress) = conns[c].session}})

Step ==
    /\ phase = "step" /\ tick < MaxTick
    /\ tick' = tick + 1 /\ phase' = "control" /\ buffer' = Deferred
    /\ LET done == {a.ingress : a \in Applied}
       IN  /\ pending' = {p \in pending : p.ingress \notin done}
           /\ receipts' = [x \in DOMAIN receipts |->
                  IF receipts[x].ingress \in done
                  THEN [receipts[x] EXCEPT !.status = "terminal"] ELSE receipts[x]]
    /\ conns' = [c \in DOMAIN conns |-> PushReceipts(c, ReceiptsFor(c))]
    /\ log' = [log EXCEPT !.due = [c \in DOMAIN log.due |->
                  IF c \in DOMAIN conns THEN log.due[c] \o ReceiptsFor(c) ELSE log.due[c]]]
    /\ UNCHANGED <<now, opened, sessions, tickets, issued, grants, subs, ingress, jobs, running,
                   waiting, called>>

(* pump(tick - 1): a frame or, when one is due, a heartbeat; then the      *)
(* acknowledgement timeout, which does not know a connection heard at 0.   *)
Beats(c, frame) ==
    ~frame /\ ~conns[c].must /\ tick - 1 - conns[c].beat >= HeartbeatEvery
Silent(c) == conns[c].heard # 0 /\ tick - 1 - conns[c].heard > AckTimeout

Pump ==
    /\ phase = "pump" /\ phase' = "serve"
    /\ \E frame \in [DOMAIN conns -> BOOLEAN] :
          /\ conns' = [c \in DOMAIN conns |->
              [conns[c] EXCEPT
                  !.beat  = IF Beats(c, frame[c]) THEN tick - 1 ELSE @,
                  !.queue = IF Beats(c, frame[c]) /\ Fits(c, 1) THEN Append(@, Heartbeat) ELSE @,
                  !.must  = @ \/ Silent(c)]]
          /\ log' = [log EXCEPT !.due = [c \in DOMAIN log.due |->
                 IF c \in DOMAIN conns /\ Beats(c, frame[c]) /\ Fits(c, 1)
                 THEN Append(log.due[c], Heartbeat) ELSE log.due[c]]]
    /\ UNCHANGED <<tick, now, opened, sessions, tickets, issued, receipts, grants, subs, ingress,
                   pending, buffer, jobs, running, waiting, called>>

(* redeem_ticket() and attach_stream(): a ticket is spent by being shown.  *)
Redeemable(t) == t \in DOMAIN tickets /\ now <= tickets[t].expires /\ Known(tickets[t].session)
Spent(t)      == DOMAIN tickets \ {t}

Attach(c, t) ==
    /\ phase = "serve" /\ t \in DOMAIN tickets
    /\ tickets' = Restrict(tickets, Spent(t))
    /\ IF Redeemable(t) /\ c \notin DOMAIN log.redeemed
       THEN /\ conns' = With(conns, c, [session |-> tickets[t].session, queue |-> <<>>,
                                       must |-> FALSE, heard |-> tick - 1, beat |-> 0])
            /\ log' = [log EXCEPT
                  !.redeemed = With(@, c, [ticket |-> t, session |-> tickets[t].session]),
                  !.due = With(@, c, <<>>), !.told = With(@, c, <<>>)]
       ELSE UNCHANGED <<conns, log>>
    /\ UNCHANGED <<tick, now, opened, sessions, issued, receipts, grants, subs, ingress, pending,
                   buffer, phase, jobs, running, waiting, called>>

(* inbound_ack(): accepted, or of a wrong epoch or an unknown snapshot.    *)
Ack(c) ==
    /\ phase = "serve" /\ c \in DOMAIN conns
    /\ \/ conns' = [conns EXCEPT ![c].heard = tick - 1]
       \/ conns' = [conns EXCEPT ![c].must = TRUE]
    /\ UNCHANGED <<tick, now, opened, sessions, tickets, issued, receipts, grants, subs, ingress,
                   pending, buffer, phase, jobs, running, waiting, called, log>>

(* next_outbound() of the reliable queue.                                  *)
Send(c) ==
    /\ phase = "serve" /\ c \in DOMAIN conns /\ ~conns[c].must /\ conns[c].queue # <<>>
    /\ conns' = [conns EXCEPT ![c].queue = Tail(@)]
    /\ log' = [log EXCEPT !.told[c] = Append(@, Head(conns[c].queue))]
    /\ UNCHANGED <<tick, now, opened, sessions, tickets, issued, receipts, grants, subs, ingress,
                   pending, buffer, phase, jobs, running, waiting, called>>

Detach(c) ==
    /\ phase = "serve" /\ c \in DOMAIN conns
    /\ conns' = Restrict(conns, DOMAIN conns \ {c})
    /\ UNCHANGED <<tick, now, opened, sessions, tickets, issued, receipts, grants, subs, ingress,
                   pending, buffer, phase, jobs, running, waiting, called, log>>

Served ==
    /\ phase = "serve" /\ phase' = "step"
    /\ UNCHANGED <<tick, now, core, jobs, running, waiting, called, log>>

(* Only jobs and attaching read the clock; it moves before any of these.   *)
TimePasses ==
    /\ phase = "serve" /\ now < MaxNow /\ now' = now + 1
    /\ UNCHANGED <<tick, core, phase, jobs, running, waiting, called, log>>

Next ==
    \/ \E k \in Caller : Call(k)
    \/ TakeJobs \/ RunJob \/ JobsDone \/ Step \/ Pump \/ Served \/ TimePasses
    \/ \E c \in Conn : Ack(c) \/ Send(c) \/ Detach(c) \/ \E t \in 1 .. MaxIssued : Attach(c, t)

Spec == Init /\ [][Next]_vars

-----------------------------------------------------------------------------
(* Properties.                                                             *)

(* Every variable keeps its type; no bucket holds more than a second's     *)
(* worth of commands, no reliable queue more than its limit.               *)
TypeOK ==
    /\ tick \in 0 .. MaxTick /\ now \in 0 .. MaxNow
    /\ opened \in 0 .. MaxOpened /\ issued \in 0 .. MaxIssued
    /\ DOMAIN sessions \subseteq 1 .. opened /\ DOMAIN tickets \subseteq 1 .. issued
    /\ \A s \in DOMAIN sessions : sessions[s].tokens \in 0 .. Rate
    /\ grants \in [Key -> [owner : 0 .. opened, lease : {0} \cup Leases]]
    /\ subs \subseteq 1 .. opened /\ DOMAIN conns \subseteq Conn
    /\ \A c \in DOMAIN conns : Len(conns[c].queue) <= MaxReliable
    /\ \A p \in pending : p.ingress \in 1 .. ingress
    /\ phase \in {"step", "control", "jobs", "pump", "serve"}
    /\ waiting \subseteq Caller

(* Closing a session, in whatever order with tickets, streams and leases,  *)
(* leaves nothing behind that acts for it.                                 *)
NothingOutlivesClose ==
    /\ \A k \in Key : grants[k].owner # 0 => Known(grants[k].owner)
    /\ \A t \in DOMAIN tickets : Known(tickets[t].session)
    /\ \A c \in DOMAIN conns : Known(conns[c].session)

(* A ticket opens one stream, whatever is tried with it, and that stream   *)
(* is its session's.                                                       *)
TicketOpensOneStream ==
    \A c, d \in DOMAIN log.redeemed :
        /\ log.redeemed[c].ticket = log.redeemed[d].ticket => c = d
        /\ c \in DOMAIN conns => conns[c].session = log.redeemed[c].session

(* "A retry with the same session and client sequence must return the      *)
(* cached result and not be enqueued again."                               *)
EnqueuedOnce ==
    \A x, y \in log.enqueued : x.s = y.s /\ x.q = y.q => x = y

(* Between any two moments a session gets no more commands through than    *)
(* one full bucket and what flowed in meanwhile.                           *)
RateIsBounded ==
    \A s \in Ids, t0, t1 \in 0 .. now :
        Cardinality({x \in log.enqueued : x.s = s /\ x.at \in t0 .. t1})
            <= IF t1 < t0 THEN 0 ELSE Rate * (1 + t1 - t0)

(* A terminal receipt is never lost on a stream that goes on: what was due *)
(* has been sent or is queued, in order and with the heartbeats that were  *)
(* queued between, or the stream is condemned.                             *)
ReceiptsReachStreams ==
    \A c \in DOMAIN conns : conns[c].must \/ log.due[c] = log.told[c] \o conns[c].queue

(* No call is forgotten between the threads: a waiting caller has exactly  *)
(* one job, posted or being run.                                           *)
NoCallIsLost ==
    LET all == jobs \o running
    IN  \A k \in waiting : Cardinality({i \in DOMAIN all : all[i].by = k}) = 1

(* Nobody loses a lease before its tick but by giving it up.               *)
GrantsStand ==
    [][\A k \in Key : grants[k].owner # 0 /\ grants[k].lease > tick
                         /\ grants'[k].owner # grants[k].owner
          => (Runs("release") \/ Runs("close")) /\ req.s = grants[k].owner]_vars

(* What the proofs need: how the properties above are kept.                *)

(* The shapes of maps and records.                                         *)
Shapes ==
    /\ tick \in Nat /\ issued \in Nat
    /\ grants \in [Key -> [owner : Nat, lease : Nat]]
    /\ \A c \in DOMAIN conns : DOMAIN conns[c] = {"session", "queue", "must", "heard", "beat"}
    /\ DOMAIN log = {"redeemed", "enqueued", "due", "told"}
    /\ jobs \in Seq([by : Caller, req : Requests])
    /\ running \in Seq([by : Caller, req : Requests])

(* A ticket that was redeemed is gone, and its stream was made by it.      *)
TicketsSpent ==
    /\ DOMAIN tickets \subseteq 1 .. issued
    /\ DOMAIN conns \subseteq DOMAIN log.redeemed
    /\ \A c \in DOMAIN log.redeemed : log.redeemed[c].ticket \in (1 .. issued) \ DOMAIN tickets

(* What was enqueued has a receipt, and receipts stay.                     *)
EnqueuedHasReceipt == \A x \in log.enqueued : <<x.s, x.q>> \in DOMAIN receipts

(* A stream that goes on is whole, and its frames are sequences: those of  *)
(* a step are of the commands it applies, of which there are finitely many.*)
StreamsWhole ==
    /\ ingress \in Nat
    /\ {a.ingress : a \in buffer} \subseteq Nat /\ IsFiniteSet({a.ingress : a \in buffer})
    /\ DOMAIN log.redeemed \subseteq DOMAIN log.due \cap DOMAIN log.told
    /\ \A c \in DOMAIN conns :
          /\ conns[c].must \in BOOLEAN
          /\ ~conns[c].must => /\ log.told[c] \in Seq(Nat) /\ conns[c].queue \in Seq(Nat)
                              /\ log.due[c] = log.told[c] \o conns[c].queue

SessionInv ==
    /\ Shapes
    /\ NothingOutlivesClose
    /\ TicketsSpent /\ TicketOpensOneStream
    /\ EnqueuedHasReceipt /\ EnqueuedOnce
    /\ StreamsWhole
=============================================================================
