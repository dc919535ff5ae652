---------------------------- MODULE StreamTransport ----------------------------
(***************************************************************************)
(* gateway::StreamTransport: WebSocket sessions of the data plane.  A      *)
(* connection is accepted and its upgrade request checked on the main      *)
(* thread; without shards (or with TLS) the same session then carries it,  *)
(* with shards its socket is handed to a shard thread that accepts the     *)
(* upgrade and does all reads and writes.  The shard reports back through  *)
(* one inbox; the main thread reaches the shard by an outbox under a mutex *)
(* and by handlers posted to the shard's io_context.                       *)
(*                                                                         *)
(* Steps are what the other thread can observe: a critical section, an     *)
(* atomic operation, a post; a handler that touches only its own thread's  *)
(* state is one step.  Completions of socket operations may come whenever  *)
(* the peer lets them.                                                     *)
(***************************************************************************)
EXTENDS Integers, Sequences, FiniteSets, SequencesExt

CONSTANTS
    Conn,         \* connections the peers open
    Sharding,     \* values of sharding_enabled(): a set of Booleans
    MaxBuffer,    \* max_write_buffer_bytes, in frames
    MaxFrames,    \* bound of the model: state frames per connection
    MaxInbound    \* bound of the model: client frames per connection

ASSUME TransportConstants ==
    /\ Sharding \subseteq BOOLEAN
    /\ MaxBuffer \in Nat \ {0} /\ MaxFrames \in Nat /\ MaxInbound \in Nat

VARIABLES
    sharded,      \* sharding_enabled()
    attached,     \* connections attach_stream() let in, until detach_stream()
    ended,        \* ... those whose session close_session() has closed
    must,         \* ... those with must_disconnect
    taken,        \* frames next_outbound() has given out
    locals,       \* Impl::sessions
    remotes,      \* Impl::remotes
    here,         \* the main thread's ws_session of a connection
    there,        \* its shard_session
    handlers,     \* handlers posted to the shard's io_context
    busy,         \* drain_outbox() between its two accesses
    inbox,        \* events from the shard
    main,         \* where poll() is, the events it took, what it still has to do
    peer,         \* frames the client sent, and whether it is gone
    wire,         \* history: frames the client was sent completely
    given         \* history: frames the session was given, and why it closes

mains  == <<attached, ended, must, taken, locals, remotes, here, main>>
shards == <<there, handlers, busy>>
vars   == <<sharded, mains, shards, inbox, peer, wire, given>>

Err  == 0      \* the protocol error frame; state frames are 1, 2, ...
None == "none"
NoFrame == -1

NewHere  == [st |-> "none", out |-> <<>>, cur |-> <<>>, closing |-> FALSE,
             shutting |-> FALSE, closed |-> FALSE, transferred |-> FALSE]
NewThere == [st |-> "none", box |-> <<>>, close |-> FALSE, kick |-> FALSE,
             queue |-> <<>>, cur |-> <<>>, closing |-> FALSE, reported |-> FALSE]

Init ==
    /\ sharded \in Sharding
    /\ attached = {} /\ ended = {} /\ must = {} /\ locals = {} /\ remotes = {}
    /\ taken = [c \in Conn |-> 0]
    /\ here = [c \in Conn |-> NewHere] /\ there = [c \in Conn |-> NewThere]
    /\ handlers = <<>> /\ busy = None /\ inbox = <<>>
    /\ main = [at |-> "io", events |-> <<>>, todo |-> {}, script |-> <<>>]
    /\ peer = [c \in Conn |-> [sent |-> 0, gone |-> FALSE]]
    /\ wire = [c \in Conn |-> <<>>]
    /\ given = [c \in Conn |-> [frames |-> <<>>, why |-> None]]

-----------------------------------------------------------------------------
(* The main thread's session: ws_session.                                  *)

Idle(at) == main.at = at /\ main.script = <<>>

(* write_next(): a frame is written from the front of the queue, which     *)
(* keeps it until the write is done.                                       *)
WriteHere(s) ==
    IF s.out # <<>> THEN [s EXCEPT !.cur = <<Head(s.out)>>]
    ELSE [s EXCEPT !.cur = <<>>, !.shutting = @ \/ s.closing]

(* enqueue(): starts writing an accepted session that is not writing.      *)
EnqueueHere(s, frames) ==
    LET t == [s EXCEPT !.out = @ \o frames]
    IN  IF t.out # <<>> /\ s.cur = <<>> /\ ~s.closed /\ s.st = "open"
        THEN WriteHere(t) ELSE t

(* close(): a session that is writing closes after its last frame.         *)
CloseHere(s) ==
    IF s.closing \/ s.closed THEN s
    ELSE [s EXCEPT !.closing = TRUE, !.shutting = (s.cur = <<>>)]

(* on_read() of a malformed frame: the error goes in front of the queue.   *)
RefuseHere(s) ==
    LET t == [s EXCEPT !.out = <<Err>> \o @, !.closing = TRUE]
    IN  IF s.cur = <<>> THEN WriteHere(t) ELSE t

(* on_write(): the front of the queue is taken to be the frame written.    *)
WroteHere(s) == WriteHere([s EXCEPT !.out = Tail(@)])

(* GatewayCore::connections_: close_session() erases those of its session   *)
(* and tells the transport nothing.                                        *)
Known == attached \ ended

(* accept_next(): a new connection and its session.                        *)
Accept(c) ==
    /\ Idle("io") /\ here[c].st = "none" /\ c \notin locals
    /\ locals' = locals \cup {c}
    /\ here' = [here EXCEPT ![c].st = "request"]
    /\ UNCHANGED <<sharded, attached, ended, must, taken, remotes, main, shards, inbox,
                   peer, wire, given>>

(* on_request() refused: a read error, no upgrade, no ticket, a bad one.   *)
Refuse(c) ==
    /\ Idle("io") /\ here[c].st = "request" /\ ~here[c].closed
    /\ here' = [here EXCEPT ![c].closed = TRUE]
    /\ UNCHANGED <<sharded, attached, ended, must, taken, locals, remotes, main,
                   shards, inbox, peer, wire, given>>

(* on_request() admitted: the core attaches the stream before the upgrade  *)
(* is answered, here or, when the hand-over succeeds, on a shard.          *)
Attach(c) ==
    /\ Idle("io") /\ here[c].st = "request" /\ ~here[c].closed
    /\ attached' = attached \cup {c}
    /\ \/ /\ ~sharded
          /\ here' = [here EXCEPT ![c].st = "accept"]
          /\ UNCHANGED <<there, handlers>>
       \/ /\ sharded
          /\ here' = [here EXCEPT ![c].closed = TRUE, ![c].transferred = TRUE]
          /\ there' = [there EXCEPT ![c].st = "posted"]
          /\ handlers' = Append(handlers, <<"adopt", c>>)
       \/ /\ sharded    \* local_endpoint() failed: the socket is gone
          /\ here' = [here EXCEPT ![c].closed = TRUE]
          /\ UNCHANGED <<there, handlers>>
    /\ UNCHANGED <<sharded, ended, must, taken, locals, remotes, main, busy, inbox,
                   peer, wire, given>>

(* on_accept(): what was queued meanwhile is written.                      *)
AcceptedHere(c) ==
    /\ Idle("io") /\ here[c].st = "accept" /\ ~here[c].closed
    /\ here' = [here EXCEPT ![c] = EnqueueHere([@ EXCEPT !.st = "open"], <<>>)]
    /\ UNCHANGED <<sharded, attached, ended, must, taken, locals, remotes, main,
                   shards, inbox, peer, wire, given>>

(* The reason a session was first told to close, and whether it refused    *)
(* malformed input.                                                        *)
Because(c, why) == IF given[c].why = None THEN why ELSE given[c].why
Refused(c)      == Contains(given[c].frames, Err)

(* on_read(): an acknowledgement the core may refuse, or malformed input;  *)
(* after the latter no further read is started.                            *)
ReadHere(c) ==
    /\ Idle("io") /\ here[c].st = "open" /\ ~here[c].closed /\ ~Refused(c)
    /\ peer[c].sent < MaxInbound
    /\ peer' = [peer EXCEPT ![c].sent = @ + 1]
    /\ \/ /\ must' \in {must, must \cup ({c} \cap Known)}
          /\ UNCHANGED <<here, given>>
       \/ /\ here' = [here EXCEPT ![c] = RefuseHere(@)]
          /\ given' = [given EXCEPT ![c].frames = Append(@, Err), ![c].why = Because(c, "bad")]
          /\ UNCHANGED must
    /\ UNCHANGED <<sharded, attached, ended, taken, locals, remotes, main, shards,
                   inbox, wire>>

WroteOne(c) ==
    /\ Idle("io") /\ here[c].cur # <<>> /\ ~here[c].closed
    /\ ~peer[c].gone /\ ~here[c].shutting
    /\ wire' = [wire EXCEPT ![c] = @ \o here[c].cur]
    /\ here' = [here EXCEPT ![c] = WroteHere(@)]
    /\ UNCHANGED <<sharded, attached, ended, must, taken, locals, remotes, main,
                   shards, inbox, peer, given>>

(* An accept, read or write that fails, and the end of a close.            *)
EndHere(c) ==
    /\ Idle("io") /\ here[c].st \in {"accept", "open"} /\ ~here[c].closed
    /\ peer[c].gone \/ here[c].shutting
    /\ here' = [here EXCEPT ![c].closed = TRUE]
    /\ UNCHANGED <<sharded, attached, ended, must, taken, locals, remotes, main,
                   shards, inbox, peer, wire, given>>

-----------------------------------------------------------------------------
(* The main thread: GatewayCore::pump() and inbound handling may condemn a *)
(* connection, then poll() runs its phases.                                *)

Condemn(c) ==
    /\ Idle("io") /\ c \in Known \ must
    /\ must' = must \cup {c}
    /\ UNCHANGED <<sharded, attached, ended, taken, locals, remotes, here, main,
                   shards, inbox, peer, wire, given>>

(* A CloseSession job: the core forgets every stream of the session; their  *)
(* sockets stay open, and nothing is sent on them any more.                *)
CloseSession(S) ==
    /\ Idle("io") /\ S # {} /\ S \subseteq Known
    /\ ended' = ended \cup S /\ must' = must \ S
    /\ UNCHANGED <<sharded, attached, taken, locals, remotes, here, main, shards,
                   inbox, peer, wire, given>>

(* enqueue() and request_close() of a shard session, access by access.     *)
EnqueueThere(c, f) == <<<<"push", c, f>>, <<"kick", c, f>>>>
RequestClose(c)    == <<<<"flag", c, NoFrame>>>>

(* drain_inbox(): the events are taken at once and handled one by one.     *)
TakeInbox ==
    /\ Idle("io") /\ main' = [main EXCEPT !.at = "drain", !.events = inbox]
    /\ inbox' = <<>>
    /\ UNCHANGED <<sharded, attached, ended, must, taken, locals, remotes, here,
                   shards, peer, wire, given>>

(* handle_remote_frame() of malformed input: the error frame, then close.  *)
RefuseThere(c) == EnqueueThere(c, Err) \o RequestClose(c)

\* Mutant: a closed session stays registered.
RegisteredForGood(kind, c) == IF kind = "attach" THEN remotes \cup {c} ELSE remotes

Registered(kind, c) ==
    CASE kind = "attach" -> remotes \cup {c}
      [] kind = "closed" -> remotes \ {c}
      [] OTHER -> remotes

HandleEvent ==
    /\ Idle("drain") /\ main.events # <<>>
    /\ LET kind == Head(main.events)[1]
           c    == Head(main.events)[2]
       IN  /\ main' = [main EXCEPT !.events = Tail(@),
                                   !.script = IF kind = "bad" THEN RefuseThere(c) ELSE <<>>]
           /\ remotes' = Registered(kind, c)
           /\ attached' = IF kind = "closed" THEN attached \ {c} ELSE attached
           /\ must' \in {must \cap attached'} \cup
                        (IF kind = "ack" THEN {must \cup ({c} \cap Known)} ELSE {})
           /\ handlers' = IF kind = "closed" THEN Append(handlers, <<"erase", c>>) ELSE handlers
           /\ given' = [given EXCEPT ![c].why = IF kind = "bad" THEN Because(c, "bad") ELSE @]
    /\ UNCHANGED <<sharded, ended, taken, locals, here, there, busy, inbox, peer, wire>>

(* One access of enqueue() or request_close().                             *)
Access ==
    /\ main.script # <<>>
    /\ LET op == Head(main.script)[1]
           c  == Head(main.script)[2]
           f  == Head(main.script)[3]
       IN  \/ /\ op = "push"
              /\ there' = [there EXCEPT ![c].box = Append(@, f)]
              /\ given' = [given EXCEPT ![c].frames = Append(@, f)]
              /\ main' = [main EXCEPT !.script = Tail(@)]
              /\ UNCHANGED handlers
           \/ /\ op = "kick"
              /\ there' = [there EXCEPT ![c].kick = TRUE]
              /\ handlers' = IF there[c].kick THEN handlers ELSE Append(handlers, <<"drain", c>>)
              /\ main' = [main EXCEPT !.script = Tail(@)]
              /\ UNCHANGED given
           \/ /\ op = "flag"
              /\ there' = [there EXCEPT ![c].close = TRUE]
              /\ main' = [main EXCEPT !.script = Tail(@) \o
                             (IF there[c].close THEN <<>> ELSE <<<<"post", c, NoFrame>>>>)]
              /\ UNCHANGED <<handlers, given>>
           \/ /\ op = "post"
              /\ handlers' = Append(handlers, <<"close", c>>)
              /\ main' = [main EXCEPT !.script = Tail(@)]
              /\ UNCHANGED <<there, given>>
    /\ UNCHANGED <<sharded, attached, ended, must, taken, locals, remotes, here, busy,
                   inbox, peer, wire>>

(* flush_local(): close what must be closed, hand out what fits.           *)
Numbers(a, n) == [i \in 1 .. n |-> a + i]

FlushLocal ==
    /\ Idle("drain") /\ main.events = <<>>
    /\ \E n \in [locals -> 0 .. MaxFrames] :
           LET closedOr(c) == IF c \in must THEN CloseHere(here[c]) ELSE here[c]
               frames(c)   == Numbers(taken[c], n[c])
           IN  /\ \A c \in locals : n[c] > 0 =>
                      /\ c \in Known /\ ~here[c].closed
                      /\ taken[c] + n[c] <= MaxFrames
                      /\ Len(here[c].out) + n[c] <= MaxBuffer
               /\ here' = [c \in Conn |-> IF c \in locals THEN EnqueueHere(closedOr(c), frames(c))
                                          ELSE here[c]]
               /\ taken' = [c \in Conn |-> IF c \in locals THEN taken[c] + n[c] ELSE taken[c]]
               /\ given' = [c \in Conn |->
                      IF c \notin locals THEN given[c]
                      ELSE [frames |-> given[c].frames \o frames(c),
                            why |-> IF c \in must THEN Because(c, "must") ELSE given[c].why]]
    /\ main' = [main EXCEPT !.at = "flush", !.todo = remotes]
    /\ UNCHANGED <<sharded, attached, ended, must, locals, remotes, shards, inbox,
                   peer, wire>>

Room(c) == Len(there[c].box) < MaxBuffer

(* flush_remote(): one frame or one close request at a time.               *)
FlushRemote(c) ==
    /\ Idle("flush") /\ c \in main.todo
    /\ \/ /\ c \in must
          /\ main' = [main EXCEPT !.todo = @ \ {c}, !.script = RequestClose(c)]
          /\ given' = [given EXCEPT ![c].why = Because(c, "must")]
          /\ UNCHANGED taken
       \/ /\ c \in Known \ must /\ taken[c] < MaxFrames
          /\ Room(c)
          /\ taken' = [taken EXCEPT ![c] = @ + 1]
          /\ main' = [main EXCEPT !.script = EnqueueThere(c, taken[c] + 1)]
          /\ UNCHANGED given
       \/ /\ c \notin must     \* nothing to send, or the outbox is full
          /\ main' = [main EXCEPT !.todo = @ \ {c}]
          /\ UNCHANGED <<taken, given>>
    /\ UNCHANGED <<sharded, attached, ended, must, locals, remotes, here, shards,
                   inbox, peer, wire>>

(* sweep_local(): closed sessions go, and with them their core connection  *)
(* unless a shard carries it now.                                          *)
Swept      == {c \in locals : here[c].closed}
\* Mutant: handed-over sessions are detached too.
DetachAll  == Swept
Detachable == {c \in Swept : ~here[c].transferred}

Sweep ==
    /\ Idle("flush") /\ main.todo = {}
    /\ main' = [main EXCEPT !.at = "io"]
    /\ locals' = locals \ Swept
    /\ attached' = attached \ Detachable /\ must' = must \ Detachable
    /\ UNCHANGED <<sharded, ended, taken, remotes, here, shards, inbox, peer, wire,
                   given>>

-----------------------------------------------------------------------------
(* The shard thread: shard_session.                                        *)

ReportClosed(s) == [s EXCEPT !.reported = TRUE]
Closed(c) == IF there[c].reported THEN inbox ELSE Append(inbox, <<"closed", c>>)

DoClose(s) == [s EXCEPT !.closing = TRUE]

(* write_next(): the next frame, or the close that was asked for.          *)
WriteThere(s) ==
    IF s.queue # <<>> THEN [s EXCEPT !.cur = <<Head(s.queue)>>, !.queue = Tail(@)]
    ELSE IF s.close THEN DoClose([s EXCEPT !.cur = <<>>])
    ELSE [s EXCEPT !.cur = <<>>]

\* Mutants: the kick is not let through again; a swap drops what still waits.
UnkickNever(s) == s
TakenBySwap(s) == [s EXCEPT !.queue = s.box, !.box = <<>>]

Unkick(s) == [s EXCEPT !.kick = FALSE]
Taken(s)  == [s EXCEPT !.queue = @ \o s.box, !.box = <<>>]

(* A posted handler; drain_outbox() lets the next kick through first.      *)
RunHandler ==
    /\ busy = None /\ handlers # <<>> /\ handlers' = Tail(handlers)
    /\ LET op == Head(handlers)[1]
           c  == Head(handlers)[2]
       IN  \/ /\ op = "adopt"
              /\ there' = [there EXCEPT ![c].st = "accept"]
              /\ UNCHANGED busy
           \/ /\ op = "drain"
              /\ there' = [there EXCEPT ![c] = Unkick(@)]
              /\ busy' = c
           \/ /\ op = "close"
              /\ there' = [there EXCEPT ![c] = IF @.cur = <<>> THEN DoClose(@) ELSE @]
              /\ UNCHANGED busy
           \/ /\ op = "erase"
              /\ there' = [there EXCEPT ![c].st = "erased"]
              /\ UNCHANGED busy
    /\ UNCHANGED <<sharded, mains, inbox, peer, wire, given>>

TakeOutbox ==
    /\ busy # None /\ busy' = None
    /\ there' = [there EXCEPT ![busy] =
           LET s == Taken(@)
           IN  IF s.cur = <<>> THEN WriteThere(s) ELSE s]
    /\ UNCHANGED <<sharded, mains, handlers, inbox, peer, wire, given>>

(* on_accept(): the attach event goes before any frame is read.            *)
AcceptedThere(c) ==
    /\ busy = None /\ there[c].st = "accept" /\ ~there[c].reported
    /\ there' = [there EXCEPT ![c].st = "open"]
    /\ inbox' = Append(inbox, <<"attach", c>>)
    /\ UNCHANGED <<sharded, mains, handlers, busy, peer, wire, given>>

(* on_read(): raw frames go to the main thread, malformed ones included.   *)
ReadThere(c) ==
    /\ busy = None /\ there[c].st = "open" /\ ~there[c].reported
    /\ peer[c].sent < MaxInbound
    /\ peer' = [peer EXCEPT ![c].sent = @ + 1]
    /\ \E kind \in {"ack", "bad"} : inbox' = Append(inbox, <<kind, c>>)
    /\ UNCHANGED <<sharded, mains, shards, wire, given>>

WroteThere(c) ==
    /\ busy = None /\ there[c].cur # <<>> /\ ~there[c].reported
    /\ ~there[c].closing /\ ~peer[c].gone
    /\ wire' = [wire EXCEPT ![c] = @ \o there[c].cur]
    /\ there' = [there EXCEPT ![c] = WriteThere(@)]
    /\ UNCHANGED <<sharded, mains, handlers, busy, inbox, peer, given>>

(* An accept, read or write that fails, and the end of a close.            *)
EndThere(c) ==
    /\ busy = None /\ there[c].st \in {"accept", "open"} /\ ~there[c].reported
    /\ peer[c].gone \/ there[c].closing
    /\ there' = [there EXCEPT ![c] = ReportClosed(@)]
    /\ inbox' = Closed(c)
    /\ UNCHANGED <<sharded, mains, handlers, busy, peer, wire, given>>

Leave(c) ==
    /\ ~peer[c].gone /\ peer' = [peer EXCEPT ![c].gone = TRUE]
    /\ UNCHANGED <<sharded, mains, shards, inbox, wire, given>>

Main ==
    \/ TakeInbox \/ HandleEvent \/ Access \/ FlushLocal \/ Sweep
    \/ \E c \in Conn : FlushRemote(c)
Shard == RunHandler \/ TakeOutbox

Next ==
    \/ Main \/ Shard
    \/ \E S \in SUBSET Conn : CloseSession(S)
    \/ \E c \in Conn :
          \/ Accept(c) \/ Refuse(c) \/ Attach(c) \/ AcceptedHere(c) \/ ReadHere(c)
          \/ WroteOne(c) \/ EndHere(c) \/ Condemn(c)
          \/ AcceptedThere(c) \/ ReadThere(c) \/ WroteThere(c) \/ EndThere(c) \/ Leave(c)

Spec == Init /\ [][Next]_vars

(* The main loop polls for ever and the io_contexts run what is ready.  Of *)
(* the socket operations only those on a connection that is gone are sure  *)
(* to end: a peer need not read what is written nor answer a close.        *)
Fairness ==
    /\ WF_vars(TakeInbox) /\ WF_vars(HandleEvent) /\ WF_vars(Access) /\ WF_vars(FlushLocal)
    /\ WF_vars(Sweep) /\ WF_vars(Shard)
    /\ \A c \in Conn : /\ WF_vars(FlushRemote(c))
                        /\ WF_vars(peer[c].gone /\ EndThere(c))
                        /\ SF_vars(peer[c].gone /\ EndHere(c))
FairSpec == Spec /\ Fairness

-----------------------------------------------------------------------------
(* Properties.                                                             *)

Frames == 0 .. MaxFrames
Ops    == {"push", "kick", "flag", "post"} \X Conn \X (Frames \cup {NoFrame})

(* Every variable keeps its type; the outbox of a shard session never      *)
(* exceeds the write buffer by more than the error frames.                 *)
TypeOK ==
    /\ sharded \in BOOLEAN /\ attached \subseteq Conn /\ ended \subseteq Conn
    /\ must \subseteq Known
    /\ locals \subseteq Conn /\ remotes \subseteq Conn /\ taken \in [Conn -> Frames]
    /\ \A c \in Conn :
          /\ here[c].st \in {"none", "request", "accept", "open"}
          /\ there[c].st \in {"none", "posted", "accept", "open", "erased"}
          /\ Len(SelectSeq(there[c].box, LAMBDA f : f # Err)) <= MaxBuffer
          /\ peer[c].sent \in 0 .. MaxInbound
    /\ \A i \in DOMAIN handlers :
          handlers[i] \in {"adopt", "drain", "close", "erase"} \X Conn
    /\ busy \in Conn \cup {None}
    /\ \A i \in DOMAIN inbox : inbox[i] \in {"attach", "ack", "bad", "closed"} \X Conn
    /\ main.at \in {"io", "drain", "flush"} /\ main.todo \subseteq Conn
    /\ \A i \in DOMAIN main.script : main.script[i] \in Ops

(* No frame of a session is lost, repeated or overtaken between the core   *)
(* and the socket, across the outbox, its mutex and the posted drains.     *)
Waiting(c) == IF sharded THEN there[c].cur \o there[c].queue \o there[c].box ELSE here[c].out
FramesKeepOrder ==
    \A c \in Conn : sharded \/ ~Refused(c) => given[c].frames = wire[c] \o Waiting(c)

(* Every connection in the core's table is carried by a live session, or    *)
(* the closed event that will remove it is on its way; and a live session   *)
(* is missing from the table only because close_session() closed the        *)
(* session it belongs to, whichever thread carries it.                     *)
Events     == main.events \o inbox
Reports(c) == \E i \in DOMAIN Events : Events[i] = <<"closed", c>>

CarriedHere(c)  == c \in locals /\ ~here[c].transferred
CarriedThere(c) == there[c].st \in {"posted", "accept", "open"} /\ (there[c].reported => Reports(c))
LiveHere(c)     == here[c].st \in {"accept", "open"} /\ ~here[c].closed
LiveThere(c)    == there[c].st # "none" /\ ~there[c].reported

CoreMatchesSessions ==
    /\ \A c \in Known : CarriedHere(c) \/ CarriedThere(c)
    /\ \A c \in Conn : LiveHere(c) \/ LiveThere(c) => c \in Known \cup ended

(* flush_remote() meets no session that has ended unless its closed event   *)
(* is on the way, and none the core does not know unless close_session()    *)
(* took it away: the attach event of a connection comes before its end.     *)
NoStaleRemote ==
    \A c \in remotes : /\ c \in Known \cup ended
                       /\ there[c].reported => Reports(c)

(* Stronger, and false: close_session() does not tell the transport, which  *)
(* keeps the socket of a connection the core has forgotten.                *)
SessionsAreKnown == \A c \in Conn : LiveHere(c) \/ LiveThere(c) => c \in Known

(* A frame put into an outbox is taken by the shard thread: deduplicating  *)
(* the kicks loses no wake-up.                                             *)
BoxDrains == \A c \in Conn : (there[c].box # <<>>) ~> (there[c].box = <<>>)

(* A connection whose peer is gone leaves the core, whichever thread       *)
(* carries it and whatever it was waiting for.                             *)
GoneIsDetached == \A c \in Conn : peer[c].gone ~> (c \notin attached)

(* "Malformed input: send back a protocol error frame, then close."        *)
ErrorBeforeClose ==
    \A c \in Conn : given[c].why = "bad" /\ (here[c].shutting \/ there[c].closing)
        => Contains(wire[c], Err)

(* What the proofs need: how the properties above are kept.                *)

Event   == {"attach", "ack", "bad", "closed"} \X Conn
Handler == {"adopt", "drain", "close", "erase"} \X Conn
Script  == {"push", "kick", "flag", "post"} \X Conn \X Int

HereRecord  == [st : {"none", "request", "accept", "open"}, out : Seq(Int), cur : Seq(Int),
                closing : BOOLEAN, shutting : BOOLEAN, closed : BOOLEAN, transferred : BOOLEAN]
ThereRecord == [st : {"none", "posted", "accept", "open", "erased"}, box : Seq(Int),
                close : BOOLEAN, kick : BOOLEAN, queue : Seq(Int), cur : Seq(Int),
                closing : BOOLEAN, reported : BOOLEAN]

Shapes ==
    /\ sharded \in BOOLEAN /\ busy \in Conn \cup {None} /\ taken \in [Conn -> Int]
    /\ here \in [Conn -> HereRecord] /\ there \in [Conn -> ThereRecord]
    /\ handlers \in Seq(Handler) /\ inbox \in Seq(Event)
    /\ main \in [at : {"io", "drain", "flush"}, events : Seq(Event), todo : SUBSET Conn,
                 script : Seq(Script)]
    /\ locals \subseteq Conn /\ remotes \subseteq Conn /\ attached \subseteq Conn
    /\ must \subseteq attached
    /\ wire \in [Conn -> Seq(Int)]
    /\ given \in [Conn -> [frames : Seq(Int), why : {None, "bad", "must"}]]

(* A connection has frames in one of the two sessions only.                 *)
OneCarrier ==
    /\ sharded => \A c \in Conn :
          /\ here[c].st \in {"none", "request"} /\ here[c].out = <<>> /\ here[c].cur = <<>>
          /\ c \in attached => here[c].closed
    /\ ~sharded => /\ remotes = {} /\ main.todo = {} /\ main.script = <<>> /\ Events = <<>>
                   /\ \A c \in Conn : /\ there[c].st = "none" /\ there[c].cur = <<>>
                                      /\ there[c].queue = <<>> /\ there[c].box = <<>>

(* What the main thread writes is the front of the queue, unless an error   *)
(* frame was put in front of it.                                           *)
FrontIsWritten ==
    \A c \in Conn : here[c].cur # <<>> =>
        here[c].out # <<>> /\ (~Refused(c) => here[c].cur = <<Head(here[c].out)>>)

(* A session is registered until it is closed; what is handed over is       *)
(* closed here.                                                            *)
Lives ==
    \A c \in Conn :
        /\ here[c].st # "none" /\ ~here[c].closed => c \in locals
        /\ there[c].st # "none" => here[c].transferred
        /\ here[c].transferred => here[c].closed
        /\ there[c].st \in {"none", "posted"} => ~there[c].reported
        /\ c \in remotes => there[c].st # "none"

(* The transport owes the core one detach_stream() for every connection it  *)
(* attached, also when close_session() came in between.                    *)
EndsAreOwed ==
    /\ \A c \in attached : CarriedHere(c) \/ CarriedThere(c)
    /\ \A c \in Conn : /\ LiveHere(c) => c \in attached
                       /\ LiveThere(c) => c \in attached
RemotesAreOwed == remotes \subseteq attached

(* A session is adopted once, and erased when the core has forgotten it.    *)
HandlersInOrder ==
    \A i \in DOMAIN handlers, c \in Conn :
        /\ handlers[i] = <<"adopt", c>> =>
              /\ there[c].st = "posted"
              /\ \A j \in DOMAIN handlers : handlers[j] = <<"adopt", c>> => j = i
        /\ handlers[i] = <<"erase", c>> => c \notin attached /\ there[c].reported

(* The core knows a connection until its closed event has been handled, and *)
(* its attach event comes before that.                                     *)
EventsInOrder ==
    /\ main.at # "drain" => main.events = <<>>
    /\ \A i \in DOMAIN Events, c \in Conn :
          /\ Events[i][2] = c => there[c].st # "none"
          /\ Events[i] = <<"closed", c>> =>
                /\ there[c].reported
                /\ \A j \in DOMAIN Events : Events[j] = <<"attach", c>> => j < i
          /\ Events[i] = <<"attach", c>> => c \in attached

TransportInv ==
    /\ Shapes /\ OneCarrier /\ FrontIsWritten /\ FramesKeepOrder
    /\ Lives /\ HandlersInOrder /\ EventsInOrder /\ EndsAreOwed /\ RemotesAreOwed
=============================================================================
