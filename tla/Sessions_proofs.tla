--------------------------- MODULE Sessions_proofs ---------------------------
(***************************************************************************)
(* Proofs about Sessions: closing a session leaves nothing behind, tickets *)
(* are spent, a retry is not enqueued again, receipts reach their streams  *)
(* and leases stand, for any number of callers, connections, sessions,     *)
(* tickets and keys, and any size of the reliable queue.                   *)
(***************************************************************************)
EXTENDS Sessions, SequenceTheorems, FiniteSetTheorems, WellFoundedInduction, TLAPS

-----------------------------------------------------------------------------
(* Maps.                                                                   *)

LEMMA RestrictIs ==
    ASSUME NEW f, NEW S \in SUBSET DOMAIN f
    PROVE  DOMAIN Restrict(f, S) = S /\ \A x \in S : Restrict(f, S)[x] = f[x]
BY DEF Restrict

LEMMA MinIsLeast ==
    ASSUME NEW S \in SUBSET Nat, S # {}
    PROVE  Min(S) \in S /\ \A x \in S : Min(S) <= x
<1> DEFINE R == {ss \in Nat \X Nat : ss[1] < ss[2]}
<1>1. IsWellFoundedOn(R, Nat)
  BY NatLessThanWellFounded DEF OpToRel
<1>2. PICK m \in S : \A x \in S : ~(<<x, m>> \in R)
  <2> HIDE DEF R
  <2> QED
    BY <1>1, WFMin
<1>3. \A x \in S : m <= x
  <2> SUFFICES ASSUME NEW x \in S PROVE m <= x
    OBVIOUS
  <2>1. x \in Nat /\ m \in Nat
    OBVIOUS
  <2>2. x < m => <<x, m>> \in R
    BY <2>1
  <2> QED
    BY <1>2, <2>1, <2>2
<1> QED
  BY <1>3 DEF Min

(* The keys acquire_ownership() grants are in the list, and each of them    *)
(* may be granted.                                                         *)
LEMMA AcquiredAreGrantable ==
    ASSUME NEW s, NEW keys \in Seq(Key), NEW k \in Acquired(s, keys)
    PROVE  Grantable(s, k)
<1> DEFINE refused == {i \in DOMAIN keys : ~Grantable(s, keys[i])}
<1>1. CASE refused = {}
  <2>1. k \in ToSet(keys)
    BY <1>1 DEF Acquired
  <2>2. PICK i \in DOMAIN keys : k = keys[i]
    BY <2>1 DEF ToSet
  <2> QED
    BY <1>1, <2>2
<1>2. CASE refused # {}
  <2>1. PICK i \in 1 .. Min(refused) - 1 : k = keys[i]
    BY <1>2 DEF Acquired
  <2>2. refused \in SUBSET Nat
    OBVIOUS
  <2>3. Min(refused) \in refused /\ \A j \in refused : Min(refused) <= j
    <3> HIDE DEF refused
    <3> QED
      BY <1>2, <2>2, MinIsLeast
  <2>4. i \in DOMAIN keys /\ i \notin refused
    <3>1. Min(refused) \in 1 .. Len(keys)
      BY <2>3
    <3> DEFINE m == Min(refused)
    <3> HIDE DEF m, refused
    <3>2. i \in Nat /\ i < m /\ i >= 1 /\ i \in DOMAIN keys
      BY <2>1, <3>1 DEF m
    <3>3. i \notin refused
      BY <2>3, <3>1, <3>2 DEF m
    <3> QED
      BY <3>2, <3>3
  <2> QED
    BY <2>1, <2>4
<1> QED
  BY <1>1, <1>2

-----------------------------------------------------------------------------
(* The invariant, part by part.                                            *)

LEMMA JobAtHead ==
    ASSUME Shapes, NEW op, Runs(op)
    PROVE  req \in Requests /\ req.op = op /\ Tail(running) \in Seq([by : Caller, req : Requests])
<1>1. running \in Seq([by : Caller, req : Requests]) /\ running # <<>>
  BY DEF Shapes, Runs
<1>2. Head(running) \in [by : Caller, req : Requests]
      /\ Tail(running) \in Seq([by : Caller, req : Requests])
  <2> DEFINE R == [by : Caller, req : Requests]
  <2> HIDE DEF R
  <2>1. running \in Seq(R) /\ running # <<>>
    BY <1>1 DEF R
  <2>2. Head(running) \in R /\ Tail(running) \in Seq(R)
    BY <2>1
  <2> QED
    BY <2>2 DEF R
<1> QED
  BY <1>2 DEF Runs, req

LEMMA ListAtHead ==
    ASSUME Shapes, Runs("acquire")
    PROVE  req.keys \in Seq(Key) /\ req.lease \in Nat /\ req.s \in Nat \ {0}
<1>1. req \in Requests /\ req.op = "acquire"
  BY JobAtHead
<1>2. req \in [op : {"acquire"}, s : Ids, keys : KeyLists, lease : Leases]
  BY <1>1 DEF Requests
<1>3. req.s \in Ids /\ req.keys \in KeyLists /\ req.lease \in Leases
  BY <1>2
<1>4. KeyLists \subseteq Seq(Key) /\ Leases \subseteq Nat /\ MaxOpened \in Nat
  BY SessionConstants, SMTT(60)
<1>5. req.s \in Nat \ {0}
  BY <1>3, <1>4 DEF Ids
<1> QED
  BY <1>3, <1>4, <1>5

LEMMA ShapesStep == Shapes /\ [Next]_vars => Shapes'
<1> SUFFICES ASSUME Shapes, [Next]_vars PROVE Shapes'
  OBVIOUS
<1> USE DEF core
<1> DEFINE J == [by : Caller, req : Requests]
<1>j. jobs \in Seq(J) /\ running \in Seq(J)
  BY DEF Shapes
<1>1. tick' \in Nat /\ issued' \in Nat
  <2>1. tick' \in {tick, tick + 1}
    BY ZenonT(60) DEF Next, vars, Call, TakeJobs, RunJob, Open, Close, Ticket, Subscribe, Acquire, Release,
           Submit, Done, JobsDone, Step, Pump, Served, TimePasses, Ack, Send, Detach, Attach
  <2>2. issued' \in {issued, issued + 1}
    BY DEF Next, vars, Call, TakeJobs, RunJob, Open, IssueTo, Close, Ticket, Subscribe, Acquire,
           Release, Submit, JobsDone, Step, Pump, Served, TimePasses, Ack, Send, Detach, Attach
  <2>3. tick \in Nat /\ issued \in Nat
    BY DEF Shapes
  <2> QED
    BY <2>1, <2>2, <2>3
<1>2. jobs' \in Seq(J) /\ running' \in Seq(J)
  <2>1. ASSUME NEW k \in Caller, Call(k) PROVE jobs' \in Seq(J) /\ running' \in Seq(J)
    <3>1. PICK r \in Requests : jobs' = Append(jobs, [by |-> k, req |-> r])
      BY <2>1 DEF Call
    <3>2. [by |-> k, req |-> r] \in J
      OBVIOUS
    <3> HIDE DEF J
    <3> QED
      BY <1>j, <2>1, <3>1, <3>2 DEF Call
  <2>2. CASE TakeJobs
    <3>1. jobs' = <<>> /\ running' = jobs
      BY <2>2 DEF TakeJobs
    <3> HIDE DEF J
    <3> QED
      BY <1>j, <3>1
  <2>3. CASE RunJob
    <3>1. running # <<>> /\ running' = Tail(running) /\ jobs' = jobs
      BY <2>3, SMTT(60) DEF RunJob, Open, Close, Ticket, Subscribe, Acquire, Release, Submit, Runs, Done
    <3> HIDE DEF J
    <3> QED
      BY <1>j, <3>1
  <2>4. ASSUME UNCHANGED <<jobs, running>> PROVE jobs' \in Seq(J) /\ running' \in Seq(J)
    BY <1>j, <2>4, SMTT(60)
  <2>5. \/ UNCHANGED <<jobs, running>> \/ TakeJobs \/ RunJob \/ \E k \in Caller : Call(k)
    BY DEF Next, vars, JobsDone, Step, Pump, Served, TimePasses, Ack, Send, Detach, Attach
  <2> QED
    BY <2>1, <2>2, <2>3, <2>4, <2>5
<1>3. grants' \in [Key -> [owner : Nat, lease : Nat]]
  <2>1. CASE Close \/ Release
    BY <2>1 DEF Close, Release, Shapes, NoGrant
  <2>2. CASE Acquire
    <3>1. [owner |-> req.s, lease |-> req.lease] \in [owner : Nat, lease : Nat]
      BY <2>2, ListAtHead, SMTT(60) DEF Acquire
    <3> QED
      BY <2>2, <3>1, SMTT(60) DEF Acquire, Shapes
  <2>3. \/ UNCHANGED grants \/ Close \/ Release \/ Acquire
    BY ZenonT(60) DEF Next, vars, Call, TakeJobs, RunJob, Open, IssueTo, Ticket, Subscribe, Submit,
           JobsDone, Step, Pump, Served, TimePasses, Ack, Send, Detach, Attach
  <2> QED
    BY <2>1, <2>2, <2>3 DEF Shapes
<1>4. \A c \in DOMAIN conns' : DOMAIN conns'[c] = {"session", "queue", "must", "heard", "beat"}
  <2>0. \A c \in DOMAIN conns : DOMAIN conns[c] = {"session", "queue", "must", "heard", "beat"}
    BY DEF Shapes
  <2>1. ASSUME NEW S \in SUBSET DOMAIN conns, conns' = Restrict(conns, S)
        PROVE  \A c \in DOMAIN conns' : DOMAIN conns'[c] = {"session", "queue", "must", "heard", "beat"}
    BY <2>0, <2>1, RestrictIs
  <2>2. CASE Close
    BY <2>0, <2>1, <2>2, SMTT(60) DEF Close
  <2>3. CASE Step \/ Pump
    BY <2>0, <2>3 DEF Step, Pump, PushReceipts
  <2>4. CASE \E c \in Conn : Ack(c) \/ Send(c) \/ Detach(c)
    BY <2>0, <2>1, <2>4 DEF Ack, Send, Detach
  <2>5. ASSUME NEW c \in Conn, NEW t \in 1 .. MaxIssued, Attach(c, t)
        PROVE  \A d \in DOMAIN conns' : DOMAIN conns'[d] = {"session", "queue", "must", "heard", "beat"}
    BY <2>0, <2>5, SMTT(60) DEF Attach, With
  <2>6. \/ UNCHANGED conns \/ Close \/ Step \/ Pump
        \/ \E c \in Conn : Ack(c) \/ Send(c) \/ Detach(c) \/ \E t \in 1 .. MaxIssued : Attach(c, t)
    BY SMTT(60) DEF Next, vars, Call, TakeJobs, RunJob, Open, IssueTo, Ticket, Subscribe, Acquire,
           Release, Submit, JobsDone, Served, TimePasses
  <2> QED
    BY <2>0, <2>2, <2>3, <2>4, <2>5, <2>6
<1>5. DOMAIN log' = {"redeemed", "enqueued", "due", "told"}
  BY DEF Shapes, Next, vars, Call, TakeJobs, RunJob, Open, Close, Ticket, Subscribe, Acquire,
         Release, Submit, JobsDone, Step, Pump, Served, TimePasses, Ack, Send, Detach, Attach
<1> QED
  BY <1>1, <1>2, <1>3, <1>4, <1>5 DEF Shapes

(* redeem_ticket() and attach_stream(): a new stream or nothing, and the    *)
(* ticket is gone.                                                         *)
LEMMA Attaching ==
    ASSUME Shapes, NEW c \in Conn, NEW t \in 1 .. MaxIssued, Attach(c, t)
    PROVE  /\ t \in DOMAIN tickets /\ tickets' = Restrict(tickets, DOMAIN tickets \ {t})
           /\ UNCHANGED <<issued, sessions, grants, receipts>>
           /\ log'.enqueued = log.enqueued
           /\ \/ UNCHANGED conns /\ log'.redeemed = log.redeemed
              \/ /\ Known(tickets[t].session) /\ c \notin DOMAIN log.redeemed
                 /\ DOMAIN conns' = DOMAIN conns \cup {c} /\ conns'[c].session = tickets[t].session
                 /\ \A d \in DOMAIN conns : d # c => conns'[d] = conns[d]
                 /\ log'.redeemed = With(log.redeemed, c,
                                         [ticket |-> t, session |-> tickets[t].session])
<1>0. DOMAIN log = {"redeemed", "enqueued", "due", "told"}
  BY DEF Shapes
<1>1. /\ t \in DOMAIN tickets /\ tickets' = Restrict(tickets, DOMAIN tickets \ {t})
      /\ UNCHANGED <<issued, sessions, grants, receipts>>
  BY DEF Attach, Spent
<1>2. CASE Redeemable(t) /\ c \notin DOMAIN log.redeemed
  <2> DEFINE fresh == [session |-> tickets[t].session, queue |-> <<>>, must |-> FALSE,
                       heard |-> tick - 1, beat |-> 0]
  <2>1. conns' = With(conns, c, fresh)
    BY <1>2 DEF Attach
  <2>2. /\ log'.redeemed = With(log.redeemed, c, [ticket |-> t, session |-> tickets[t].session])
        /\ log'.enqueued = log.enqueued
    BY <1>0, <1>2 DEF Attach
  <2>3. fresh.session = tickets[t].session
    OBVIOUS
  <2> HIDE DEF fresh
  <2>4. /\ DOMAIN conns' = DOMAIN conns \cup {c} /\ conns'[c] = fresh
        /\ \A e \in DOMAIN conns : e # c => conns'[e] = conns[e]
    BY <2>1 DEF With
  <2> QED
    BY <1>1, <1>2, <2>2, <2>3, <2>4 DEF Redeemable
<1>3. CASE ~(Redeemable(t) /\ c \notin DOMAIN log.redeemed)
  BY <1>1, <1>3 DEF Attach
<1> QED
  BY <1>2, <1>3

(* No other step makes a connection or gives one to another session.        *)
LEMMA OtherConnections ==
    ASSUME Shapes, [Next]_vars, ~\E c \in Conn, t \in 1 .. MaxIssued : Attach(c, t)
    PROVE  /\ DOMAIN conns' \subseteq DOMAIN conns
           /\ \A c \in DOMAIN conns' : conns'[c].session = conns[c].session
           /\ log'.redeemed = log.redeemed
<1> USE DEF core
<1> DEFINE Keeps == /\ DOMAIN conns' \subseteq DOMAIN conns
                    /\ \A c \in DOMAIN conns' : conns'[c].session = conns[c].session
<1>0. \A c \in DOMAIN conns : DOMAIN conns[c] = {"session", "queue", "must", "heard", "beat"}
  BY SMTT(60) DEF Shapes
<1>l. log'.redeemed = log.redeemed
  <2>1. DOMAIN log = {"redeemed", "enqueued", "due", "told"}
    BY DEF Shapes
  <2> QED
    BY <2>1 DEF Next, vars, Call, TakeJobs, RunJob, Open, Close, Ticket, Subscribe, Acquire, Release,
                Submit, JobsDone, Step, Pump, Served, TimePasses, Ack, Send, Detach
<1>1. ASSUME NEW S \in SUBSET DOMAIN conns, conns' = Restrict(conns, S) PROVE Keeps
  BY <1>1, RestrictIs
<1>2. CASE Close
  BY <1>1, <1>2 DEF Close
<1>3. CASE Step
  <2>1. conns' = [c \in DOMAIN conns |-> PushReceipts(c, ReceiptsFor(c))]
    BY <1>3 DEF Step
  <2>2. ASSUME NEW c \in DOMAIN conns, NEW fs PROVE PushReceipts(c, fs).session = conns[c].session
    BY <1>0 DEF PushReceipts
  <2>3. ASSUME NEW c \in DOMAIN conns PROVE conns'[c].session = conns[c].session
    <3>1. conns'[c] = PushReceipts(c, ReceiptsFor(c))
      BY <2>1
    <3> DEFINE fs == ReceiptsFor(c)
    <3>2. conns'[c] = PushReceipts(c, fs)
      BY <3>1
    <3> HIDE DEF fs
    <3> QED
      BY <2>2, <3>2
  <2>4. DOMAIN conns' = DOMAIN conns
    BY <2>1
  <2> QED
    BY <1>l, <2>3, <2>4
<1>4. CASE Pump
  <2>1. PICK frame \in [DOMAIN conns -> BOOLEAN] :
          conns' = [c \in DOMAIN conns |->
              [conns[c] EXCEPT
                  !.beat  = IF Beats(c, frame[c]) THEN tick - 1 ELSE @,
                  !.queue = IF Beats(c, frame[c]) /\ Fits(c, 1) THEN Append(@, Heartbeat) ELSE @,
                  !.must  = @ \/ Silent(c)]]
    BY <1>4 DEF Pump
  <2>2. DOMAIN conns' = DOMAIN conns
    BY <2>1
  <2>3. ASSUME NEW c \in DOMAIN conns PROVE conns'[c].session = conns[c].session
    BY <1>0, <2>1
  <2> QED
    BY <1>l, <2>2, <2>3, SMTT(60)
<1>5. ASSUME NEW c \in Conn, Ack(c) \/ Send(c) \/ Detach(c) PROVE Keeps
  <2>1. CASE Ack(c)
    BY <1>0, <2>1 DEF Ack
  <2>2. CASE Send(c)
    BY <1>0, <2>2 DEF Send
  <2>3. CASE Detach(c)
    BY <1>1, <2>3 DEF Detach
  <2> QED
    BY <1>5, <2>1, <2>2, <2>3
<1>6. \/ UNCHANGED conns \/ Close \/ Step \/ Pump \/ \E c \in Conn : Ack(c) \/ Send(c) \/ Detach(c)
  BY DEF Next, vars, Call, TakeJobs, RunJob, Open, Ticket, Subscribe, Acquire, Release, Submit,
         JobsDone, Served, TimePasses
<1> QED
  BY <1>l, <1>2, <1>3, <1>4, <1>5, <1>6

(* A ticket is an old one, or the next one, of a session that is known.     *)
LEMMA TicketsAfter ==
    ASSUME Shapes, [Next]_vars, NEW t \in DOMAIN tickets'
    PROVE  \/ t \in DOMAIN tickets /\ tickets'[t] = tickets[t]
           \/ t = issued + 1 /\ issued' = issued + 1 /\ Known(tickets[t].session)'
<1> USE DEF core
<1>1. ASSUME NEW S \in SUBSET DOMAIN tickets, tickets' = Restrict(tickets, S)
      PROVE  t \in DOMAIN tickets /\ tickets'[t] = tickets[t]
  BY <1>1, RestrictIs
<1>2. CASE Close
  BY <1>1, <1>2 DEF Close
<1>3. ASSUME NEW c \in Conn, NEW u \in 1 .. MaxIssued, Attach(c, u)
      PROVE  t \in DOMAIN tickets /\ tickets'[t] = tickets[t]
  BY <1>1, <1>3, Attaching
<1>4. ASSUME NEW s, IssueTo(s)
      PROVE  \/ t \in DOMAIN tickets /\ tickets'[t] = tickets[t]
             \/ t = issued + 1 /\ issued' = issued + 1 /\ tickets'[t].session = s
  <2> DEFINE fresh == [session |-> s, expires |-> now + TicketTtl]
  <2>1. tickets' = With(tickets, issued + 1, fresh) /\ issued' = issued + 1
    BY <1>4 DEF IssueTo
  <2>2. fresh.session = s
    OBVIOUS
  <2> HIDE DEF fresh
  <2> QED
    BY <2>1, <2>2 DEF With
<1>5. CASE Open
  <2>1. CASE UNCHANGED tickets
    BY <2>1
  <2>2. CASE IssueTo(opened + 1) /\ DOMAIN sessions' = DOMAIN sessions \cup {opened + 1}
    <3>1. \/ t \in DOMAIN tickets /\ tickets'[t] = tickets[t]
          \/ t = issued + 1 /\ issued' = issued + 1 /\ tickets'[t].session = opened + 1
      BY <1>4, <2>2
    <3> QED
      BY <2>2, <3>1 DEF Known
  <2> QED
    BY <1>5, <2>1, <2>2 DEF Open, With
<1>6. CASE Ticket
  <2>1. CASE UNCHANGED tickets
    BY <2>1
  <2>2. CASE Known(req.s) /\ IssueTo(req.s) /\ UNCHANGED sessions
    <3> DEFINE s == req.s
    <3>1. Known(s) /\ IssueTo(s)
      BY <2>2
    <3>2. s \in DOMAIN sessions'
      BY <2>2, SMTT(60) DEF Known
    <3> HIDE DEF s
    <3>3. \/ t \in DOMAIN tickets /\ tickets'[t] = tickets[t]
          \/ t = issued + 1 /\ issued' = issued + 1 /\ tickets'[t].session = s
      BY <1>4, <3>1, SMTT(60)
    <3> QED
      BY <3>2, <3>3 DEF Known
  <2> QED
    BY <1>6, <2>1, <2>2 DEF Ticket
<1>7. \/ UNCHANGED tickets \/ Close \/ Open \/ Ticket
      \/ \E c \in Conn, u \in 1 .. MaxIssued : Attach(c, u)
  BY DEF Next, vars, Call, TakeJobs, RunJob, Subscribe, Acquire, Release, Submit, JobsDone, Step,
         Pump, Served, TimePasses, Ack, Send, Detach
<1> QED
  BY <1>2, <1>3, <1>5, <1>6, <1>7

LEMMA ClosedStep == Shapes /\ NothingOutlivesClose /\ [Next]_vars => NothingOutlivesClose'
<1> SUFFICES ASSUME Shapes, NothingOutlivesClose, [Next]_vars PROVE NothingOutlivesClose'
  OBVIOUS
<1> USE DEF core
<1>0. /\ \A k \in Key : grants[k].owner # 0 => grants[k].owner \in DOMAIN sessions
      /\ \A t \in DOMAIN tickets : tickets[t].session \in DOMAIN sessions
      /\ \A c \in DOMAIN conns : conns[c].session \in DOMAIN sessions
      /\ \A k \in Key : grants[k].owner \in Nat
  BY DEF NothingOutlivesClose, Known, Shapes
<1>1. CASE Close /\ Known(req.s)
  <2> DEFINE s == req.s
  <2>1. /\ grants' = [k \in Key |-> IF grants[k].owner = s THEN NoGrant ELSE grants[k]]
        /\ sessions' = Restrict(sessions, DOMAIN sessions \ {s})
        /\ tickets' = Restrict(tickets, DOMAIN tickets \ TicketsOf(s))
        /\ conns' = Restrict(conns, DOMAIN conns \ ConnectionsOf(s))
    BY <1>1 DEF Close
  <2> HIDE DEF s
  <2>2. DOMAIN sessions' = DOMAIN sessions \ {s}
    BY <2>1, RestrictIs
  <2>3. \A k \in Key : grants'[k].owner # 0 => grants'[k].owner \in DOMAIN sessions'
    BY <1>0, <2>1, <2>2 DEF NoGrant
  <2>4. \A t \in DOMAIN tickets' : tickets'[t].session \in DOMAIN sessions'
    BY <1>0, <2>1, <2>2, RestrictIs DEF TicketsOf
  <2>5. \A c \in DOMAIN conns' : conns'[c].session \in DOMAIN sessions'
    BY <1>0, <2>1, <2>2, RestrictIs DEF ConnectionsOf
  <2> QED
    BY <2>3, <2>4, <2>5 DEF NothingOutlivesClose, Known
<1>2. CASE ~(Close /\ Known(req.s))
  <2>1. DOMAIN sessions \subseteq DOMAIN sessions'
    <3>1. CASE Open
      BY <3>1 DEF Open, With
    <3>2. CASE Submit
      BY <3>2 DEF Submit
    <3> QED
      BY <1>2, <3>1, <3>2 DEF Next, vars, Call, TakeJobs, RunJob, Close, Ticket, Subscribe, Acquire,
         Release, JobsDone, Step, Pump, Served, TimePasses, Ack, Send, Detach, Attach
  <2>2. ASSUME NEW k \in Key, grants'[k].owner # 0 PROVE grants'[k].owner \in DOMAIN sessions'
    <3>1. CASE Acquire
      <4>1. CASE Known(req.s)
        <5> DEFINE s == req.s
        <5>1. grants'[k] = grants[k] \/ grants'[k].owner = s
          <6>1. \/ UNCHANGED grants
                \/ grants' = [j \in Key |-> IF j \in Acquired(req.s, req.keys)
                                         THEN [owner |-> s, lease |-> req.lease] ELSE grants[j]]
            BY <3>1 DEF Acquire
          <6> HIDE DEF s
          <6> QED
            BY <6>1
        <5>2. s \in DOMAIN sessions
          BY <4>1 DEF Known
        <5> HIDE DEF s
        <5> QED
          BY <1>0, <2>1, <2>2, <5>1, <5>2
      <4>2. CASE ~Known(req.s)
        BY <1>0, <2>1, <2>2, <3>1, <4>2 DEF Acquire
      <4> QED
        BY <4>1, <4>2
    <3>2. CASE Release
      <4>1. grants'[k] = NoGrant \/ grants'[k] = grants[k]
        BY <3>2, SMTT(60) DEF Release
      <4> QED
        BY <1>0, <2>1, <2>2, <4>1 DEF NoGrant
    <3>3. UNCHANGED grants \/ Acquire \/ Release
      BY <1>2 DEF Next, vars, Call, TakeJobs, RunJob, Open, IssueTo, Close, Ticket, Subscribe, Submit,
         JobsDone, Step, Pump, Served, TimePasses, Ack, Send, Detach, Attach
    <3> QED
      BY <1>0, <2>1, <2>2, <3>1, <3>2, <3>3
  <2>3. ASSUME NEW t \in DOMAIN tickets' PROVE tickets'[t].session \in DOMAIN sessions'
    BY <1>0, <2>1, TicketsAfter DEF Known
  <2>4. ASSUME NEW c \in DOMAIN conns' PROVE conns'[c].session \in DOMAIN sessions'
    <3>1. ASSUME NEW d \in Conn, NEW t \in 1 .. MaxIssued, Attach(d, t)
          PROVE  conns'[c].session \in DOMAIN sessions'
      BY <1>0, <2>1, <3>1, Attaching DEF Known
    <3>2. CASE ~\E d \in Conn, t \in 1 .. MaxIssued : Attach(d, t)
      BY <1>0, <2>1, <3>2, OtherConnections
    <3> QED
      BY <3>1, <3>2
  <2> QED
    BY <2>2, <2>3, <2>4, SMTT(60) DEF NothingOutlivesClose, Known
<1> QED
  BY <1>1, <1>2

LEMMA SpentStep ==
    Shapes /\ TicketsSpent /\ TicketOpensOneStream /\ [Next]_vars
        => TicketsSpent' /\ TicketOpensOneStream'
<1> SUFFICES ASSUME Shapes, TicketsSpent, TicketOpensOneStream, [Next]_vars
             PROVE  TicketsSpent' /\ TicketOpensOneStream'
  OBVIOUS
<1> DEFINE R == log.redeemed
<1>0. /\ issued \in Nat /\ issued' \in Nat
      /\ \A t \in DOMAIN tickets : t \in 1 .. issued
      /\ DOMAIN conns \subseteq DOMAIN R
      /\ \A c \in DOMAIN R : R[c].ticket \in 1 .. issued /\ R[c].ticket \notin DOMAIN tickets
      /\ \A c, d \in DOMAIN R : R[c].ticket = R[d].ticket => c = d
      /\ \A c \in DOMAIN R : c \in DOMAIN conns => conns[c].session = R[c].session
  BY ShapesStep DEF Shapes, TicketsSpent, TicketOpensOneStream
<1>1. ASSUME NEW c \in Conn, NEW t \in 1 .. MaxIssued, Attach(c, t)
      PROVE  TicketsSpent' /\ TicketOpensOneStream'
  <2>1. /\ t \in DOMAIN tickets /\ DOMAIN tickets' = DOMAIN tickets \ {t} /\ issued' = issued
    <3>1. /\ t \in DOMAIN tickets /\ tickets' = Restrict(tickets, DOMAIN tickets \ {t})
          /\ issued' = issued
      BY <1>1, Attaching
    <3> QED
      BY <3>1 DEF Restrict
  <2>2. CASE UNCHANGED conns /\ log'.redeemed = R
    BY <1>0, <2>1, <2>2 DEF TicketsSpent, TicketOpensOneStream
  <2>3. CASE /\ c \notin DOMAIN R
             /\ DOMAIN conns' = DOMAIN conns \cup {c} /\ conns'[c].session = tickets[t].session
             /\ \A d \in DOMAIN conns : d # c => conns'[d] = conns[d]
             /\ log'.redeemed = With(R, c, [ticket |-> t, session |-> tickets[t].session])
    <3> DEFINE fresh == [ticket |-> t, session |-> tickets[t].session]
               Q == log'.redeemed
    <3>1. /\ DOMAIN Q = DOMAIN R \cup {c} /\ Q[c] = fresh
          /\ \A d \in DOMAIN R : Q[d] = R[d]
      BY <2>3 DEF With
    <3>2. fresh.ticket = t /\ fresh.session = tickets[t].session
      OBVIOUS
    <3> HIDE DEF fresh, R, Q
    <3>3. \A d \in DOMAIN Q : Q[d].ticket \in 1 .. issued /\ Q[d].ticket \notin DOMAIN tickets'
      BY <1>0, <2>1, <3>1, <3>2
    <3>4. \A d, e \in DOMAIN Q : Q[d].ticket = Q[e].ticket => d = e
      BY <1>0, <2>1, <3>1, <3>2
    <3>5. \A d \in DOMAIN Q : d \in DOMAIN conns' => conns'[d].session = Q[d].session
      <4> SUFFICES ASSUME NEW d \in DOMAIN Q, d \in DOMAIN conns'
                   PROVE  conns'[d].session = Q[d].session
        OBVIOUS
      <4>1. CASE d = c
        BY <2>3, <3>1, <3>2, <4>1
      <4>2. CASE d # c
        BY <1>0, <2>3, <3>1, <4>2
      <4> QED
        BY <4>1, <4>2
    <3>6. DOMAIN conns' \subseteq DOMAIN Q
      BY <1>0, <2>3, <3>1
    <3>7. DOMAIN tickets' \subseteq 1 .. issued'
      BY <1>0, <2>1
    <3> QED
      BY <2>1, <3>3, <3>4, <3>5, <3>6, <3>7 DEF Q, TicketsSpent, TicketOpensOneStream
  <2> QED
    BY <1>1, <2>2, <2>3, Attaching
<1>2. CASE ~\E c \in Conn, t \in 1 .. MaxIssued : Attach(c, t)
  <2>1. /\ DOMAIN conns' \subseteq DOMAIN conns
        /\ \A c \in DOMAIN conns' : conns'[c].session = conns[c].session
        /\ log'.redeemed = R
    BY <1>2, OtherConnections, SMTT(60)
  <2>2. issued' \in {issued, issued + 1}
    BY <1>2 DEF Next, vars, core, Call, TakeJobs, RunJob, Open, IssueTo, Close, Ticket, Subscribe,
           Acquire, Release, Submit, JobsDone, Step, Pump, Served, TimePasses, Ack, Send, Detach
  <2>3. ASSUME NEW t \in DOMAIN tickets' PROVE t \in DOMAIN tickets \/ (t = issued + 1 /\ issued' = issued + 1)
    BY TicketsAfter
  <2> HIDE DEF R
  <2>4. DOMAIN tickets' \subseteq 1 .. issued'
    <3> SUFFICES ASSUME NEW t \in DOMAIN tickets' PROVE t \in 1 .. issued'
      OBVIOUS
    <3>1. t \in 1 .. issued \/ t = issued'
      BY <1>0, <2>3
    <3> QED
      BY <1>0, <2>2, <2>3, <3>1
  <2>5. \A c \in DOMAIN R : R[c].ticket \in 1 .. issued' /\ R[c].ticket \notin DOMAIN tickets'
    <3> SUFFICES ASSUME NEW c \in DOMAIN R
                 PROVE  R[c].ticket \in 1 .. issued' /\ R[c].ticket \notin DOMAIN tickets'
      OBVIOUS
    <3>1. R[c].ticket \in 1 .. issued /\ R[c].ticket \notin DOMAIN tickets
      BY <1>0
    <3>2. R[c].ticket # issued + 1 /\ R[c].ticket \in 1 .. issued'
      BY <1>0, <2>2, <3>1
    <3> QED
      BY <2>3, <3>1, <3>2
  <2>6. \A c \in DOMAIN R : c \in DOMAIN conns' => conns'[c].session = R[c].session
    BY <1>0, <2>1
  <2>7. TicketsSpent'
    BY <1>0, <2>1, <2>4, <2>5 DEF TicketsSpent
  <2>8. TicketOpensOneStream'
    BY <1>0, <2>1, <2>6 DEF TicketOpensOneStream
  <2> QED
    BY <2>7, <2>8
<1> QED
  BY <1>1, <1>2

(* submit_command() enqueues under an ingress sequence and a client         *)
(* sequence that has no receipt yet, and writes the receipt.               *)
LEMMA EnqueuedStep ==
    Shapes /\ EnqueuedHasReceipt /\ EnqueuedOnce /\ [Next]_vars
        => EnqueuedHasReceipt' /\ EnqueuedOnce'
<1> SUFFICES ASSUME Shapes, EnqueuedHasReceipt, EnqueuedOnce, [Next]_vars
             PROVE  EnqueuedHasReceipt' /\ EnqueuedOnce'
  OBVIOUS
<1> USE DEF core
<1>0. DOMAIN log = {"redeemed", "enqueued", "due", "told"}
  BY DEF Shapes
<1>1. ASSUME DOMAIN receipts \subseteq DOMAIN receipts', log'.enqueued = log.enqueued
      PROVE  EnqueuedHasReceipt' /\ EnqueuedOnce'
  BY <1>1 DEF EnqueuedHasReceipt, EnqueuedOnce
<1>2. CASE Submit
  <2>1. CASE UNCHANGED <<receipts, log>>
    BY <1>1, <2>1
  <2> DEFINE s == req.s
             q == req.q
             new == [ingress |-> ingress + 1, s |-> s, q |-> q, at |-> now]
  <2>2. CASE /\ ~Answered(req.s, req.q)
             /\ receipts' = With(receipts, <<s, q>>, [ingress |-> ingress + 1, status |-> "accepted"])
             /\ log' = [log EXCEPT !.enqueued = @ \cup {new}]
    <3>1. log'.enqueued = log.enqueued \cup {new}
      BY <1>0, <2>2
    <3>2. DOMAIN receipts' = DOMAIN receipts \cup {<<s, q>>} /\ <<s, q>> \notin DOMAIN receipts
      BY <2>2 DEF With, Answered
    <3>3. new.s = s /\ new.q = q
      OBVIOUS
    <3> HIDE DEF new, s, q
    <3>4. EnqueuedHasReceipt'
      BY <3>1, <3>2, <3>3 DEF EnqueuedHasReceipt
    <3>5. \A x \in log.enqueued : ~(x.s = s /\ x.q = q)
      BY <3>2 DEF EnqueuedHasReceipt
    <3>6. EnqueuedOnce'
      BY <3>1, <3>3, <3>5 DEF EnqueuedOnce
    <3> QED
      BY <3>4, <3>6
  <2> QED
    BY <1>2, <2>1, <2>2 DEF Submit
<1>3. CASE Step
  BY <1>0, <1>1, <1>3 DEF Step
<1>4. CASE \E c \in Conn, t \in 1 .. MaxIssued : Attach(c, t)
  BY <1>1, <1>4, Attaching
<1>5. CASE \E c \in Conn : Send(c)
  BY <1>0, <1>1, <1>5 DEF Send
<1>6. CASE Pump
  BY <1>0, <1>1, <1>6 DEF Pump
<1>7. \/ UNCHANGED <<receipts, log>> \/ Submit \/ Step \/ Pump \/ \E c \in Conn : Send(c)
      \/ \E c \in Conn, t \in 1 .. MaxIssued : Attach(c, t)
  BY DEF Next, vars, Call, TakeJobs, RunJob, Open, Close, Ticket, Subscribe, Acquire, Release,
         JobsDone, Served, TimePasses, Ack, Detach
<1> QED
  BY <1>1, <1>2, <1>3, <1>4, <1>5, <1>6, <1>7

-----------------------------------------------------------------------------
(* Frames.                                                                 *)

(* A finite set of numbers can be listed in their order.                    *)
Listed(S) ==
    \E s \in [1 .. Cardinality(S) -> S] : \A i, j \in DOMAIN s : i < j => s[i] < s[j]

(* The least number first, then the others in their order.                  *)
LEMMA LeastFirst ==
    ASSUME NEW S \in SUBSET Nat, S # {}, IsFiniteSet(S), Listed(S \ {Min(S)})
    PROVE  Listed(S)
<1> DEFINE m == Min(S)
           n == Cardinality(S)
           T == S \ {m}
<1>1. m \in S /\ \A x \in S : m <= x
  BY MinIsLeast
<1>2. n \in Nat /\ n >= 1 /\ Cardinality(T) = n - 1
  <2>1. Cardinality(T) = n - 1
    BY <1>1, FS_RemoveElement
  <2>2. n \in Nat /\ n # 0
    BY FS_CardinalityType, FS_EmptySet
  <2> QED
    BY <2>1, <2>2
<1>3. PICK t \in [1 .. Cardinality(T) -> T] : \A i, j \in DOMAIN t : i < j => t[i] < t[j]
  BY DEF Listed
<1> HIDE DEF m, n
<1>4. t \in [1 .. n - 1 -> T]
  BY <1>2, <1>3
<1> DEFINE s == [i \in 1 .. n |-> IF i = 1 THEN m ELSE t[i - 1]]
<1>5. s \in [1 .. n -> S]
  <2> SUFFICES ASSUME NEW i \in 1 .. n PROVE s[i] \in S
    OBVIOUS
  <2>1. i # 1 => i - 1 \in 1 .. n - 1
    BY <1>2
  <2> QED
    BY <1>1, <1>4, <2>1
<1>6. ASSUME NEW i \in 1 .. n, NEW j \in 1 .. n, i < j PROVE s[i] < s[j]
  <2>1. j - 1 \in 1 .. n - 1 /\ j # 1 /\ s[j] = t[j - 1]
    BY <1>2, <1>6
  <2>2. t[j - 1] \in T
    BY <1>4, <2>1
  <2>3. CASE i = 1
    <3>1. s[i] = m /\ t[j - 1] \in S /\ t[j - 1] # m
      BY <1>2, <2>2, <2>3
    <3>2. m \in Nat /\ t[j - 1] \in Nat /\ m <= t[j - 1]
      BY <1>1, <3>1
    <3>3. m < t[j - 1]
      BY <3>1, <3>2
    <3> QED
      BY <2>1, <3>1, <3>3
  <2>4. CASE i # 1
    <3>1. i - 1 \in 1 .. n - 1 /\ i - 1 < j - 1 /\ s[i] = t[i - 1]
      BY <1>2, <1>6, <2>4
    <3>2. DOMAIN t = 1 .. n - 1
      BY <1>4
    <3>3. t[i - 1] < t[j - 1]
      BY <1>3, <2>1, <3>1, <3>2
    <3> QED
      BY <2>1, <3>1, <3>3
  <2> QED
    BY <2>3, <2>4
<1>7. s \in [1 .. Cardinality(S) -> S] /\ DOMAIN s = 1 .. n
  BY <1>5 DEF n
<1> HIDE DEF s
<1> QED
  BY <1>6, <1>7 DEF Listed

LEMMA FiniteIsListed ==
    ASSUME NEW S \in SUBSET Nat, IsFiniteSet(S)
    PROVE  Listed(S)
<1> DEFINE Unlisted(n) == \E T \in SUBSET Nat : IsFiniteSet(T) /\ Cardinality(T) = n /\ ~Listed(T)
           Bad == {n \in Nat : Unlisted(n)}
<1>1. SUFFICES ASSUME Bad # {} PROVE FALSE
  BY FS_CardinalityType
<1>2. Min(Bad) \in Bad /\ \A n \in Bad : Min(Bad) <= n
  <2>1. Bad \in SUBSET Nat
    OBVIOUS
  <2> HIDE DEF Bad
  <2> QED
    BY <1>1, <2>1, MinIsLeast
<1> DEFINE least == Min(Bad)
<1> HIDE DEF least
<1>3. PICK T \in SUBSET Nat : IsFiniteSet(T) /\ Cardinality(T) = least /\ ~Listed(T)
  BY <1>2 DEF least
<1>4. CASE T = {}
  <2> DEFINE e == [i \in 1 .. 0 |-> 0]
  <2>1. Cardinality(T) = 0 /\ e \in [1 .. 0 -> T] /\ \A i, j \in DOMAIN e : i < j => e[i] < e[j]
    BY <1>4, FS_EmptySet
  <2> HIDE DEF e
  <2> QED
    BY <1>3, <2>1 DEF Listed
<1>5. CASE T # {}
  <2> DEFINE U == T \ {Min(T)}
  <2>1. Min(T) \in T
    BY <1>5, MinIsLeast
  <2>2. IsFiniteSet(U) /\ Cardinality(U) = least - 1 /\ U \in SUBSET Nat
    BY <1>3, <2>1, FS_RemoveElement
  <2>3. ~Listed(U)
    BY <1>3, <1>5, LeastFirst
  <2>4. Cardinality(U) \in Nat
    BY <2>2, FS_CardinalityType
  <2> HIDE DEF U
  <2>5. least - 1 \in Bad
    BY <2>2, <2>3, <2>4
  <2>6. least - 1 >= least
    BY <1>2, <2>5 DEF least
  <2>7. least \in Nat
    BY <1>2 DEF least
  <2> QED
    BY <2>6, <2>7
<1> QED
  BY <1>4, <1>5

LEMMA InOrderIsSeq ==
    ASSUME NEW S \in SUBSET Nat, IsFiniteSet(S)
    PROVE  InOrder(S) \in Seq(Nat)
<1>1. Listed(S)
  BY FiniteIsListed
<1>2. InOrder(S) \in [1 .. Cardinality(S) -> S]
  BY <1>1 DEF Listed, InOrder
<1>3. Cardinality(S) \in Nat
  BY FS_CardinalityType
<1> DEFINE n == Cardinality(S)
           s == InOrder(S)
<1> HIDE DEF n, s
<1>4. n \in Nat /\ s \in [1 .. n -> Nat]
  BY <1>2, <1>3 DEF n, s
<1>5. s \in Seq(Nat)
  BY <1>4
<1> QED
  BY <1>5 DEF s

(* ReliableQueue::push(): a queue with room for all of the frames gets all  *)
(* of them, another one condemns its connection.                           *)
LEMMA PushedOrCondemned ==
    ASSUME NEW c \in DOMAIN conns, NEW frames \in Seq(Nat),
           DOMAIN conns[c] = {"session", "queue", "must", "heard", "beat"},
           conns[c].must \in BOOLEAN, MaxReliable \in Nat,
           ~conns[c].must => conns[c].queue \in Seq(Nat)
    PROVE  /\ PushReceipts(c, frames).must \in BOOLEAN
           /\ ~PushReceipts(c, frames).must
                => ~conns[c].must /\ PushReceipts(c, frames).queue = conns[c].queue \o frames
<1> DEFINE P == PushReceipts(c, frames)
           q == conns[c].queue
           room == MaxReliable - Len(q)
           some == SubSeq(frames, 1, Min({room, Len(frames)}))
<1>1. P.must = (conns[c].must \/ ~Fits(c, Len(frames))) /\ P.queue = q \o some
  BY DEF PushReceipts
<1>2. ASSUME ~conns[c].must, Fits(c, Len(frames)) PROVE some = frames
  <2> DEFINE n == Len(frames)
             r == room
  <2>1. n \in Nat /\ Len(q) \in Nat /\ r \in Int /\ n <= r
    BY <1>2 DEF Fits
  <2>2. Min({r, n}) = n
    <3> HIDE DEF n, r
    <3> QED
      BY <2>1 DEF Min
  <2>3. some = SubSeq(frames, 1, Len(frames))
    BY <2>2
  <2> QED
    BY <2>3, SubSeqFull
<1> HIDE DEF P, q, some
<1>3. P.must \in BOOLEAN
  BY <1>1
<1>4. ~P.must => ~conns[c].must /\ Fits(c, Len(frames))
  BY <1>1
<1> QED
  BY <1>1, <1>2, <1>3, <1>4 DEF P, q

LEMMA ReceiptsAreSeq ==
    ASSUME StreamsWhole, NEW c
    PROVE  ReceiptsFor(c) \in Seq(Nat)
<1> DEFINE S == {a.ingress : a \in {b \in Applied : SessionOf(b.ingress) = conns[c].session}}
           All == {a.ingress : a \in buffer}
<1>1. S \subseteq All
  BY DEF Applied
<1>2. All \subseteq Nat /\ IsFiniteSet(All)
  BY DEF StreamsWhole
<1> HIDE DEF S, All
<1>3. S \in SUBSET Nat /\ IsFiniteSet(S)
  BY <1>1, <1>2, FS_Subset
<1>4. InOrder(S) \in Seq(Nat)
  BY <1>3, InOrderIsSeq
<1> QED
  BY <1>4 DEF S, ReceiptsFor

(* One stream: what StreamsWhole says of it.                                *)
Whole(c) ==
    /\ conns[c].must \in BOOLEAN
    /\ ~conns[c].must => /\ log.told[c] \in Seq(Nat) /\ conns[c].queue \in Seq(Nat)
                        /\ log.due[c] = log.told[c] \o conns[c].queue

(* The commands that wait are finitely many, their ingress sequences        *)
(* numbers.                                                                *)
LEMMA BufferStep ==
    ASSUME StreamsWhole, [Next]_vars
    PROVE  /\ ingress' \in Nat
           /\ {a.ingress : a \in buffer'} \subseteq Nat /\ IsFiniteSet({a.ingress : a \in buffer'})
<1> USE DEF core
<1> DEFINE All == {a.ingress : a \in buffer}
           New == {a.ingress : a \in buffer'}
<1>1. ingress \in Nat /\ All \subseteq Nat /\ IsFiniteSet(All)
  BY DEF StreamsWhole
<1>2. CASE Submit /\ ingress' # ingress
  <2>1. PICK new \in {[ingress |-> ingress + 1, at |-> Target(req.hint)]} :
          buffer' = buffer \cup {new} /\ ingress' = ingress + 1
    BY <1>2 DEF Submit
  <2>2. New = All \cup {ingress + 1}
    BY <2>1
  <2> HIDE DEF New, All
  <2>3. IsFiniteSet(New)
    BY <1>1, <2>2, FS_AddElement
  <2>4. New \subseteq Nat
    BY <1>1, <2>2
  <2> QED
    BY <1>1, <2>1, <2>3, <2>4 DEF New
<1>3. CASE Step
  <2>1. New \subseteq All /\ ingress' = ingress
    BY <1>3 DEF Step, Deferred
  <2> HIDE DEF New, All
  <2>2. IsFiniteSet(New)
    BY <1>1, <2>1, FS_Subset
  <2> QED
    BY <1>1, <2>1, <2>2 DEF New
<1>4. CASE UNCHANGED <<ingress, buffer>>
  BY <1>1, <1>4
<1>5. UNCHANGED <<ingress, buffer>> \/ Step \/ (Submit /\ ingress' # ingress)
  <2>1. CASE Submit
    <3>1. UNCHANGED <<ingress, buffer>> \/ ingress' = ingress + 1
      BY <2>1 DEF Submit
    <3> QED
      BY <1>1, <2>1, <3>1
  <2> QED
    BY <2>1 DEF Next, vars, Call, TakeJobs, RunJob, Open, Close, Ticket, Subscribe, Acquire, Release,
         JobsDone, Pump, Served, TimePasses, Ack, Send, Detach, Attach
<1> QED
  BY <1>2, <1>3, <1>4, <1>5

(* Every stream has its history.                                            *)
LEMMA HistoryStep ==
    ASSUME Shapes, StreamsWhole, [Next]_vars
    PROVE  DOMAIN log'.redeemed \subseteq DOMAIN log'.due \cap DOMAIN log'.told
<1> USE DEF core
<1>0. /\ DOMAIN log = {"redeemed", "enqueued", "due", "told"}
      /\ DOMAIN log.redeemed \subseteq DOMAIN log.due \cap DOMAIN log.told
  BY DEF Shapes, StreamsWhole
<1>1. CASE \E c \in Conn, t \in 1 .. MaxIssued : Attach(c, t)
  <2>1. PICK c \in Conn, t \in 1 .. MaxIssued : Attach(c, t)
    BY <1>1
  <2>2. CASE Redeemable(t) /\ c \notin DOMAIN log.redeemed
    <3> DEFINE fresh == [ticket |-> t, session |-> tickets[t].session]
    <3>1. log' = [log EXCEPT !.redeemed = With(@, c, fresh), !.due = With(@, c, <<>>),
                             !.told = With(@, c, <<>>)]
      BY <2>1, <2>2 DEF Attach
    <3> HIDE DEF fresh
    <3>2. /\ log'.redeemed = With(log.redeemed, c, fresh)
          /\ log'.due = With(log.due, c, <<>>) /\ log'.told = With(log.told, c, <<>>)
      BY <1>0, <3>1
    <3> QED
      BY <1>0, <3>2 DEF With
  <2> QED
    BY <1>0, <2>1, <2>2 DEF Attach
<1>2. CASE \E c \in Conn : Send(c)
  <2>1. PICK c \in Conn : Send(c)
    BY <1>2
  <2> DEFINE more == Append(log.told[c], Head(conns[c].queue))
  <2>2. log' = [log EXCEPT !.told[c] = more]
    BY <2>1 DEF Send
  <2> HIDE DEF more
  <2> QED
    BY <1>0, <2>2
<1>3. CASE Step \/ Pump
  BY <1>0, <1>3 DEF Step, Pump
<1>4. CASE Submit
  BY <1>0, <1>4 DEF Submit
<1>5. \/ UNCHANGED log \/ Submit \/ Step \/ Pump \/ \E c \in Conn : Send(c)
      \/ \E c \in Conn, t \in 1 .. MaxIssued : Attach(c, t)
  BY DEF Next, vars, Call, TakeJobs, RunJob, Open, Close, Ticket, Subscribe, Acquire, Release,
         JobsDone, Served, TimePasses, Ack, Detach
<1> QED
  BY <1>0, <1>1, <1>2, <1>3, <1>4, <1>5

(* on_commands_applied() pushes a step's receipts to all streams.           *)
LEMMA WholeAfterStep ==
    ASSUME Shapes, TicketsSpent, StreamsWhole, Step, NEW c \in DOMAIN conns
    PROVE  Whole(c)'
<1> DEFINE fs == ReceiptsFor(c)
<1>1. fs \in Seq(Nat) /\ MaxReliable \in Nat /\ Whole(c)
  BY ReceiptsAreSeq, SessionConstants DEF StreamsWhole, Whole
<1>2. c \in DOMAIN log.due /\ DOMAIN log = {"redeemed", "enqueued", "due", "told"}
      /\ DOMAIN conns[c] = {"session", "queue", "must", "heard", "beat"}
  BY DEF Shapes, TicketsSpent, StreamsWhole
<1>3. conns'[c] = PushReceipts(c, fs)
  BY DEF Step
<1>4. log'.due[c] = log.due[c] \o fs /\ log'.told = log.told
  BY <1>2 DEF Step
<1> HIDE DEF fs
<1>5. /\ conns'[c].must \in BOOLEAN
      /\ ~conns'[c].must => ~conns[c].must /\ conns'[c].queue = conns[c].queue \o fs
  BY <1>1, <1>2, <1>3, PushedOrCondemned, SMTT(60) DEF Whole
<1>6. ASSUME ~conns'[c].must
      PROVE  /\ conns'[c].queue \in Seq(Nat) /\ log.told[c] \in Seq(Nat)
             /\ log.due[c] \o fs = log.told[c] \o conns'[c].queue
  <2> DEFINE told == log.told[c]
             q == conns[c].queue
  <2>1. told \in Seq(Nat) /\ q \in Seq(Nat) /\ log.due[c] = told \o q /\ conns'[c].queue = q \o fs
    BY <1>1, <1>5, <1>6 DEF Whole
  <2> HIDE DEF told, q
  <2>2. (told \o q) \o fs = told \o (q \o fs)
    BY <1>1, <2>1, ConcatAssociative, SMTT(60)
  <2>3. q \o fs \in Seq(Nat)
    BY <1>1, <2>1, ConcatProperties
  <2> QED
    BY <2>1, <2>2, <2>3 DEF told
<1> QED
  BY <1>4, <1>5, <1>6 DEF Whole

(* pump() queues a heartbeat where there is room for it.                    *)
LEMMA WholeAfterPump ==
    ASSUME Shapes, TicketsSpent, StreamsWhole, Pump, NEW c \in DOMAIN conns
    PROVE  Whole(c)'
<1>1. /\ c \in DOMAIN log.due /\ DOMAIN log = {"redeemed", "enqueued", "due", "told"}
      /\ DOMAIN conns[c] = {"session", "queue", "must", "heard", "beat"} /\ Whole(c)
  BY DEF Shapes, TicketsSpent, StreamsWhole, Whole
<1>2. \/ conns'[c].queue = conns[c].queue /\ log'.due[c] = log.due[c]
      \/ /\ conns'[c].queue = Append(conns[c].queue, Heartbeat)
         /\ log'.due[c] = Append(log.due[c], Heartbeat)
  <2>0. PICK frame \in [DOMAIN conns -> BOOLEAN] :
          /\ conns' = [d \in DOMAIN conns |->
              [conns[d] EXCEPT
                  !.beat  = IF Beats(d, frame[d]) THEN tick - 1 ELSE @,
                  !.queue = IF Beats(d, frame[d]) /\ Fits(d, 1) THEN Append(@, Heartbeat) ELSE @,
                  !.must  = @ \/ Silent(d)]]
          /\ log' = [log EXCEPT !.due = [d \in DOMAIN log.due |->
                 IF d \in DOMAIN conns /\ Beats(d, frame[d]) /\ Fits(d, 1)
                 THEN Append(log.due[d], Heartbeat) ELSE log.due[d]]]
    BY Zenon DEF Pump
  <2>1. /\ conns'[c] = [conns[c] EXCEPT
                  !.beat  = IF Beats(c, frame[c]) THEN tick - 1 ELSE @,
                  !.queue = IF Beats(c, frame[c]) /\ Fits(c, 1) THEN Append(@, Heartbeat) ELSE @,
                  !.must  = @ \/ Silent(c)]
        /\ log'.due[c] = IF Beats(c, frame[c]) /\ Fits(c, 1)
                         THEN Append(log.due[c], Heartbeat) ELSE log.due[c]
    BY <1>1, <2>0
  <2>2. CASE Beats(c, frame[c]) /\ Fits(c, 1)
    BY <1>1, <2>1, <2>2
  <2>3. CASE ~(Beats(c, frame[c]) /\ Fits(c, 1))
    BY <1>1, <2>1, <2>3
  <2> QED
    BY <2>2, <2>3
<1>3. conns'[c].must = (conns[c].must \/ Silent(c)) /\ log'.told = log.told
  <2>1. PICK frame \in [DOMAIN conns -> BOOLEAN] :
          /\ conns' = [d \in DOMAIN conns |->
              [conns[d] EXCEPT
                  !.beat  = IF Beats(d, frame[d]) THEN tick - 1 ELSE @,
                  !.queue = IF Beats(d, frame[d]) /\ Fits(d, 1) THEN Append(@, Heartbeat) ELSE @,
                  !.must  = @ \/ Silent(d)]]
          /\ log' = [log EXCEPT !.due = [d \in DOMAIN log.due |->
                 IF d \in DOMAIN conns /\ Beats(d, frame[d]) /\ Fits(d, 1)
                 THEN Append(log.due[d], Heartbeat) ELSE log.due[d]]]
    BY Zenon DEF Pump
  <2>2. log'.told = log.told
    BY <1>1, <2>1
  <2>3. conns'[c] = [conns[c] EXCEPT
                  !.beat  = IF Beats(c, frame[c]) THEN tick - 1 ELSE @,
                  !.queue = IF Beats(c, frame[c]) /\ Fits(c, 1) THEN Append(@, Heartbeat) ELSE @,
                  !.must  = @ \/ Silent(c)]
    BY <1>1, <2>1
  <2> QED
    BY <1>1, <2>2, <2>3
<1>4. conns'[c].must \in BOOLEAN /\ (~conns'[c].must => ~conns[c].must)
  BY <1>3
<1>5. ASSUME ~conns'[c].must
      PROVE  /\ conns'[c].queue \in Seq(Nat) /\ log.told[c] \in Seq(Nat)
             /\ log'.due[c] = log.told[c] \o conns'[c].queue
  <2> DEFINE told == log.told[c]
             q == conns[c].queue
  <2>1. told \in Seq(Nat) /\ q \in Seq(Nat) /\ log.due[c] = told \o q
    BY <1>1, <1>4, <1>5 DEF Whole
  <2> HIDE DEF told, q
  <2>2. Append(told \o q, Heartbeat) = told \o Append(q, Heartbeat) /\ Append(q, Heartbeat) \in Seq(Nat)
    <3> DEFINE beat == <<Heartbeat>>
    <3>1. beat \in Seq(Nat) /\ Heartbeat \in Nat
      BY DEF Heartbeat
    <3>2. told \o q \in Seq(Nat)
      BY <2>1, ConcatProperties
    <3>3. Append(told \o q, Heartbeat) = (told \o q) \o beat
      BY <3>1, <3>2, AppendIsConcat
    <3>4. Append(q, Heartbeat) = q \o beat /\ Append(q, Heartbeat) \in Seq(Nat)
      BY <2>1, <3>1, AppendIsConcat, AppendProperties
    <3> HIDE DEF beat
    <3>5. (told \o q) \o beat = told \o (q \o beat)
      BY <2>1, <3>1, SMTT(60)
    <3> QED
      BY <3>3, <3>4, <3>5
  <2> QED
    BY <1>2, <2>1, <2>2 DEF told, q
<1> QED
  BY <1>3, <1>4, <1>5 DEF Whole

(* next_outbound() sends the frame that was queued first.                   *)
LEMMA WholeAfterSend ==
    ASSUME Shapes, TicketsSpent, StreamsWhole, NEW d \in Conn, Send(d), NEW c \in DOMAIN conns
    PROVE  Whole(c)'
<1>1. /\ c \in DOMAIN log.told /\ DOMAIN log = {"redeemed", "enqueued", "due", "told"}
      /\ DOMAIN conns[c] = {"session", "queue", "must", "heard", "beat"} /\ Whole(c)
  BY DEF Shapes, TicketsSpent, StreamsWhole, Whole
<1>2. log'.due = log.due
  BY <1>1 DEF Send
<1>3. CASE c # d
  <2>1. conns'[c] = conns[c] /\ log'.told[c] = log.told[c]
    BY <1>1, <1>3 DEF Send
  <2> QED
    BY <1>1, <1>2, <2>1 DEF Whole
<1>4. CASE c = d
  <2> DEFINE told == log.told[c]
             q == conns[c].queue
  <2>1. told \in Seq(Nat) /\ q \in Seq(Nat) /\ log.due[c] = told \o q /\ q # <<>> /\ ~conns[c].must
    BY <1>1, <1>4 DEF Whole, Send
  <2>2. conns'[c].queue = Tail(q) /\ conns'[c].must = conns[c].must
    BY <1>1, <1>4 DEF Send
  <2>3. log'.told[c] = Append(told, Head(q))
    BY <1>1, <1>4 DEF Send
  <2> HIDE DEF told, q
  <2>4. Head(q) \in Nat /\ Tail(q) \in Seq(Nat) /\ Append(told, Head(q)) \in Seq(Nat)
    BY <2>1
  <2>5. Append(told, Head(q)) \o Tail(q) = told \o q
    <3>1. q = <<Head(q)>> \o Tail(q)
      BY <2>1
    <3> DEFINE first == <<Head(q)>>
               rest == Tail(q)
    <3>2. first \in Seq(Nat) /\ Append(told, Head(q)) = told \o first
      BY <2>1, <2>4, AppendIsConcat
    <3>3. rest \in Seq(Nat) /\ q = first \o rest
      BY <2>4, <3>1
    <3> HIDE DEF first, rest
    <3>4. (told \o first) \o rest = told \o (first \o rest)
      BY <2>1, <3>2, <3>3, SMTT(60)
    <3> QED
      BY <3>2, <3>3, <3>4 DEF rest
  <2> QED
    BY <1>1, <1>2, <2>1, <2>2, <2>3, <2>4, <2>5 DEF Whole
<1> QED
  BY <1>3, <1>4

(* attach_stream() makes a stream with an empty queue and an empty history. *)
LEMMA WholeAfterAttach ==
    ASSUME Shapes, TicketsSpent, StreamsWhole, NEW d \in Conn, NEW t \in 1 .. MaxIssued, Attach(d, t),
           NEW c \in DOMAIN conns'
    PROVE  Whole(c)'
<1>1. DOMAIN log = {"redeemed", "enqueued", "due", "told"} /\ \A e \in DOMAIN conns : Whole(e)
      /\ DOMAIN conns \subseteq DOMAIN log.redeemed
      /\ DOMAIN log.redeemed \subseteq DOMAIN log.due \cap DOMAIN log.told
  BY DEF Shapes, TicketsSpent, StreamsWhole, Whole
<1>2. CASE Redeemable(t) /\ d \notin DOMAIN log.redeemed
  <2> DEFINE fresh == [session |-> tickets[t].session, queue |-> <<>>, must |-> FALSE,
                       heard |-> tick - 1, beat |-> 0]
             made == [ticket |-> t, session |-> tickets[t].session]
  <2>1. conns' = With(conns, d, fresh)
    BY <1>2 DEF Attach
  <2>2. log' = [log EXCEPT !.redeemed = With(@, d, made), !.due = With(@, d, <<>>),
                           !.told = With(@, d, <<>>)]
    BY <1>2 DEF Attach
  <2> HIDE DEF made
  <2>3. log'.due = With(log.due, d, <<>>) /\ log'.told = With(log.told, d, <<>>)
    BY <1>1, <2>2
  <2>4. fresh.queue = <<>> /\ fresh.must = FALSE
    OBVIOUS
  <2> HIDE DEF fresh
  <2>5. CASE c = d
    <3>1. conns'[c] = fresh /\ log'.due[c] = <<>> /\ log'.told[c] = <<>>
      BY <2>1, <2>3, <2>5 DEF With
    <3>2. <<>> \in Seq(Nat) /\ <<>> = <<>> \o <<>>
      BY ConcatEmptySeq
    <3> QED
      BY <2>4, <3>1, <3>2 DEF Whole
  <2>6. CASE c # d
    <3>1. c \in DOMAIN conns /\ conns'[c] = conns[c]
      BY <2>1, <2>6 DEF With
    <3>2. c \in DOMAIN log.due /\ c \in DOMAIN log.told
      BY <1>1, <3>1
    <3>3. log'.due[c] = log.due[c] /\ log'.told[c] = log.told[c]
      BY <2>3, <2>6, <3>2 DEF With
    <3> QED
      BY <1>1, <3>1, <3>3 DEF Whole
  <2> QED
    BY <2>5, <2>6
<1>3. CASE ~(Redeemable(t) /\ d \notin DOMAIN log.redeemed)
  <2>1. conns' = conns /\ log' = log
    BY <1>3 DEF Attach
  <2> QED
    BY <1>1, <2>1 DEF Whole
<1> QED
  BY <1>2, <1>3

LEMMA StreamsStep ==
    Shapes /\ TicketsSpent /\ StreamsWhole /\ [Next]_vars => StreamsWhole'
<1> SUFFICES ASSUME Shapes, TicketsSpent, StreamsWhole, [Next]_vars PROVE StreamsWhole'
  OBVIOUS
<1> USE DEF core
<1>0. /\ DOMAIN log = {"redeemed", "enqueued", "due", "told"}
      /\ \A c \in DOMAIN conns : DOMAIN conns[c] = {"session", "queue", "must", "heard", "beat"}
      /\ \A c \in DOMAIN conns : Whole(c)
  BY DEF Shapes, StreamsWhole, Whole
<1>1. SUFFICES ASSUME NEW c \in DOMAIN conns' PROVE Whole(c)'
  BY BufferStep, HistoryStep DEF StreamsWhole, Whole
<1>2. ASSUME NEW S \in SUBSET DOMAIN conns, conns' = Restrict(conns, S), UNCHANGED log
      PROVE  Whole(c)'
  <2>1. c \in DOMAIN conns /\ conns'[c] = conns[c]
    BY <1>2, RestrictIs
  <2> QED
    BY <1>0, <1>2, <2>1 DEF Whole
<1>3. ASSUME conns' = conns, log'.due = log.due, log'.told = log.told PROVE Whole(c)'
  BY <1>0, <1>3 DEF Whole
<1>4. CASE Submit
  BY <1>0, <1>3, <1>4 DEF Submit
<1>5. CASE Close
  <2>1. CASE UNCHANGED <<conns, log>>
    BY <1>3, <2>1
  <2>2. CASE conns' = Restrict(conns, DOMAIN conns \ ConnectionsOf(req.s)) /\ UNCHANGED log
    BY <1>2, <2>2
  <2> QED
    BY <1>5, <2>1, <2>2 DEF Close
<1>6. CASE Step
  BY <1>6, WholeAfterStep, SMTT(60) DEF Step
<1>7. CASE Pump
  BY <1>7, WholeAfterPump DEF Pump
<1>8. ASSUME NEW d \in Conn, Ack(d) PROVE Whole(c)'
  <2>1. c \in DOMAIN conns /\ UNCHANGED log
    BY <1>8 DEF Ack
  <2>2. conns'[c].queue = conns[c].queue /\ (conns'[c].must = conns[c].must \/ conns'[c].must = TRUE)
    BY <1>0, <1>8, <2>1 DEF Ack
  <2> QED
    BY <1>0, <2>1, <2>2 DEF Whole
<1>9. ASSUME NEW d \in Conn, Send(d) PROVE Whole(c)'
  BY <1>9, WholeAfterSend DEF Send
<1>10. ASSUME NEW d \in Conn, Detach(d) PROVE Whole(c)'
  BY <1>2, <1>10 DEF Detach
<1>11. ASSUME NEW d \in Conn, NEW t \in 1 .. MaxIssued, Attach(d, t) PROVE Whole(c)'
  BY <1>11, WholeAfterAttach
<1>12. \/ UNCHANGED <<conns, log>> \/ Submit \/ Close \/ Step \/ Pump
       \/ \E d \in Conn : Ack(d) \/ Send(d) \/ Detach(d) \/ \E t \in 1 .. MaxIssued : Attach(d, t)
  BY DEF Next, vars, Call, TakeJobs, RunJob, Open, Ticket, Subscribe, Acquire, Release, JobsDone,
         Served, TimePasses
<1> QED
  BY <1>3, <1>4, <1>5, <1>6, <1>7, <1>8, <1>9, <1>10, <1>11, <1>12

LEMMA InitSessions == Init => SessionInv
<1> SUFFICES ASSUME Init PROVE SessionInv
  OBVIOUS
<1>1. Shapes
  <2>1. <<>> \in Seq([by : Caller, req : Requests])
    OBVIOUS
  <2>2. grants \in [Key -> [owner : Nat, lease : Nat]]
    BY DEF Init, NoGrant
  <2>3. DOMAIN conns = {} /\ DOMAIN log = {"redeemed", "enqueued", "due", "told"}
    BY DEF Init
  <2> QED
    BY <2>1, <2>2, <2>3 DEF Init, Shapes
<1>2. NothingOutlivesClose
  BY DEF Init, NoGrant, NothingOutlivesClose
<1>3. TicketsSpent /\ TicketOpensOneStream
  BY DEF Init, TicketsSpent, TicketOpensOneStream
<1>4. EnqueuedHasReceipt /\ EnqueuedOnce
  BY DEF Init, EnqueuedHasReceipt, EnqueuedOnce
<1>5. StreamsWhole
  <2>1. {a.ingress : a \in buffer} = {} /\ IsFiniteSet({})
    BY FS_EmptySet DEF Init
  <2>2. DOMAIN conns = {} /\ DOMAIN log.redeemed = {}
    BY DEF Init
  <2> QED
    BY <2>1, <2>2 DEF Init, StreamsWhole
<1> QED
  BY <1>1, <1>2, <1>3, <1>4, <1>5 DEF SessionInv

(* What is always true of sessions, tickets, streams, leases and receipts.  *)
THEOREM SessionInvariant == Spec => []SessionInv
<1>1. SessionInv /\ [Next]_vars => SessionInv'
  BY ShapesStep, ClosedStep, SpentStep, EnqueuedStep, StreamsStep DEF SessionInv
<1> QED
  BY InitSessions, <1>1, PTL DEF Spec

(* close_session() leaves no lease, ticket or stream that acts for the      *)
(* session, however its calls and streams were interleaved.                *)
THEOREM ClosingLeavesNothing == Spec => []NothingOutlivesClose
<1>1. SessionInv => NothingOutlivesClose
  BY DEF SessionInv
<1> QED
  BY <1>1, SessionInvariant, PTL

(* A ticket opens one stream at most, its session's (redeem_ticket).        *)
THEOREM TicketsOpenOneStream == Spec => []TicketOpensOneStream
<1>1. SessionInv => TicketOpensOneStream
  BY DEF SessionInv
<1> QED
  BY <1>1, SessionInvariant, PTL

(* submit_command() never enqueues a client sequence of a session twice.    *)
THEOREM RetriesAreNotEnqueued == Spec => []EnqueuedOnce
<1>1. SessionInv => EnqueuedOnce
  BY DEF SessionInv
<1> QED
  BY <1>1, SessionInvariant, PTL

(* on_commands_applied(), pump() and next_outbound(): the receipts a stream *)
(* is due are sent or queued, in order, or the stream is condemned.        *)
THEOREM ReceiptsArrive == Spec => []ReceiptsReachStreams
<1>1. SessionInv => ReceiptsReachStreams
  BY DEF SessionInv, StreamsWhole, ReceiptsReachStreams
<1> QED
  BY <1>1, SessionInvariant, PTL

(* A lease that has not ended is only lost by its owner's own release or    *)
(* by the end of its session (OwnershipRegistry::acquire, release).        *)
THEOREM LeasesStand == Spec => GrantsStand
<1> DEFINE Stand == \A k \in Key : grants[k].owner # 0 /\ grants[k].lease > tick
                                     /\ grants'[k].owner # grants[k].owner
                      => (Runs("release") \/ Runs("close")) /\ req.s = grants[k].owner
<1>1. SessionInv /\ [Next]_vars => Stand
  <2> SUFFICES ASSUME Shapes, [Next]_vars, NEW k \in Key, grants[k].owner # 0, grants[k].lease > tick,
                      grants'[k].owner # grants[k].owner
               PROVE  (Runs("release") \/ Runs("close")) /\ req.s = grants[k].owner
    BY DEF SessionInv
  <2>1. CASE Release
    <3>1. Runs("release") /\ grants' = [j \in Key |->
              IF Known(req.s) /\ j \in ToSet(req.keys) /\ grants[j].owner = req.s THEN NoGrant ELSE grants[j]]
      BY <2>1 DEF Release
    <3>2. grants[k].owner = req.s
      BY <3>1
    <3> QED
      BY <3>1, <3>2
  <2>2. CASE Close
    <3>1. /\ Runs("close")
          /\ \/ UNCHANGED grants
             \/ grants' = [j \in Key |-> IF grants[j].owner = req.s THEN NoGrant ELSE grants[j]]
      BY <2>2 DEF Close, core
    <3>2. grants[k].owner = req.s
      BY <3>1
    <3> QED
      BY <3>1, <3>2
  <2>3. ASSUME Acquire PROVE FALSE
    <3>1. grants' = [j \in Key |-> IF j \in Acquired(req.s, req.keys)
                                  THEN [owner |-> req.s, lease |-> req.lease] ELSE grants[j]]
      BY <2>3 DEF Acquire
    <3>2. k \in Acquired(req.s, req.keys) /\ grants'[k].owner = req.s
      BY <3>1
    <3>3. req.keys \in Seq(Key)
      BY <2>3, ListAtHead DEF Acquire
    <3>4. Grantable(req.s, k)
      BY <3>2, <3>3, AcquiredAreGrantable
    <3>5. grants[k].owner = req.s
      BY <3>4, SMTT(60) DEF Grantable, Taken, Live
    <3> QED
      BY <3>2, <3>5
  <2>4. UNCHANGED grants \/ Release \/ Close \/ Acquire
    BY DEF Next, vars, core, Call, TakeJobs, RunJob, Open, IssueTo, Ticket, Subscribe, Submit,
         JobsDone, Step, Pump, Served, TimePasses, Ack, Send, Detach, Attach
  <2> QED
    BY <2>1, <2>2, <2>3, <2>4
<1> QED
  BY <1>1, SessionInvariant, PTL DEF Spec, GrantsStand
=============================================================================
