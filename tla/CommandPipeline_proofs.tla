------------------------ MODULE CommandPipeline_proofs ------------------------
(***************************************************************************)
(* Proofs about CommandPipeline: type correctness for every value of the   *)
(* constants; that no request runs twice and that a serving daemon knows   *)
(* every promised one, whatever checkpoints it takes; and, for a daemon    *)
(* that takes none, that no promised command is lost, that a receipt       *)
(* answers its own command and that a verdict is about an execution.       *)
(***************************************************************************)
EXTENDS CommandPipeline, SequenceTheorems, FiniteSetTheorems, WellFoundedInduction, TLAPS

-----------------------------------------------------------------------------
(* Facts about the data of the model.                                       *)

(* A non-empty set of LSNs or ticks has a least element.                    *)
LEMMA LeastNat ==
    ASSUME NEW S \in SUBSET Nat, S # {}
    PROVE  MinOf(S) \in S /\ \A y \in S : MinOf(S) <= y
<1> DEFINE R == {ss \in Nat \X Nat : ss[1] < ss[2]}
<1>1. IsWellFoundedOn(R, Nat)
  BY NatLessThanWellFounded DEF OpToRel
<1>2. PICK x \in S : \A y \in S : ~(<<y, x>> \in R)
  <2> HIDE DEF R
  <2> QED
    BY <1>1, WFMin
<1>3. \A y \in S : y < x => <<y, x>> \in R
  OBVIOUS
<1>4. \A y \in S : x <= y
  <2> HIDE DEF R
  <2>1. \A y \in S : ~(y < x)
    BY <1>2, <1>3
  <2> QED
    BY <2>1
<1> QED
  BY <1>4 DEF MinOf

(* A bounded set of LSNs or ticks has a greatest element, unless it is      *)
(* empty and the default is taken.                                          *)
LEMMA GreatestNat ==
    ASSUME NEW S \in SUBSET Nat, NEW n \in Nat, \A x \in S : x <= n, NEW d
    PROVE  MaxOf(S, d) \in S \cup {d} /\ \A x \in S : x <= MaxOf(S, d)
<1> DEFINE Bound == {m \in Nat : \A x \in S : x <= m}
<1>1. MinOf(Bound) \in Bound /\ \A m \in Bound : MinOf(Bound) <= m
  <2>1. Bound \in SUBSET Nat /\ Bound # {}
    OBVIOUS
  <2> HIDE DEF Bound
  <2> QED
    BY <2>1, LeastNat
<1>2. CASE S = {}
  BY <1>2 DEF MaxOf
<1>3. CASE S # {}
  <2> DEFINE m == MinOf(Bound)
  <2>1. m \in Nat /\ \A x \in S : x <= m
    BY <1>1
  <2>2. m \in S
    <3>1. SUFFICES ASSUME m \notin S PROVE FALSE
      OBVIOUS
    <3>2. PICK x0 \in S : TRUE
      BY <1>3
    <3>3. m - 1 \in Nat /\ \A x \in S : x <= m - 1
      BY <2>1, <3>1, <3>2
    <3>4. m - 1 \in Bound
      BY <3>3
    <3> QED
      BY <1>1, <2>1, <3>4
  <2> HIDE DEF m
  <2> QED
    BY <1>3, <2>1, <2>2 DEF MaxOf
<1> QED
  BY <1>2, <1>3

(* Finitely many ticks, one per record, have a bound.                       *)
LEMMA Bounded ==
    ASSUME NEW n \in Nat, NEW f \in [1..n -> Nat]
    PROVE  \E b \in Nat : \A i \in 1..n : f[i] <= b
<1> DEFINE Bad == {m \in 0..n : ~\E b \in Nat : \A i \in 1..m : f[i] <= b}
<1>1. SUFFICES Bad = {}
  <2>1. n \notin Bad
    BY <1>1
  <2> QED
    BY <2>1
<1>2. SUFFICES ASSUME Bad # {} PROVE FALSE
  OBVIOUS
<1>3. PICK m \in Bad : \A k \in Bad : m <= k
  <2>1. Bad \in SUBSET Nat
    OBVIOUS
  <2> HIDE DEF Bad
  <2> QED
    BY <1>2, <2>1, LeastNat
<1>4. m # 0
  OBVIOUS
<1>5. m - 1 \in 0..n /\ m - 1 \notin Bad
  <2>1. m \in 0..n
    OBVIOUS
  <2> HIDE DEF Bad
  <2> QED
    BY <1>3, <1>4, <2>1
<1>6. PICK b \in Nat : \A i \in 1..(m - 1) : f[i] <= b
  BY <1>5
<1>7. m \in 1..n /\ f[m] \in Nat
  BY <1>4
<1>8. \A i \in 1..m : f[i] <= b + f[m]
  <2> SUFFICES ASSUME NEW i \in 1..m PROVE f[i] <= b + f[m]
    OBVIOUS
  <2>1. f[i] \in Nat /\ (i = m \/ i \in 1..(m - 1))
    BY <1>7
  <2> QED
    BY <1>6, <1>7, <2>1
<1> QED
  BY <1>7, <1>8

(* What the records of the log carry.                                       *)
LEMMA RecordFields ==
    ASSUME NEW x \in Record
    PROVE  /\ x.kind = "command" => x.req \in Request /\ x.cmd \in Command /\ x.target \in Nat
           /\ x.kind = "outcome" => x.req \in Request /\ x.ok \in BOOLEAN
           /\ x.kind = "hash" => x.tick \in Nat
BY DEF Record

LEMMA RecordsMade ==
    /\ \A r \in Request, c \in Command, t \in Nat : CommandRec(r, c, t) \in Record
    /\ \A r \in Request, ok \in BOOLEAN : OutcomeRec(r, ok) \in Record
    /\ \A t \in Nat, w \in World : HashRec(t, w) \in Record
BY DEF Record, CommandRec, OutcomeRec, HashRec, Hash, World

(* Running a command on a world gives a world.                              *)
LEMMA RunOnType ==
    ASSUME NEW w \in World, NEW e \in Entry
    PROVE  RunOn(w, e) \in World /\ Succeeds(w, e) \in BOOLEAN
<1>1. CASE e.req = NoReq
  BY <1>1 DEF RunOn, Succeeds, World
<1>2. CASE e.req # NoReq
  <2>1. e.req \in Request /\ e.cmd \in Command
    BY <1>2 DEF Entry, SeedEntry
  <2>2. e.cmd \in [op : Op, expects : Nat, hint : Nat]
    BY <2>1, PipelineConstants
  <2>3. Accepts(w, e.cmd) \in BOOLEAN
    BY <2>2 DEF Accepts, Op
  <2>4. ObjectAfter(w, e) \in [version : Nat, by : Request \cup {NoReq}]
    BY <2>1, <2>2 DEF ObjectAfter, Op, World, Missing
  <2>5. Append(w.ran, [req |-> e.req, ok |-> Accepts(w, e.cmd)]) \in Seq([req : Request, ok : BOOLEAN])
    BY <2>1, <2>3, AppendProperties DEF World
  <2> QED
    BY <1>2, <2>3, <2>4, <2>5 DEF RunOn, Succeeds, World
<1> QED
  BY <1>1, <1>2

(* The records of the log, and what a stop leaves of the writer's queue.    *)
LEMMA LogFacts ==
    ASSUME TypeOK
    PROVE  /\ Len(log) \in Nat /\ DOMAIN log = 1..Len(log)
           /\ \A l \in DOMAIN log : log[l] \in Record
BY LenProperties, ElementOfSeq DEF TypeOK

LEMMA FlushedType ==
    ASSUME TypeOK, NEW n \in 0..Len(queue)
    PROVE  log \o [i \in 1..n |-> queue[i].rec] \in Seq(Record)
<1>1. /\ Len(queue) \in Nat
      /\ \A i \in 1..Len(queue) : queue[i] \in [rec : Record, ingress : Nat]
  BY LenProperties, ElementOfSeq DEF TypeOK
<1>2. n \in Nat /\ \A i \in 1..n : queue[i].rec \in Record
  BY <1>1
<1>3. [i \in 1..n |-> queue[i].rec] \in [1..n -> Record]
  BY <1>2
<1>4. [i \in 1..n |-> queue[i].rec] \in Seq(Record)
  BY <1>2, <1>3, SeqDef
<1> QED
  BY <1>4, ConcatProperties DEF TypeOK

(* Recovery starts from a well-formed checkpoint, or from the empty world.  *)
LEMMA BaseType == ASSUME TypeOK PROVE Base \in State /\ Floor \in Nat
<1>1. Fresh \in State
  <2>1. EmptyWorld \in World
    BY EmptySeq DEF EmptyWorld, World, Missing
  <2> QED
    BY <2>1 DEF Fresh, State
<1>2. Base \in State
  BY <1>1 DEF Base, TypeOK
<1> QED
  BY <1>2 DEF Floor, State

(* The commands of one request in the log, and the entry restored for it.   *)
LEMMA RestoredType ==
    ASSUME TypeOK, NEW r \in Request
    PROVE  /\ RestoredEntry(r) \in [state : {"absent", "pending"} \cup Kept,
                                    cmd : Command \cup {NoReq}]
           /\ CommandsOf(r) = {} => RestoredEntry(r).state = "absent"
           /\ CommandsOf(r) # {} => RestoredEntry(r).state \in Kept
<1>1. CASE CommandsOf(r) = {}
  BY <1>1 DEF RestoredEntry, Kept
<1>2. CASE CommandsOf(r) # {}
  <2>1. CommandsOf(r) \in SUBSET Nat
    BY LogFacts DEF CommandsOf, CommandsAfter
  <2>2. MinOf(CommandsOf(r)) \in CommandsOf(r)
    BY <1>2, <2>1, LeastNat
  <2>3. log[MinOf(CommandsOf(r))].cmd \in Command
    BY <2>2, LogFacts, RecordFields DEF CommandsOf, CommandsAfter
  <2>4. \A ok : Verdict(ok) \in Kept
    BY DEF Verdict, Kept, Final
  <2> DEFINE verdict == Verdict(log[MaxOf(OutcomesOf(r), 0)].ok)
  <2>5. verdict \in Kept /\ "durable" \in Kept
    BY <2>4 DEF Kept
  <2> HIDE DEF verdict
  <2> QED
    BY <1>2, <2>3, <2>5 DEF RestoredEntry, verdict
<1> QED
  BY <1>1, <1>2

(* The buffer, the numbers and the goal that recovery computes.             *)
LEMMA RestartType ==
    ASSUME TypeOK
    PROVE  /\ Base.buffer \cup {Replayed(l) : l \in ToReplay} \subseteq Entry
           /\ MaxOf(ToReplay, Floor) \in Nat
           /\ MaxOf(ReplayTicks, NoReplay) \in Nat \cup {NoReplay}
<1>0. /\ Len(log) \in Nat /\ DOMAIN log = 1..Len(log)
      /\ \A l \in DOMAIN log : log[l] \in Record
  BY LogFacts
<1>1. /\ ToReplay \in SUBSET Nat /\ \A l \in ToReplay : l \in DOMAIN log /\ l <= Len(log)
      /\ \A l \in ToReplay : log[l].target \in Nat /\ Replayed(l) \in Entry
  <2>1. \A l \in ToReplay : l \in 1..Len(log) /\ log[l].kind = "command"
    BY <1>0 DEF ToReplay, CommandsAfter
  <2>2. \A l \in ToReplay : /\ log[l].req \in Request /\ log[l].cmd \in Command
                            /\ log[l].target \in Nat
    BY <1>0, <2>1, RecordFields
  <2>3. Base.nextSeq \in Nat
    BY BaseType DEF State
  <2> QED
    BY <1>0, <2>1, <2>2, <2>3 DEF Replayed, Entry
<1>2. MaxOf(ToReplay, Floor) \in Nat
  <2>1. MaxOf(ToReplay, Floor) \in ToReplay \cup {Floor}
    BY <1>0, <1>1, GreatestNat
  <2> QED
    BY <1>1, <2>1, BaseType
<1>3. MaxOf(ReplayTicks, NoReplay) \in Nat \cup {NoReplay}
  <2> DEFINE Tick(l) == IF log[l].kind = "command" THEN log[l].target
                        ELSE IF log[l].kind = "hash" THEN log[l].tick ELSE 0
             f == [l \in 1..Len(log) |-> Tick(l)]
  <2>1. f \in [1..Len(log) -> Nat]
    BY <1>0, RecordFields
  <2>2. PICK b \in Nat : \A i \in 1..Len(log) : f[i] <= b
    <3> HIDE DEF f
    <3> QED
      BY <1>0, <2>1, Bounded
  <2>3. \A t \in ReplayTicks : \E l \in 1..Len(log) : t = f[l]
    <3>1. \A l \in ToReplay : l \in 1..Len(log) /\ log[l].target = f[l]
      BY <1>0 DEF ToReplay, CommandsAfter
    <3>2. \A l \in HashesAfter(Floor) : l \in 1..Len(log) /\ log[l].tick = f[l]
      BY <1>0 DEF HashesAfter
    <3> HIDE DEF f
    <3> QED
      BY <3>1, <3>2 DEF ReplayTicks
  <2> HIDE DEF f
  <2>4. ReplayTicks \in SUBSET Nat /\ \A t \in ReplayTicks : t <= b
    BY <2>1, <2>2, <2>3
  <2> QED
    BY <2>4, GreatestNat
<1>4. Base.buffer \subseteq Entry
  BY BaseType DEF State
<1> QED
  BY <1>1, <1>2, <1>3, <1>4

-----------------------------------------------------------------------------
(* Type correctness.                                                        *)

(* Moving a request in the registry, and telling its client, keep types.    *)
LEMMA RegistryType ==
    ASSUME TypeOK, NEW r \in Request
    PROVE  /\ \A s \in {"absent", "pending"} \cup Kept :
                [index EXCEPT ![r].state = s]
                  \in [Request -> [state : {"absent", "pending"} \cup Kept,
                                  cmd : Command \cup {NoReq}]]
           /\ \A answer \in Kept \cup {"unavailable"} :
                [told EXCEPT ![r] = @ \cup {answer}]
                  \in [Request -> SUBSET (Kept \cup {"unavailable"})]
           /\ \A ok : Verdict(ok) \in Kept
BY DEF TypeOK, Verdict, Kept, Final

(* What the writer is offered is queued or dropped.                         *)
LEMMA OfferedType ==
    ASSUME TypeOK, NEW entry \in [rec : Record, ingress : Nat]
    PROVE  Offered(entry) \in Seq([rec : Record, ingress : Nat])
BY AppendProperties DEF TypeOK, Offered

(* Every action keeps every variable in its type.                           *)
LEMMA TypeStep == TypeOK /\ [Next]_vars => TypeOK'
<1> SUFFICES ASSUME TypeOK, [Next]_vars PROVE TypeOK'
  OBVIOUS
<1> USE DEF TypeOK, disk, wal, sim, gateway
<1>1. CASE ApplyCommand
  <2>1. PICK e \in Due : /\ world' = RunOn(world, e) /\ buffer' = buffer \ {e}
                         /\ report' = Append(report, [req |-> e.req, ingress |-> e.ingress,
                                                      lsn |-> e.lsn, ok |-> Succeeds(world, e)])
    BY <1>1 DEF ApplyCommand
  <2>2. e \in Entry
    BY DEF Due
  <2>3. world' \in World /\ Succeeds(world, e) \in BOOLEAN
    BY <2>1, <2>2, RunOnType
  <2>4. [req |-> e.req, ingress |-> e.ingress, lsn |-> e.lsn, ok |-> Succeeds(world, e)] \in Result
    BY <2>2, <2>3 DEF Entry, SeedEntry, Result
  <2>5. report' \in Seq(Result)
    BY <2>1, <2>4, AppendProperties
  <2>6. buffer' \subseteq Entry
    BY <2>1
  <2> QED
    BY <1>1, <2>3, <2>5, <2>6 DEF ApplyCommand
<1>2. CASE EndTick
  <2>1. queue' \in Seq([rec : Record, ingress : Nat])
    <3>1. [rec |-> HashRec(clock, world), ingress |-> 0] \in [rec : Record, ingress : Nat]
      BY RecordsMade
    <3> QED
      BY <1>2, <3>1, OfferedType DEF EndTick
  <2>2. frozen' \in State \cup {NoImage}
    BY <1>2 DEF EndTick, Snapshot, State
  <2>3. clock' \in Nat /\ stop' \in BOOLEAN /\ pc' = "settle"
    BY <1>2, PipelineConstants DEF EndTick, NextTick
  <2> QED
    BY <1>2, <2>1, <2>2, <2>3 DEF EndTick, Live
<1>3. CASE SettleOutcome
  <2>1. Head(report) \in Result /\ report' \in Seq(Result)
    BY <1>3, HeadTailProperties DEF SettleOutcome
  <2>2. CASE WaitersOf(Head(report)) = {}
    BY <1>3, <2>1, <2>2 DEF SettleOutcome
  <2>3. CASE WaitersOf(Head(report)) # {}
    <3> DEFINE o == Head(report)
    <3>1. PICK w \in WaitersOf(o) :
             /\ waiters' = waiters \ {w}
             /\ index' = [index EXCEPT ![w.req].state = Verdict(o.ok)]
             /\ told' = [told EXCEPT ![w.req] = @ \cup {Verdict(o.ok)}]
             /\ queue' = Offered([rec |-> OutcomeRec(w.req, o.ok), ingress |-> 0])
      BY <1>3, <2>3 DEF SettleOutcome
    <3>2. w.req \in Request /\ o.ok \in BOOLEAN
      BY <2>1 DEF WaitersOf, Result
    <3>3. queue' \in Seq([rec : Record, ingress : Nat])
      <4>1. [rec |-> OutcomeRec(w.req, o.ok), ingress |-> 0] \in [rec : Record, ingress : Nat]
        BY <3>2, RecordsMade
      <4> QED
        BY <3>1, <4>1, OfferedType
    <3>4. /\ index' \in [Request -> [state : {"absent", "pending"} \cup Kept,
                                     cmd : Command \cup {NoReq}]]
          /\ told' \in [Request -> SUBSET (Kept \cup {"unavailable"})]
      BY <3>1, <3>2, RegistryType
    <3>5. waiters' \subseteq [ingress : Nat, req : Request]
      BY <3>1
    <3> QED
      BY <1>3, <2>1, <3>3, <3>4, <3>5 DEF SettleOutcome
  <2> QED
    BY <2>2, <2>3
<1>4. ASSUME NEW r \in Request, NEW c \in Command, SubmitKnown(r, c) PROVE TypeOK'
  <2>1. told' \in [Request -> SUBSET (Kept \cup {"unavailable"})]
    BY <1>4, RegistryType DEF SubmitKnown, Kept
  <2> QED
    BY <1>4, <2>1 DEF SubmitKnown
<1>5. ASSUME NEW r \in Request, NEW c \in Command, SubmitNew(r, c) PROVE TypeOK'
  <2>1. TargetOf(c) \in Nat /\ ingress' \in Nat
    BY <1>5, PipelineConstants, SMTT(60) DEF SubmitNew, TargetOf
  <2>2. queue' \in Seq([rec : Record, ingress : Nat])
    <3>1. [rec |-> CommandRec(r, c, TargetOf(c)), ingress |-> ingress'] \in [rec : Record, ingress : Nat]
      BY <2>1, RecordsMade
    <3> QED
      BY <1>5, <3>1, AppendProperties DEF SubmitNew
  <2>3. pending' \subseteq Ticket
    BY <1>5, <2>1 DEF SubmitNew, Ticket, Waiting
  <2>4. index' \in [Request -> [state : {"absent", "pending"} \cup Kept,
                                cmd : Command \cup {NoReq}]]
    BY <1>5 DEF SubmitNew, Register
  <2> QED
    BY <1>5, <2>1, <2>2, <2>3, <2>4 DEF SubmitNew
<1>6. CASE StartPoll
  BY <1>6 DEF StartPoll, Ticket, Live
<1>7. CASE EndPoll
  BY <1>7 DEF EndPoll, Live
<1>8. ASSUME NEW p \in pending, PollSkip(p) PROVE TypeOK'
  BY <1>8 DEF PollSkip
<1>9. ASSUME NEW p \in pending, PollFailed(p) PROVE TypeOK'
  <2>1. p.req \in Request
    BY DEF Ticket
  <2>2. index' \in [Request -> [state : {"absent", "pending"} \cup Kept,
                                cmd : Command \cup {NoReq}]]
    BY <1>9, <2>1 DEF PollFailed
  <2>3. told' \in [Request -> SUBSET (Kept \cup {"unavailable"})]
    BY <1>9, <2>1, RegistryType DEF PollFailed
  <2> QED
    BY <1>9, <2>2, <2>3 DEF PollFailed
<1>10. ASSUME NEW p \in pending, PollDurable(p) PROVE TypeOK'
  <2>1. /\ p.req \in Request /\ p.cmd \in Command /\ p.ingress \in Nat
        /\ p.target \in Nat /\ p.ticket \in Nat
    <3>1. p \in Ticket /\ p.ticket > 0
      BY <1>10 DEF PollDurable, IsDurable
    <3> HIDE DEF TypeOK
    <3> QED
      BY <3>1 DEF Ticket, Failed
  <2>2. buffer' \subseteq Entry /\ nextSeq' \in Nat /\ included' \in Nat
    BY <1>10, <2>1, SMTT(60) DEF PollDurable, Deliver, EntryOf, Entry
  <2>3. /\ index' \in [Request -> [state : {"absent", "pending"} \cup Kept,
                                   cmd : Command \cup {NoReq}]]
        /\ told' \in [Request -> SUBSET (Kept \cup {"unavailable"})]
    BY <1>10, <2>1, RegistryType DEF PollDurable, Kept
  <2>4. waiters' \subseteq [ingress : Nat, req : Request]
    BY <1>10, <2>1, SMTT(60) DEF PollDurable
  <2> QED
    BY <1>10, <2>2, <2>3, <2>4 DEF PollDurable
<1>11. CASE WalCommit
  <2>1. /\ Head(queue) \in [rec : Record, ingress : Nat]
        /\ queue' \in Seq([rec : Record, ingress : Nat])
    BY <1>11, HeadTailProperties DEF WalCommit
  <2>2. log' \in Seq(Record) /\ Len(log') \in Nat
    BY <1>11, <2>1, AppendProperties, LenProperties DEF WalCommit
  <2>3. pending' \subseteq Ticket
    <3>1. \A p \in pending : [p EXCEPT !.ticket = Len(log')] \in Ticket
      BY <2>2 DEF Ticket
    <3>2. pending' = {IF p.ingress = Head(queue).ingress THEN [p EXCEPT !.ticket = Len(log')] ELSE p
                        : p \in pending}
      BY <1>11, Zenon DEF WalCommit
    <3>3. pending \subseteq Ticket
      OBVIOUS
    <3> HIDE DEF TypeOK
    <3> QED
      BY <3>1, <3>2, <3>3, Zenon
  <2> QED
    BY <1>11, <2>1, <2>2, <2>3 DEF WalCommit
<1>12. CASE WalFault
  <2>1. pending' \subseteq Ticket
    <3>1. \A p \in pending : [p EXCEPT !.ticket = Failed] \in Ticket
      BY DEF Ticket
    <3>2. pending' = {IF p.ticket = Waiting THEN [p EXCEPT !.ticket = Failed] ELSE p : p \in pending}
      BY <1>12, Zenon DEF WalFault
    <3>3. pending \subseteq Ticket
      OBVIOUS
    <3> HIDE DEF TypeOK
    <3> QED
      BY <3>1, <3>2, <3>3, Zenon
  <2> QED
    BY <1>12, <2>1 DEF WalFault
<1>13. CASE Publish \/ PublishFails
  BY <1>13 DEF Publish, PublishFails
<1>14. CASE StopSignal
  BY <1>14 DEF StopSignal
<1>15. ASSUME MemoryLost
       PROVE  /\ queue' \in Seq([rec : Record, ingress : Nat]) /\ frozen' \in State \cup {NoImage}
              /\ clock' \in Nat /\ world' \in World /\ buffer' \subseteq Entry
              /\ nextSeq' \in Nat /\ included' \in Nat /\ until' \in Nat \cup {NoReplay}
              /\ report' \in Seq(Result) /\ fault' \in BOOLEAN /\ stop' \in BOOLEAN
              /\ index' \in [Request -> [state : {"absent", "pending"} \cup Kept,
                                         cmd : Command \cup {NoReq}]]
              /\ ingress' \in Nat /\ pending' \subseteq Ticket /\ toPoll' \subseteq Nat
              /\ waiters' \subseteq [ingress : Nat, req : Request]
  <2>1. EmptyWorld \in World
    BY EmptySeq DEF EmptyWorld, World, Missing
  <2> QED
    BY <1>15, <2>1, EmptySeq DEF MemoryLost, Absent
<1>16. CASE Shutdown \/ Crash
  <2>1. log' \in Seq(Record)
    BY <1>16, FlushedType DEF Shutdown, Crash
  <2>2. MemoryLost /\ pc' = "down" /\ image' = image /\ told' = told /\ stops' \in Nat
    BY <1>16 DEF Shutdown, Crash
  <2> HIDE DEF TypeOK
  <2> QED
    BY <1>15, <2>1, <2>2 DEF TypeOK
<1>17. CASE ReplayDiverges \/ ReplayIncomplete
  <2>1. /\ MemoryLost /\ pc' = "refused" /\ log' = log /\ image' = image
        /\ told' = told /\ stops' = stops
    BY <1>17 DEF ReplayDiverges, ReplayIncomplete, Refuse
  <2> HIDE DEF TypeOK
  <2> QED
    BY <1>15, <2>1 DEF TypeOK
<1>18. CASE Restart
  <2>1. /\ world' \in World /\ clock' \in Nat /\ nextSeq' \in Nat
    <3>1. world' = Base.world /\ clock' = Base.clock /\ nextSeq' = Base.nextSeq + Len(log) + 1
      BY <1>18 DEF Restart
    <3>2. Base.world \in World /\ Base.clock \in Nat /\ Base.nextSeq \in Nat /\ Len(log) \in Nat
      BY BaseType, LogFacts DEF State
    <3> HIDE DEF TypeOK
    <3> QED
      BY <3>1, <3>2
  <2>2. buffer' \subseteq Entry /\ included' \in Nat /\ until' \in Nat \cup {NoReplay}
    BY <1>18, RestartType DEF Restart
  <2> QED
    BY <1>18, <2>1, <2>2 DEF Restart
<1>19. CASE ReplayTick \/ ExitRefused
  <2>1. CASE ReplayTick
    BY <2>1 DEF ReplayTick
  <2>2. CASE ExitRefused
    BY <2>2 DEF ExitRefused
  <2> QED
    BY <1>19, <2>1, <2>2
<1>20. CASE EndReplay
  <2>1. index' \in [Request -> [state : {"absent", "pending"} \cup Kept,
                                cmd : Command \cup {NoReq}]]
    BY <1>20, RestoredType DEF EndReplay
  <2> QED
    BY <1>20, <2>1 DEF EndReplay
<1>21. CASE WriteOutcome
  <2>1. PICK i \in Unwritten :
           /\ log' = Append(log, OutcomeRec(report[i].req, report[i].ok))
           /\ index' = [index EXCEPT ![report[i].req].state = Verdict(report[i].ok)]
    BY <1>21 DEF WriteOutcome
  <2>2. report[i] \in Result /\ report[i].lsn > Floor
    BY ElementOfSeq, LenProperties DEF Unwritten
  <2>3. report[i].req \in Request /\ report[i].ok \in BOOLEAN
    BY <2>2, BaseType DEF Result
  <2>4. log' \in Seq(Record)
    BY <2>1, <2>3, RecordsMade, AppendProperties
  <2>5. index' \in [Request -> [state : {"absent", "pending"} \cup Kept,
                                cmd : Command \cup {NoReq}]]
    BY <2>1, <2>3, RegistryType
  <2> QED
    BY <1>21, <2>4, <2>5 DEF WriteOutcome
<1>22. CASE Serve
  BY <1>22, EmptySeq DEF Serve, Entry, Live
<1>23. CASE UNCHANGED vars
  BY <1>23 DEF vars
<1> QED
  BY <1>1, <1>2, <1>3, <1>4, <1>5, <1>6, <1>7, <1>8, <1>9, <1>10, <1>11, <1>12, <1>13, <1>14,
     <1>16, <1>17, <1>18, <1>19, <1>20, <1>21, <1>22, <1>23
  DEF Next, MainThread, Recover, Client, PollOne

(* The first start of a daemon is a state of the model.                     *)
LEMMA InitTypeOK == Init => TypeOK
<1> SUFFICES ASSUME Init PROVE TypeOK
  OBVIOUS
<1>1. EmptyWorld \in World
  BY EmptySeq DEF EmptyWorld, World, Missing
<1>2. /\ <<>> \in Seq(Record) /\ <<>> \in Seq(Result)
      /\ <<>> \in Seq([rec : Record, ingress : Nat])
  BY EmptySeq
<1>3. /\ Absent \in [Request -> [state : {"absent", "pending"} \cup Kept,
                                 cmd : Command \cup {NoReq}]]
      /\ [r \in Request |-> {}] \in [Request -> SUBSET (Kept \cup {"unavailable"})]
  BY DEF Absent
<1>4. /\ log \in Seq(Record) /\ queue \in Seq([rec : Record, ingress : Nat])
      /\ world \in World /\ report \in Seq(Result)
  BY <1>1, <1>2 DEF Init
<1>5. /\ index \in [Request -> [state : {"absent", "pending"} \cup Kept,
                                cmd : Command \cup {NoReq}]]
      /\ told \in [Request -> SUBSET (Kept \cup {"unavailable"})]
  BY <1>3 DEF Init
<1> QED
  BY <1>4, <1>5 DEF Init, TypeOK
(* The states of the main thread, the registry, the tickets, the buffer and *)
(* the log keep their types in every behaviour, for every value of the      *)
(* constants: in particular only a ticket that has its LSN reaches the      *)
(* command buffer (poll_durable_tickets()).                                 *)
THEOREM TypeCorrect == Spec => []TypeOK
BY InitTypeOK, TypeStep, PTL DEF Spec

-----------------------------------------------------------------------------
(* What the log, a world, a buffer and the writer's queue hold.             *)

(* What the invariant says of the log does not change with the log, and     *)
(* survives a log that only grows.                                          *)
LEMMA LogSame ==
    ASSUME log' = log
    PROVE  \A r : CommandsOf(r)' = CommandsOf(r) /\ (Logged(r)' <=> Logged(r))
BY DEF CommandsOf, CommandsAfter, Logged

LEMMA LogGrows ==
    ASSUME NEW s \in Seq(Record), log \in Seq(Record), log' = log \o s
    PROVE  \A r : CommandsOf(r) \subseteq CommandsOf(r)' /\ (Logged(r) => Logged(r)')
<1>1. \A l \in DOMAIN log : l \in DOMAIN log' /\ log'[l] = log[l]
  BY ConcatProperties, LenProperties
<1> QED
  BY <1>1 DEF CommandsOf, CommandsAfter, Logged

LEMMA LogAppended ==
    ASSUME NEW x \in Record, log \in Seq(Record), log' = Append(log, x)
    PROVE  /\ \A r : CommandsOf(r) \subseteq CommandsOf(r)' /\ (Logged(r) => Logged(r)')
           /\ x.kind # "command" => \A r : Logged(r)' => Logged(r)
           /\ Len(log') \in Nat
           /\ x.kind = "command" => Len(log') \in CommandsOf(x.req)'
<1>1. /\ Len(log) \in Nat /\ Len(log') = Len(log) + 1
      /\ DOMAIN log = 1..Len(log) /\ DOMAIN log' = 1..(Len(log) + 1)
      /\ \A l \in 1..Len(log) : log'[l] = log[l]
      /\ log'[Len(log) + 1] = x
  BY AppendProperties, LenProperties
<1>2. \A r : CommandsOf(r) \subseteq CommandsOf(r)'
  BY <1>1 DEF CommandsOf, CommandsAfter
<1>3. x.kind # "command" => \A r : CommandsOf(r)' \subseteq CommandsOf(r)
  BY <1>1 DEF CommandsOf, CommandsAfter
<1>4. x.kind = "command" => Len(log') \in CommandsOf(x.req)'
  BY <1>1 DEF CommandsOf, CommandsAfter
<1> QED
  BY <1>1, <1>2, <1>3, <1>4 DEF Logged

(* What a world and a buffer hold.                                          *)
LEMMA HeldSame ==
    ASSUME world' = world, buffer' = buffer
    PROVE  /\ InBuffer' = InBuffer /\ Held' = Held
           /\ Executed(world)' = Executed(world)
BY DEF InBuffer, Held, Executed

LEMMA ExecutedRun ==
    ASSUME NEW w \in World, NEW e \in Entry
    PROVE  Executed(RunOn(w, e)) = Executed(w) \cup ({e.req} \ {NoReq})
<1>1. CASE e.req = NoReq
  BY <1>1 DEF Executed, RunOn, World
<1>2. CASE e.req # NoReq
  <2> DEFINE x == [req |-> e.req, ok |-> Accepts(w, e.cmd)]
  <2>1. w.ran \in Seq([req : Request, ok : BOOLEAN])
    BY DEF World
  <2>2. RunOn(w, e).ran = Append(w.ran, x)
    BY <1>2 DEF RunOn, World
  <2>3. x \in [req : Request, ok : BOOLEAN]
    <3>1. e.req \in Request /\ e.cmd \in [op : Op, expects : Nat, hint : Nat]
      BY <1>2, PipelineConstants DEF Entry, SeedEntry
    <3> QED
      BY <3>1 DEF Accepts, Op
  <2>4. /\ Len(w.ran) \in Nat
        /\ DOMAIN w.ran = 1..Len(w.ran) /\ DOMAIN RunOn(w, e).ran = 1..(Len(w.ran) + 1)
        /\ \A i \in 1..Len(w.ran) : RunOn(w, e).ran[i] = w.ran[i]
        /\ RunOn(w, e).ran[Len(w.ran) + 1] = x
    BY <2>1, <2>2, <2>3, AppendProperties, LenProperties
  <2>5. x.req = e.req
    OBVIOUS
  <2> HIDE DEF x
  <2>6. {RunOn(w, e).ran[i].req : i \in 1..(Len(w.ran) + 1)}
          = {w.ran[i].req : i \in 1..Len(w.ran)} \cup {e.req}
    <3> DEFINE n   == Len(w.ran)
               new == RunOn(w, e).ran
    <3>1. n \in Nat /\ (\A i \in 1..n : new[i] = w.ran[i]) /\ new[n + 1].req = e.req
      BY <2>4, <2>5
    <3> HIDE DEF n, new
    <3>2. 1..(n + 1) = (1..n) \cup {n + 1}
      BY <3>1, SMT
    <3>3. {new[i].req : i \in (1..n) \cup {n + 1}}
            = {new[i].req : i \in 1..n} \cup {new[n + 1].req}
      BY Zenon
    <3>4. {new[i].req : i \in 1..n} = {w.ran[i].req : i \in 1..n}
      BY <3>1, Zenon
    <3>5. {new[i].req : i \in 1..(n + 1)} = {w.ran[i].req : i \in 1..n} \cup {e.req}
      BY <3>1, <3>2, <3>3, <3>4, Zenon
    <3> QED
      BY <3>5 DEF n, new
  <2> QED
    BY <1>2, <2>4, <2>6 DEF Executed
<1> QED
  BY <1>1, <1>2

(* An entry with ingress sequence 0, a hash or an outcome, is nobody's      *)
(* command.                                                                 *)
LEMMA OfferedQueue ==
    ASSUME TypeOK, TicketInv, QueueInv, NEW rec \in Record,
           queue' = Offered([rec |-> rec, ingress |-> 0]), UNCHANGED <<ingress, pending>>
    PROVE  QueueInv'
<1> DEFINE x == [rec |-> rec, ingress |-> 0]
<1>1. CASE queue' = queue
  BY <1>1, ZenonT(60) DEF QueueInv
<1>2. CASE queue' = Append(queue, x)
  <2>0. queue \in Seq([rec : Record, ingress : Nat]) /\ x \in [rec : Record, ingress : Nat]
    BY DEF TypeOK
  <2>1. /\ Len(queue) \in Nat /\ DOMAIN queue = 1..Len(queue)
        /\ DOMAIN queue' = 1..(Len(queue) + 1)
        /\ \A i \in 1..Len(queue) : queue'[i] = queue[i]
        /\ queue'[Len(queue) + 1] = x
    BY <1>2, <2>0, AppendProperties, LenProperties, SMTT(60)
  <2>2. x.ingress <= ingress /\ \A p \in pending : x.ingress # p.ingress
    BY DEF TypeOK, TicketInv
  <2> HIDE DEF x
  <2> QED
    BY <2>1, <2>2 DEF QueueInv
<1> QED
  BY <1>1, <1>2 DEF Offered

(* The report after its first outcome is settled.                           *)
LEMMA ReportTail ==
    ASSUME TypeOK, report # <<>>, report' = Tail(report)
    PROVE  \A i \in DOMAIN report' : \E j \in DOMAIN report : report'[i] = report[j]
<1>1. /\ Len(report) \in Nat /\ DOMAIN report = 1..Len(report)
      /\ DOMAIN report' = 1..(Len(report) - 1)
      /\ \A i \in 1..(Len(report) - 1) : report'[i] = report[i + 1]
  BY HeadTailProperties, LenProperties, EmptySeq DEF TypeOK
<1> QED
  BY <1>1

(* An outcome record leaves the commands of the log as they are.            *)
LEMMA OutcomeLogged ==
    ASSUME NEW r \in Request, NEW ok \in BOOLEAN, log \in Seq(Record),
           log' = Append(log, OutcomeRec(r, ok))
    PROVE  \A q : CommandsOf(q)' = CommandsOf(q) /\ (Logged(q)' <=> Logged(q))
<1> DEFINE rec == OutcomeRec(r, ok)
<1>1. rec \in Record /\ rec.kind # "command"
  BY RecordsMade DEF OutcomeRec
<1> HIDE DEF rec
<1>2. /\ Len(log) \in Nat /\ Len(log') = Len(log) + 1
      /\ DOMAIN log = 1..Len(log) /\ DOMAIN log' = 1..(Len(log) + 1)
      /\ \A l \in 1..Len(log) : log'[l] = log[l]
      /\ log'[Len(log) + 1] = rec
  BY <1>1, AppendProperties, LenProperties DEF rec
<1> QED
  BY <1>1, <1>2 DEF CommandsOf, CommandsAfter, Logged

-----------------------------------------------------------------------------
(* The registry of a serving daemon, with or without checkpoints.           *)

(* Every step keeps the tie between tickets, receipts and the registry.     *)
LEMMA RegistryStep == TypeOK /\ RegistryInv /\ [Next]_vars => RegistryInv'
<1> SUFFICES ASSUME TypeOK, RegistryInv, [Next]_vars PROVE RegistryInv'
  OBVIOUS
<1> USE DEF disk, wal, sim, gateway
<1>1. ASSUME UNCHANGED <<index, pending, waiters>>, pc' = pc \/ pc' \in Live
      PROVE  RegistryInv'
  BY <1>1 DEF RegistryInv
<1>2. CASE SettleOutcome
  <2>1. CASE WaitersOf(Head(report)) = {}
    BY <1>1, <1>2, <2>1 DEF SettleOutcome
  <2>2. CASE WaitersOf(Head(report)) # {}
    <3>1. PICK w \in WaitersOf(Head(report)) :
             /\ waiters' = waiters \ {w}
             /\ index' = [index EXCEPT ![w.req].state = Verdict(Head(report).ok)]
      BY <1>2, <2>2 DEF SettleOutcome
    <3>2. /\ w \in waiters /\ w.req \in Request /\ index[w.req].state = "durable"
          /\ \A v \in waiters' : v \in waiters /\ v.req # w.req
      BY <3>1 DEF WaitersOf, TypeOK, RegistryInv
    <3>3. \A r \in Request \ {w.req} : index'[r] = index[r]
      BY <3>1 DEF TypeOK
    <3>4. \A p \in pending : p.req \in Request \ {w.req}
      BY <3>2 DEF TypeOK, Ticket, RegistryInv
    <3>5. \A v \in waiters' : v.req \in Request \ {w.req}
      BY <3>2 DEF TypeOK
    <3> QED
      BY <1>2, <3>2, <3>3, <3>4, <3>5 DEF SettleOutcome, RegistryInv, Live
  <2> QED
    BY <2>1, <2>2
<1>3. ASSUME NEW r \in Request, NEW c \in Command, SubmitNew(r, c) PROVE RegistryInv'
  <2>1. PICK t : t.req = r /\ pending' = pending \cup {t}
    BY <1>3 DEF SubmitNew
  <2>2. /\ index[r].state = "absent" /\ index'[r].state = "pending"
        /\ \A q \in Request \ {r} : index'[q] = index[q]
        /\ waiters' = waiters /\ pc' \in Live
    BY <1>3 DEF SubmitNew, Unknown, Register, Serving, Live, TypeOK
  <2>3. /\ \A p \in pending : p.req \in Request \ {r}
        /\ \A w \in waiters : w.req \in Request \ {r}
    BY <2>2 DEF TypeOK, Ticket, RegistryInv
  <2> QED
    BY <2>1, <2>2, <2>3 DEF RegistryInv
<1>4. ASSUME NEW p \in pending, PollFailed(p) PROVE RegistryInv'
  <2>1. /\ p.req \in Request /\ index[p.req].state = "pending" /\ pending' = pending \ {p}
        /\ waiters' = waiters /\ pc' \in Live
        /\ \A q \in Request \ {p.req} : index'[q] = index[q]
    BY <1>4 DEF PollFailed, Live, TypeOK, Ticket, RegistryInv
  <2>2. /\ \A q \in pending' : q \in pending /\ q.req \in Request \ {p.req}
        /\ \A w \in waiters : w.req \in Request \ {p.req}
    BY <2>1 DEF TypeOK, Ticket, RegistryInv
  <2> QED
    BY <2>1, <2>2 DEF RegistryInv
<1>5. ASSUME NEW p \in pending, PollDurable(p) PROVE RegistryInv'
  <2>1. /\ p.req \in Request /\ index[p.req].state = "pending" /\ pending' = pending \ {p}
        /\ pc' \in Live /\ index'[p.req].state = "durable"
        /\ \A q \in Request \ {p.req} : index'[q] = index[q]
    BY <1>5 DEF PollDurable, Live, TypeOK, Ticket, RegistryInv
  <2>2. /\ \A q \in pending' : q \in pending /\ q.req \in Request \ {p.req}
        /\ \A w \in waiters : w.req \in Request \ {p.req}
    BY <2>1 DEF TypeOK, Ticket, RegistryInv
  <2>3. PICK v : v.req = p.req /\ waiters' \subseteq waiters \cup {v}
    BY <1>5 DEF PollDurable
  <2> QED
    BY <2>1, <2>2, <2>3 DEF RegistryInv
<1>6. CASE WalCommit \/ WalFault
  <2>1. /\ \A q \in pending' : \E p \in pending : q.req = p.req
        /\ \A s, t \in pending' : s.req = t.req => s = t
        /\ UNCHANGED <<index, waiters, pc>> /\ pc \in Live
    <3>1. CASE WalCommit
      <4> DEFINE Filled(p) == IF p.ingress = Head(queue).ingress
                              THEN [p EXCEPT !.ticket = Len(log')] ELSE p
      <4>1. \A p \in pending : Filled(p).req = p.req
        BY DEF TypeOK, Ticket
      <4>2. pending' = {Filled(p) : p \in pending}
        BY <3>1 DEF WalCommit
      <4> HIDE DEF Filled
      <4>3. \A q \in pending' : \E p \in pending : q = Filled(p)
        BY <4>2
      <4>4. \A p, q \in pending : p.req = q.req => p = q
        BY DEF RegistryInv
      <4>5. UNCHANGED <<index, waiters, pc>> /\ pc \in Live
        BY <3>1 DEF WalCommit
      <4> QED
        BY <4>1, <4>3, <4>4, <4>5
    <3>2. CASE WalFault
      <4> DEFINE Lost(p) == IF p.ticket = Waiting THEN [p EXCEPT !.ticket = Failed] ELSE p
      <4>1. \A p \in pending : Lost(p).req = p.req
        BY DEF TypeOK, Ticket
      <4>2. pending' = {Lost(p) : p \in pending}
        BY <3>2 DEF WalFault
      <4> HIDE DEF Lost
      <4> QED
        BY <3>2, <4>1, <4>2 DEF WalFault, RegistryInv
    <3> QED
      BY <1>6, <3>1, <3>2
  <2> QED
    BY <2>1 DEF RegistryInv
<1>7. ASSUME pending' = {}, waiters' = {} PROVE RegistryInv'
  BY <1>7 DEF RegistryInv
<1>8. CASE Shutdown \/ Crash \/ ReplayDiverges \/ ReplayIncomplete
  BY <1>7, <1>8 DEF Shutdown, Crash, ReplayDiverges, ReplayIncomplete, Refuse, MemoryLost
<1>9. CASE Restart \/ EndReplay \/ WriteOutcome \/ ExitRefused \/ Serve
  <2>1. pc \notin Live /\ UNCHANGED <<pending, waiters>>
    BY <1>9 DEF Restart, EndReplay, WriteOutcome, ExitRefused, Serve, Live
  <2> QED
    BY <1>7, <2>1 DEF RegistryInv
<1>10. CASE ReplayTick \/ ApplyCommand \/ EndTick \/ StartPoll \/ EndPoll
  BY <1>1, <1>10 DEF ReplayTick, ApplyCommand, EndTick, StartPoll, EndPoll, Live
<1>11. CASE Publish \/ PublishFails \/ StopSignal
  BY <1>1, <1>11 DEF Publish, PublishFails, StopSignal
<1>12. ASSUME NEW r \in Request, NEW c \in Command, SubmitKnown(r, c) PROVE RegistryInv'
  BY <1>1, <1>12 DEF SubmitKnown
<1>13. ASSUME NEW p \in pending, PollSkip(p) PROVE RegistryInv'
  BY <1>13 DEF PollSkip, RegistryInv, Live
<1>14. CASE UNCHANGED vars
  BY <1>1, <1>14 DEF vars
<1> QED
  BY <1>2, <1>3, <1>4, <1>5, <1>6, <1>8, <1>9, <1>10, <1>11, <1>12, <1>13, <1>14
  DEF Next, MainThread, Recover, Client, PollOne

(* In a serving daemon no answer to a retry goes back, whatever the writer, *)
(* the checkpoints and the clients do: an entry of the registry leaves      *)
(* "pending" once, for absent when its append failed and for durable        *)
(* otherwise, a durable entry gets one verdict (resolve_outcome) and a      *)
(* verdict is final.                                                        *)
THEOREM RegistryForward == Spec => RegistryMovesForward
<1> DEFINE Forward ==
      \A r \in Request : pc \in Live /\ pc' \in Live =>
         \/ index'[r] = index[r]
         \/ index[r].state = "absent" /\ index'[r].state = "pending"
         \/ index[r].state = "pending" /\ index'[r].state \in {"absent", "durable"}
         \/ index[r].state = "durable" /\ index'[r].state \in Final
<1> USE DEF disk, wal, sim, gateway
<1>1. Init => TypeOK /\ RegistryInv
  <2>1. Init => RegistryInv
    BY DEF Init, RegistryInv
  <2> QED
    BY <2>1, InitTypeOK
<1>2. TypeOK /\ RegistryInv /\ [Next]_vars => TypeOK' /\ RegistryInv'
  BY TypeStep, RegistryStep
<1>3. TypeOK /\ RegistryInv /\ Next => Forward
  <2> SUFFICES ASSUME TypeOK, RegistryInv, Next PROVE Forward
    OBVIOUS
  <2>1. CASE index' = index
    BY <2>1
  <2>2. CASE SettleOutcome /\ index' # index
    <3>1. PICK w \in WaitersOf(Head(report)) :
             index' = [index EXCEPT ![w.req].state = Verdict(Head(report).ok)]
      BY <2>2 DEF SettleOutcome
    <3>2. w.req \in Request /\ index[w.req].state = "durable"
      BY DEF WaitersOf, TypeOK, RegistryInv
    <3>3. /\ index'[w.req].state \in Final
          /\ \A r \in Request \ {w.req} : index'[r] = index[r]
      BY <3>1, <3>2 DEF TypeOK, Verdict, Final
    <3> QED
      BY <3>2, <3>3
  <2>3. ASSUME NEW r \in Request, NEW c \in Command, SubmitNew(r, c) PROVE Forward
    <3>1. /\ index[r].state = "absent" /\ index'[r].state = "pending"
          /\ \A q \in Request \ {r} : index'[q] = index[q]
      BY <2>3 DEF SubmitNew, Unknown, Register, TypeOK
    <3> QED
      BY <3>1
  <2>4. ASSUME NEW p \in pending, PollFailed(p) \/ PollDurable(p) PROVE Forward
    <3>1. /\ p.req \in Request /\ index[p.req].state = "pending"
          /\ index'[p.req].state \in {"absent", "durable"}
          /\ \A q \in Request \ {p.req} : index'[q] = index[q]
      BY <2>4 DEF PollFailed, PollDurable, TypeOK, Ticket, RegistryInv
    <3> QED
      BY <3>1
  <2>5. CASE pc \notin Live \/ pc' \notin Live
    BY <2>5
  <2>6. CASE ApplyCommand \/ EndTick \/ StartPoll \/ EndPoll \/ WalCommit \/ WalFault
             \/ Publish \/ PublishFails \/ StopSignal
    BY <2>1, <2>6 DEF ApplyCommand, EndTick, StartPoll, EndPoll, WalCommit, WalFault, Publish,
                      PublishFails, StopSignal
  <2>7. CASE Recover
    BY <2>5, <2>7 DEF Recover, Restart, ReplayTick, ReplayDiverges, EndReplay, ReplayIncomplete,
                      WriteOutcome, Serve, ExitRefused, Live
  <2>8. CASE Shutdown \/ Crash
    BY <2>5, <2>8 DEF Shutdown, Crash, Live
  <2>9. ASSUME NEW r \in Request, NEW c \in Command, SubmitKnown(r, c) PROVE Forward
    BY <2>1, <2>9 DEF SubmitKnown
  <2>10. ASSUME NEW p \in pending, PollSkip(p) PROVE Forward
    BY <2>1, <2>10 DEF PollSkip
  <2> HIDE DEF Forward
  <2> QED
    BY <2>1, <2>2, <2>3, <2>4, <2>6, <2>7, <2>8, <2>9, <2>10
    DEF Next, MainThread, Client, PollOne
<1>4. TypeOK /\ RegistryInv /\ [Next]_vars => [Forward]_vars
  BY <1>3
<1> QED
  BY <1>1, <1>2, <1>4, PTL DEF Spec, RegistryMovesForward
(* The writer's queue after an append, and its next record with the tickets *)
(* that record fulfils (WalCommit).                                         *)
LEMMA QueueAppended ==
    ASSUME TypeOK, NEW x \in [rec : Record, ingress : Nat], queue' = Append(queue, x)
    PROVE  /\ Len(queue) \in Nat /\ DOMAIN queue = 1..Len(queue)
           /\ DOMAIN queue' = 1..(Len(queue) + 1)
           /\ \A i \in 1..Len(queue) : queue'[i] = queue[i]
           /\ queue'[Len(queue) + 1] = x
BY AppendProperties, LenProperties DEF TypeOK

LEMMA Committed ==
    ASSUME TypeOK, WalCommit
    PROVE  \E x \in [rec : Record, ingress : Nat] :
             /\ 1 \in DOMAIN queue /\ queue[1] = x
             /\ \A i \in DOMAIN queue' : /\ i \in Nat \ {0} /\ i + 1 \in DOMAIN queue
                                         /\ queue'[i] = queue[i + 1]
             /\ log' = Append(log, x.rec)
             /\ \A q \in pending' : \E p \in pending :
                  /\ q.ingress = p.ingress /\ q.req = p.req
                  /\ q.ticket = IF p.ingress = x.ingress THEN Len(log') ELSE p.ticket
             /\ (\A p, q \in pending : p.req = q.req => p = q) =>
                   \A p, q \in pending' : p.req = q.req => p = q
             /\ (\A p, q \in pending : p.ingress = q.ingress => p = q) =>
                   \A p, q \in pending' : p.ingress = q.ingress => p = q
<1>1. /\ queue \in Seq([rec : Record, ingress : Nat]) /\ queue # <<>> /\ queue' = Tail(queue)
      /\ Head(queue) \in [rec : Record, ingress : Nat]
  BY HeadTailProperties DEF TypeOK, WalCommit
<1>2. PICK x \in [rec : Record, ingress : Nat] : x = Head(queue)
  BY <1>1
<1> DEFINE Filled(p) == IF p.ingress = x.ingress THEN [p EXCEPT !.ticket = Len(log')] ELSE p
<1>3. /\ 1 \in DOMAIN queue /\ queue[1] = x
      /\ \A i \in DOMAIN queue' : /\ i \in Nat \ {0} /\ i + 1 \in DOMAIN queue
                                  /\ queue'[i] = queue[i + 1]
  <2>1. Len(queue) \in Nat /\ DOMAIN queue = 1..Len(queue) /\ Len(queue) # 0
    BY <1>1, LenProperties, EmptySeq
  <2>2. /\ Tail(queue) \in Seq([rec : Record, ingress : Nat])
        /\ Len(Tail(queue)) = Len(queue) - 1
        /\ \A i \in 1..(Len(queue) - 1) : Tail(queue)[i] = queue[i + 1]
    BY <1>1, HeadTailProperties
  <2>3. DOMAIN Tail(queue) = 1..(Len(queue) - 1)
    BY <2>2, LenProperties
  <2>4. Head(queue) = queue[1]
    OBVIOUS
  <2> QED
    BY <1>1, <1>2, <2>1, <2>2, <2>3, <2>4
<1>4. log' = Append(log, x.rec) /\ pending' = {Filled(p) : p \in pending}
  BY <1>2 DEF WalCommit
<1>5. \A p \in pending : /\ Filled(p).ingress = p.ingress /\ Filled(p).req = p.req
                         /\ Filled(p).ticket = IF p.ingress = x.ingress THEN Len(log') ELSE p.ticket
  BY DEF TypeOK, Ticket
<1> HIDE DEF Filled
<1>6. \A q \in pending' : \E p \in pending : q = Filled(p)
  BY <1>4
<1>7. \A q \in pending' : \E p \in pending :
         /\ q.ingress = p.ingress /\ q.req = p.req
         /\ q.ticket = IF p.ingress = x.ingress THEN Len(log') ELSE p.ticket
  BY <1>5, <1>6
<1>8. (\A p, q \in pending : p.req = q.req => p = q) =>
         \A p, q \in pending' : p.req = q.req => p = q
  BY <1>5, <1>6
<1>9. (\A p, q \in pending : p.ingress = q.ingress => p = q) =>
         \A p, q \in pending' : p.ingress = q.ingress => p = q
  BY <1>5, <1>6
<1> QED
  BY <1>3, <1>4, <1>7, <1>8, <1>9

(* A fault fails the tickets still waiting and changes no other.            *)
LEMMA Faulted ==
    ASSUME TypeOK, WalFault
    PROVE  /\ \A q \in pending' : \E p \in pending :
                /\ q.ingress = p.ingress /\ q.req = p.req
                /\ q.ticket = IF p.ticket = Waiting THEN Failed ELSE p.ticket
           /\ (\A p, q \in pending : p.req = q.req => p = q) =>
                 \A p, q \in pending' : p.req = q.req => p = q
           /\ (\A p, q \in pending : p.ingress = q.ingress => p = q) =>
                 \A p, q \in pending' : p.ingress = q.ingress => p = q
<1> DEFINE Lost(p) == IF p.ticket = Waiting THEN [p EXCEPT !.ticket = Failed] ELSE p
<1>1. \A p \in pending : /\ Lost(p).ingress = p.ingress /\ Lost(p).req = p.req
                         /\ Lost(p).ticket = IF p.ticket = Waiting THEN Failed ELSE p.ticket
  BY DEF TypeOK, Ticket
<1>2. pending' = {Lost(p) : p \in pending}
  BY DEF WalFault
<1> HIDE DEF Lost
<1>3. \A q \in pending' : \E p \in pending : q = Lost(p)
  BY <1>2
<1> QED
  BY <1>1, <1>3

(* The registry, the tickets and the queue stay tied, with and without      *)
(* checkpoints.                                                             *)
LEMMA WriterStep ==
    ASSUME TypeOK, TypeOK', WriterInv, [Next]_vars
    PROVE  WriterInv'
<1> USE DEF disk, wal, sim, gateway
<1>1. RegistryInv /\ QuietInv /\ TicketInv /\ QueueInv
  BY DEF WriterInv
<1>2. RegistryInv'
  BY <1>1, RegistryStep
<1>3. CASE pc' \in Live
  <2>1. QuietInv'
    BY <1>3 DEF QuietInv, Up, Live
  <2>2. SUFFICES TicketInv' /\ QueueInv'
    BY <1>2, <2>1 DEF WriterInv
  <2>3. ASSUME UNCHANGED <<log, queue, index, ingress, pending>>
        PROVE  TicketInv' /\ QueueInv'
    <3>1. \A r : CommandsOf(r)' = CommandsOf(r)
      BY <2>3, LogSame
    <3> QED
      BY <1>1, <2>3, <3>1 DEF TicketInv, QueueInv
  <2>4. CASE EndTick
    <3>1. TicketInv'
      BY <1>1, <2>4, LogSame DEF EndTick, TicketInv
    <3>2. HashRec(clock, world) \in Record
      BY RecordsMade DEF TypeOK
    <3>3. CASE queue' = queue
      BY <2>3, <2>4, <3>3 DEF EndTick
    <3>4. CASE queue' = Offered([rec |-> HashRec(clock, world), ingress |-> 0])
      BY <1>1, <2>4, <3>1, <3>2, <3>4, OfferedQueue DEF EndTick
    <3> QED
      BY <2>4, <3>3, <3>4 DEF EndTick
  <2>5. CASE SettleOutcome
    <3>1. CASE WaitersOf(Head(report)) = {}
      BY <2>3, <2>5, <3>1 DEF SettleOutcome
    <3>2. CASE WaitersOf(Head(report)) # {}
      <4> DEFINE o == Head(report)
      <4>1. PICK w \in WaitersOf(o) :
               /\ index' = [index EXCEPT ![w.req].state = Verdict(o.ok)]
               /\ queue' = Offered([rec |-> OutcomeRec(w.req, o.ok), ingress |-> 0])
        BY <2>5, <3>2 DEF SettleOutcome
      <4>2. w \in waiters /\ w.req \in Request /\ o.ok \in BOOLEAN
        BY <2>5, HeadTailProperties, SMTT(60) DEF SettleOutcome, WaitersOf, TypeOK, Result
      <4> HIDE DEF o
      <4>3. OutcomeRec(w.req, o.ok) \in Record
        BY <4>2, RecordsMade
      <4>4. QueueInv'
        BY <1>1, <2>5, <4>1, <4>3, OfferedQueue DEF SettleOutcome
      <4>5. \A p \in pending : p.req \in Request \ {w.req} /\ index'[p.req] = index[p.req]
        BY <1>1, <4>1, <4>2 DEF RegistryInv, TypeOK, Ticket
      <4>6. TicketInv'
        BY <1>1, <2>5, <4>5, LogSame DEF SettleOutcome, TicketInv
      <4> QED
        BY <4>4, <4>6
    <3> QED
      BY <3>1, <3>2
  <2>6. ASSUME NEW r \in Request, NEW c \in Command, SubmitNew(r, c)
        PROVE  TicketInv' /\ QueueInv'
    <3> DEFINE rec == CommandRec(r, c, TargetOf(c))
               x == [rec |-> rec, ingress |-> ingress + 1]
               t == [ingress |-> ingress + 1, req |-> r, cmd |-> c, target |-> TargetOf(c),
                     ticket |-> Waiting]
    <3>1. \A q : CommandsOf(q)' = CommandsOf(q)
      BY <2>6, LogSame DEF SubmitNew
    <3>2. /\ index[r].state = "absent" /\ index'[r].state = "pending"
          /\ \A q \in Request \ {r} : index'[q] = index[q]
      BY <2>6 DEF SubmitNew, Unknown, Register, TypeOK
    <3>3. ingress' = ingress + 1 /\ pending' = pending \cup {t} /\ queue' = Append(queue, x)
      BY <2>6 DEF SubmitNew
    <3>4. /\ t.ingress = ingress + 1 /\ t.req = r /\ t.ticket = 0
          /\ x.ingress = ingress + 1 /\ rec.kind = "command" /\ rec.req = r /\ x.rec = rec
      BY DEF CommandRec, Waiting
    <3> HIDE DEF t, rec
    <3>5. x \in [rec : Record, ingress : Nat]
      <4>1. TargetOf(c) \in Nat
        BY <2>6, PipelineConstants DEF SubmitNew, TargetOf, TypeOK
      <4> QED
        BY <4>1, RecordsMade, SMTT(60) DEF TypeOK, rec
    <3> HIDE DEF x
    <3>6. /\ ingress \in Nat
          /\ \A p \in pending : p.req \in Request \ {r} /\ p.ingress \in 1..ingress
      BY <1>1, <3>2 DEF TicketInv, TypeOK, Ticket
    <3>7. TicketInv'
      BY <1>1, <3>1, <3>2, <3>3, <3>4, <3>6 DEF TicketInv
    <3>8. QueueInv'
      <4>1. /\ Len(queue) \in Nat /\ DOMAIN queue = 1..Len(queue)
            /\ DOMAIN queue' = 1..(Len(queue) + 1)
            /\ \A i \in 1..Len(queue) : queue'[i] = queue[i]
            /\ queue'[Len(queue) + 1] = x
        BY <3>3, <3>5, QueueAppended
      <4>2. \A i \in 1..Len(queue) : queue[i].ingress \in Nat /\ queue[i].ingress <= ingress
        <5>1. \A i \in 1..Len(queue) : queue[i] \in [rec : Record, ingress : Nat]
          BY ElementOfSeq DEF TypeOK
        <5> QED
          BY <1>1, <4>1, <5>1 DEF QueueInv
      <4> QED
        BY <1>1, <3>3, <3>4, <3>6, <4>1, <4>2 DEF QueueInv
    <3> QED
      BY <3>7, <3>8
  <2>7. ASSUME NEW p \in pending, PollFailed(p) \/ PollDurable(p)
        PROVE  TicketInv' /\ QueueInv'
    <3>1. /\ p.req \in Request /\ pending' = pending \ {p}
          /\ UNCHANGED <<log, queue, ingress>>
          /\ \A r \in Request \ {p.req} : index'[r] = index[r]
      BY <2>7 DEF PollFailed, PollDurable, TypeOK, Ticket
    <3>2. \A q \in pending' : q \in pending /\ q.req \in Request \ {p.req}
      BY <1>1, <3>1 DEF TicketInv, TypeOK, Ticket
    <3>3. \A r : CommandsOf(r)' = CommandsOf(r)
      BY <3>1, LogSame
    <3> QED
      BY <1>1, <3>1, <3>2, <3>3 DEF TicketInv, QueueInv
  <2>8. CASE WalCommit
    <3>1. PICK x \in [rec : Record, ingress : Nat] :
             /\ 1 \in DOMAIN queue /\ queue[1] = x
             /\ \A i \in DOMAIN queue' : /\ i \in Nat \ {0} /\ i + 1 \in DOMAIN queue
                                         /\ queue'[i] = queue[i + 1]
             /\ log' = Append(log, x.rec)
             /\ \A q \in pending' : \E p \in pending :
                  /\ q.ingress = p.ingress /\ q.req = p.req
                  /\ q.ticket = IF p.ingress = x.ingress THEN Len(log') ELSE p.ticket
             /\ (\A p, q \in pending : p.req = q.req => p = q) =>
                   \A p, q \in pending' : p.req = q.req => p = q
      BY <2>8, Committed
    <3>2. /\ \A r : CommandsOf(r) \subseteq CommandsOf(r)'
          /\ x.rec.kind = "command" => Len(log') \in CommandsOf(x.rec.req)'
      <4>1. x.rec \in Record /\ log \in Seq(Record)
        BY DEF TypeOK
      <4> QED
        BY <3>1, <4>1, LogAppended
    <3>3. \A p \in pending : p.ingress = x.ingress => x.rec.kind = "command" /\ x.rec.req = p.req
      BY <1>1, <3>1 DEF QueueInv
    <3>4. ingress' = ingress /\ index' = index
      BY <2>8 DEF WalCommit
    <3>5. \A q \in pending' : /\ q.ingress \in 1..ingress
                              /\ index[q.req].state = "pending"
                              /\ q.ticket > 0 => q.ticket \in CommandsOf(q.req)'
      <4> SUFFICES ASSUME NEW q \in pending'
                   PROVE  /\ q.ingress \in 1..ingress
                          /\ index[q.req].state = "pending"
                          /\ q.ticket > 0 => q.ticket \in CommandsOf(q.req)'
        OBVIOUS
      <4>1. PICK p \in pending :
               /\ q.ingress = p.ingress /\ q.req = p.req
               /\ q.ticket = IF p.ingress = x.ingress THEN Len(log') ELSE p.ticket
        BY <3>1
      <4>2. CASE p.ingress = x.ingress
        BY <1>1, <3>2, <3>3, <4>1, <4>2 DEF TicketInv
      <4>3. CASE p.ingress # x.ingress
        BY <1>1, <3>2, <4>1, <4>3 DEF TicketInv
      <4> QED
        BY <4>2, <4>3
    <3>6. TicketInv'
      BY <1>1, <3>1, <3>4, <3>5 DEF TicketInv
    <3>7. QueueInv'
      BY <1>1, <3>1, <3>4 DEF QueueInv
    <3> QED
      BY <3>6, <3>7
  <2>9. CASE WalFault
    <3>1. /\ \A q \in pending' : \E p \in pending :
               q.ingress = p.ingress /\ q.req = p.req /\ (q.ticket > 0 => q.ticket = p.ticket)
          /\ \A p, q \in pending' : p.req = q.req => p = q
      BY <1>1, <2>9, Faulted DEF TicketInv, Failed
    <3>2. UNCHANGED <<log, queue, index, ingress>>
      BY <2>9 DEF WalFault
    <3>3. \A r : CommandsOf(r)' = CommandsOf(r)
      BY <3>2, LogSame
    <3> QED
      BY <1>1, <3>1, <3>2, <3>3 DEF TicketInv, QueueInv
  <2>10. CASE ApplyCommand \/ StartPoll \/ EndPoll \/ Publish \/ PublishFails \/ StopSignal
    <3>1. UNCHANGED <<log, queue, index, ingress, pending>>
      BY <2>10 DEF ApplyCommand, StartPoll, EndPoll, Publish, PublishFails, StopSignal
    <3> QED
      BY <2>3, <3>1
  <2>11. ASSUME NEW r \in Request, NEW c \in Command, SubmitKnown(r, c)
         PROVE  TicketInv' /\ QueueInv'
    BY <2>3, <2>11 DEF SubmitKnown
  <2>12. ASSUME NEW p \in pending, PollSkip(p) PROVE TicketInv' /\ QueueInv'
    BY <2>3, <2>12 DEF PollSkip
  <2>13. CASE Serve \/ UNCHANGED vars
    BY <2>3, <2>13 DEF Serve, vars
  <2>14. CASE Recover /\ ~Serve
    BY <1>3, <2>14 DEF Recover, Restart, ReplayTick, ReplayDiverges, EndReplay, ReplayIncomplete,
                       Refuse, WriteOutcome, ExitRefused, Live
  <2>15. CASE Shutdown \/ Crash
    BY <1>3, <2>15 DEF Shutdown, Crash, Live
  <2> HIDE DEF disk, wal, sim, gateway
  <2> QED
    BY <2>4, <2>5, <2>6, <2>7, <2>8, <2>9, <2>10, <2>11, <2>12, <2>13, <2>14, <2>15
    DEF Next, MainThread, Client, PollOne
<1>4. CASE pc' \notin Live
  <2>1. pending' = {} /\ queue' = <<>> /\ waiters' = {}
        /\ (pc' \notin Up => \A r \in Request : index'[r].state = "absent")
        /\ (pc' \in {"down", "refused"} => report' = <<>>)
    <3>1. ASSUME MemoryLost
          PROVE  /\ pending' = {} /\ queue' = <<>> /\ waiters' = {} /\ report' = <<>>
                 /\ \A r \in Request : index'[r].state = "absent"
      BY <3>1 DEF MemoryLost, Absent
    <3>2. CASE Shutdown \/ Crash \/ ReplayDiverges \/ ReplayIncomplete
      BY <3>1, <3>2 DEF Shutdown, Crash, ReplayDiverges, ReplayIncomplete, Refuse
    <3>3. CASE Restart \/ ReplayTick \/ ExitRefused
      BY <1>1, <3>3 DEF Restart, ReplayTick, ExitRefused, QuietInv, Up, Live
    <3>4. CASE EndReplay \/ WriteOutcome
      BY <1>1, <3>4 DEF EndReplay, WriteOutcome, QuietInv, Up, Live
    <3>5. CASE ApplyCommand
      BY <1>1, <1>4, <3>5 DEF ApplyCommand, Ticking, QuietInv, Up, Live
    <3>6. CASE UNCHANGED vars
      BY <1>1, <1>4, <3>6 DEF vars, QuietInv
    <3>7. CASE EndTick \/ SettleOutcome \/ StartPoll \/ EndPoll \/ Serve
      BY <1>4, <3>7 DEF EndTick, SettleOutcome, StartPoll, EndPoll, Serve, Live
    <3>8. CASE WalCommit \/ WalFault \/ Publish \/ PublishFails \/ StopSignal
      BY <1>4, <3>8 DEF WalCommit, WalFault, Publish, PublishFails, StopSignal
    <3>9. ASSUME NEW p \in pending, PollOne(p) PROVE pc' \in Live
      BY <3>9 DEF PollOne, PollSkip, PollFailed, PollDurable, Live
    <3>10. ASSUME NEW r \in Request, NEW c \in Command, SubmitKnown(r, c) \/ SubmitNew(r, c)
           PROVE  pc' \in Live
      BY <3>10 DEF SubmitKnown, SubmitNew, Serving, Live
    <3> HIDE DEF disk, wal, sim, gateway
    <3> QED
      BY <1>4, <3>2, <3>3, <3>4, <3>5, <3>6, <3>7, <3>8, <3>9, <3>10
      DEF Next, MainThread, Recover, Client
  <2>2. QuietInv'
    BY <1>4, <2>1 DEF QuietInv
  <2>3. TicketInv' /\ QueueInv'
    BY <2>1 DEF TicketInv, QueueInv
  <2> QED
    BY <1>2, <2>2, <2>3 DEF WriterInv
<1> QED
  BY <1>3, <1>4

-----------------------------------------------------------------------------
(* The promise of a durable acknowledgement, for a daemon that takes no     *)
(* checkpoint (checkpoint_interval_ticks = 0).                              *)

(* Every step of a daemon without checkpoints keeps the invariant.          *)
LEMMA PipelineStep ==
    ASSUME CheckpointEvery = 0, TypeOK, TypeOK', PipelineInv, [Next]_vars
    PROVE  PipelineInv'
<1> USE DEF disk, wal, sim, gateway
<1>0. /\ NoCheckpoints /\ RecordInv /\ HoldInv
      /\ WriterInv /\ QuietInv /\ TicketInv /\ RegistryInv
  BY DEF PipelineInv, WriterInv
<1>w. WriterInv'
  BY <1>0, WriterStep
<1>1. CASE ApplyCommand
  <2>1. PICK e \in Due : /\ world' = RunOn(world, e) /\ buffer' = buffer \ {e}
                         /\ report' = Append(report, [req |-> e.req, ingress |-> e.ingress,
                                                      lsn |-> e.lsn, ok |-> Succeeds(world, e)])
    BY <1>1 DEF ApplyCommand
  <2>2. /\ \A r : CommandsOf(r)' = CommandsOf(r) /\ (Logged(r)' <=> Logged(r))
        /\ pc \in {"step", "replay"} /\ pc' = pc
    BY <1>1, LogSame DEF ApplyCommand, Ticking
  <2>3. e \in Entry /\ world \in World /\ (e.req = NoReq \/ e.req \in InBuffer)
    BY DEF TypeOK, Due, InBuffer
  <2>4. Executed(world)' = Executed(world) \cup ({e.req} \ {NoReq})
    <3>1. Executed(RunOn(world, e)) = Executed(world) \cup ({e.req} \ {NoReq})
      BY <2>3, ExecutedRun
    <3>2. Executed(world)' = Executed(RunOn(world, e))
      BY <2>1, Zenon DEF Executed
    <3> QED
      BY <3>1, <3>2
  <2>5. InBuffer' \subseteq InBuffer /\ Held \subseteq Held'
    BY <2>1, <2>4 DEF InBuffer, Held
  <2>6. RecordInv'
    <3> DEFINE o == [req |-> e.req, ingress |-> e.ingress, lsn |-> e.lsn, ok |-> Succeeds(world, e)]
    <3>1. o \in Result
      BY <2>3, RunOnType DEF Entry, SeedEntry, Result
    <3>2. /\ Len(report) \in Nat /\ DOMAIN report = 1..Len(report)
          /\ DOMAIN report' = 1..(Len(report) + 1)
          /\ \A i \in 1..Len(report) : report'[i] = report[i]
          /\ report'[Len(report) + 1] = o
      BY <2>1, <3>1, AppendProperties, LenProperties DEF TypeOK
    <3>3. o.req = NoReq \/ (o.req \in Executed(world') /\ Logged(o.req))
      BY <1>0, <2>3, <2>4 DEF RecordInv
    <3> HIDE DEF o
    <3>4. \A i \in DOMAIN report' :
             \/ report'[i].req = NoReq
             \/ report'[i].req \in Executed(world') /\ Logged(report'[i].req)
      <4>1. \A i \in 1..Len(report) :
               \/ report[i].req = NoReq
               \/ report[i].req \in Executed(world') /\ Logged(report[i].req)
        BY <1>0, <2>4, <3>2 DEF RecordInv
      <4> QED
        BY <3>2, <3>3, <4>1
    <3>5. \A r \in InBuffer' : Logged(r)
      BY <1>0, <2>5 DEF RecordInv
    <3>6. log' = log
      BY <1>1 DEF ApplyCommand
    <3> QED
      BY <3>4, <3>5, <3>6 DEF RecordInv, Logged, CommandsOf, CommandsAfter
  <2>7. HoldInv'
    BY <1>0, <1>1, <2>2, <2>5 DEF HoldInv, ApplyCommand, Promised
  <2>8. NoCheckpoints'
    BY <1>0, <1>1 DEF NoCheckpoints, ApplyCommand
  <2> QED
    BY <1>w, <2>6, <2>7, <2>8 DEF PipelineInv
<1>2. CASE EndTick
  <2>1. /\ \A r : CommandsOf(r)' = CommandsOf(r) /\ (Logged(r)' <=> Logged(r))
        /\ InBuffer' = InBuffer /\ Held' = Held /\ Executed(world)' = Executed(world)
    BY <1>2, LogSame, HeldSame DEF EndTick
  <2>2. NoCheckpoints'
    BY <1>0, <1>2 DEF EndTick, NoCheckpoints, Every
  <2>3. RecordInv' /\ HoldInv'
    BY <1>0, <1>2, <2>1 DEF EndTick, RecordInv, HoldInv, Promised, Up, Live
  <2> QED
    BY <1>w, <2>2, <2>3 DEF PipelineInv
<1>3. CASE SettleOutcome
  <2>1. /\ \A r : CommandsOf(r)' = CommandsOf(r) /\ (Logged(r)' <=> Logged(r))
        /\ InBuffer' = InBuffer /\ Held' = Held /\ Executed(world)' = Executed(world)
    BY <1>3, LogSame, HeldSame DEF SettleOutcome
  <2>2. RecordInv'
    BY <1>0, <1>3, <2>1, ReportTail DEF RecordInv, SettleOutcome
  <2>3. NoCheckpoints'
    BY <1>0, <1>3 DEF SettleOutcome, NoCheckpoints
  <2>4. CASE WaitersOf(Head(report)) = {}
    BY <1>0, <1>3, <1>w, <2>1, <2>2, <2>3, <2>4 DEF SettleOutcome, PipelineInv, HoldInv, Promised
  <2>5. CASE WaitersOf(Head(report)) # {}
    <3> DEFINE o == Head(report)
    <3>1. PICK w \in WaitersOf(o) :
             /\ waiters' = waiters \ {w}
             /\ index' = [index EXCEPT ![w.req].state = Verdict(o.ok)]
             /\ told' = [told EXCEPT ![w.req] = @ \cup {Verdict(o.ok)}]
      BY <1>3, <2>5 DEF SettleOutcome
    <3>2. w \in waiters /\ w.req \in Request
      BY DEF WaitersOf, TypeOK
    <3> HIDE DEF o
    <3>3. /\ w.req \in Promised /\ index[w.req].state \in Kept /\ Verdict(o.ok) \in Kept
      BY <1>0, <1>3, <3>2 DEF HoldInv, SettleOutcome, Up, Live, Verdict, Kept, Final
    <3>4. /\ \A r \in Request \ {w.req} : index'[r] = index[r] /\ told'[r] = told[r]
          /\ index'[w.req].state \in Kept
          /\ told'[w.req] = told[w.req] \cup {Verdict(o.ok)}
      BY <3>1, <3>2, <3>3 DEF TypeOK
    <3>5. Promised' = Promised
      BY <3>2, <3>3, <3>4 DEF Promised
    <3>6. HoldInv'
      <4>1. pc' = "settle" /\ pc = "settle"
        BY <1>3 DEF SettleOutcome
      <4>2. \A r \in Request : index'[r].state \in Kept <=> index[r].state \in Kept
        BY <3>3, <3>4
      <4>3. waiters' \subseteq waiters /\ Promised \subseteq Request
        BY <3>1 DEF Promised
      <4> QED
        BY <1>0, <2>1, <3>5, <4>1, <4>2, <4>3 DEF HoldInv, Up, Live
    <3> QED
      BY <1>w, <2>2, <2>3, <3>6 DEF PipelineInv
  <2> QED
    BY <2>4, <2>5
<1>4. ASSUME NEW r \in Request, NEW c \in Command, SubmitKnown(r, c) PROVE PipelineInv'
  <2>1. /\ \A q : CommandsOf(q)' = CommandsOf(q) /\ (Logged(q)' <=> Logged(q))
        /\ InBuffer' = InBuffer /\ Held' = Held /\ Executed(world)' = Executed(world)
    BY <1>4, LogSame, HeldSame DEF SubmitKnown
  <2>2. index[r].state \in Kept /\ pc = "settle" /\ pc' = "settle"
    BY <1>4 DEF SubmitKnown, Serving, Kept
  <2>3. Promised' = Promised \cup {r}
    BY <1>4, <2>2 DEF SubmitKnown, Promised, TypeOK
  <2>4. HoldInv'
    BY <1>0, <1>4, <2>1, <2>2, <2>3 DEF SubmitKnown, HoldInv, Up, Live
  <2>5. NoCheckpoints' /\ RecordInv'
    BY <1>0, <1>4, <2>1 DEF SubmitKnown, NoCheckpoints, RecordInv
  <2> QED
    BY <1>w, <2>4, <2>5 DEF PipelineInv
<1>5. ASSUME NEW r \in Request, NEW c \in Command, SubmitNew(r, c) PROVE PipelineInv'
  <2>1. /\ \A q : CommandsOf(q)' = CommandsOf(q) /\ (Logged(q)' <=> Logged(q))
        /\ InBuffer' = InBuffer /\ Held' = Held /\ Executed(world)' = Executed(world)
    BY <1>5, LogSame, HeldSame DEF SubmitNew
  <2>2. /\ index[r].state = "absent" /\ index'[r].state = "pending"
        /\ \A q \in Request \ {r} : index'[q] = index[q]
        /\ pc = "settle" /\ pc' = "settle"
    BY <1>5 DEF SubmitNew, Serving, Unknown, Register, TypeOK
  <2>3. HoldInv'
    <3>1. Promised' = Promised /\ r \notin Promised /\ Promised \subseteq Request
      BY <1>0, <1>5, <2>2 DEF SubmitNew, Promised, HoldInv, Up, Live, Kept, Final
    <3>2. "pending" \notin Kept
      BY DEF Kept, Final
    <3>3. waiters' = waiters
      BY <1>5 DEF SubmitNew
    <3> QED
      BY <1>0, <2>1, <2>2, <3>1, <3>2, <3>3 DEF HoldInv, Up, Live
  <2>4. NoCheckpoints' /\ RecordInv'
    BY <1>0, <1>5, <2>1 DEF SubmitNew, NoCheckpoints, RecordInv
  <2> QED
    BY <1>w, <2>3, <2>4 DEF PipelineInv
<1>6. ASSUME UNCHANGED <<log, image, frozen, world, buffer, report, index, waiters, told>>,
             pc \in Live, pc' \in Live
      PROVE  PipelineInv'
  <2>1. /\ \A q : CommandsOf(q)' = CommandsOf(q) /\ (Logged(q)' <=> Logged(q))
        /\ InBuffer' = InBuffer /\ Held' = Held /\ Executed(world)' = Executed(world)
    BY <1>6, LogSame, HeldSame
  <2>2. NoCheckpoints' /\ RecordInv'
    BY <1>0, <1>6, <2>1 DEF NoCheckpoints, RecordInv
  <2>3. HoldInv'
    BY <1>0, <1>6, <2>1 DEF HoldInv, Promised, Up, Live
  <2> QED
    BY <1>w, <2>2, <2>3 DEF PipelineInv
<1>7. CASE StartPoll \/ EndPoll \/ StopSignal \/ WalFault
  BY <1>6, <1>7 DEF StartPoll, EndPoll, StopSignal, WalFault, Serving, Live
<1>8. ASSUME NEW p \in pending, PollSkip(p) PROVE PipelineInv'
  BY <1>6, <1>8 DEF PollSkip, Live
<1>9. ASSUME NEW p \in pending, PollFailed(p) PROVE PipelineInv'
  <2>1. /\ \A q : CommandsOf(q)' = CommandsOf(q) /\ (Logged(q)' <=> Logged(q))
        /\ InBuffer' = InBuffer /\ Held' = Held /\ Executed(world)' = Executed(world)
    BY <1>9, LogSame, HeldSame DEF PollFailed
  <2>2. p.req \in Request /\ index[p.req].state = "pending" /\ pc = "poll" /\ pc' = "poll"
    BY <1>0, <1>9 DEF PollFailed, TicketInv, TypeOK, Ticket
  <2>3. /\ \A r \in Request \ {p.req} : index'[r] = index[r] /\ told'[r] = told[r]
        /\ index'[p.req].state = "absent"
        /\ told'[p.req] = told[p.req] \cup {"unavailable"}
    BY <1>9, <2>2 DEF PollFailed, TypeOK
  <2>4. p.req \notin Promised /\ "absent" \notin Kept /\ "unavailable" \notin Kept
    BY <1>0, <2>2 DEF HoldInv, Up, Live, Kept, Final
  <2>5. Promised' = Promised /\ Promised \subseteq Request
    BY <2>2, <2>3, <2>4 DEF Promised
  <2>6. HoldInv'
    <3>1. waiters' = waiters
      BY <1>9 DEF PollFailed
    <3> QED
      BY <1>0, <2>1, <2>2, <2>3, <2>4, <2>5, <3>1 DEF HoldInv, Up, Live
  <2>7. NoCheckpoints' /\ RecordInv'
    BY <1>0, <1>9, <2>1 DEF PollFailed, NoCheckpoints, RecordInv
  <2> QED
    BY <1>w, <2>6, <2>7 DEF PipelineInv
<1>10. ASSUME NEW p \in pending, PollDurable(p) PROVE PipelineInv'
  <2>1. /\ \A q : CommandsOf(q)' = CommandsOf(q) /\ (Logged(q)' <=> Logged(q))
        /\ Executed(world)' = Executed(world)
    BY <1>10, LogSame DEF PollDurable, Executed
  <2>2. /\ p.req \in Request /\ p.req # NoReq /\ pc = "poll" /\ pc' = "poll"
    BY <1>10, PipelineConstants DEF PollDurable, TypeOK, Ticket
  <2>3. Logged(p.req)
    BY <1>0, <1>10 DEF PollDurable, IsDurable, TicketInv, Logged
  <2>4. InBuffer' = InBuffer \cup {p.req} /\ Held' = Held \cup {p.req}
    <3>1. buffer' = buffer \cup {EntryOf(p, nextSeq)} /\ EntryOf(p, nextSeq).req = p.req
      BY <1>10 DEF PollDurable, Deliver, EntryOf
    <3> QED
      BY <2>1, <2>2, <3>1 DEF InBuffer, Held
  <2>5. /\ \A r \in Request \ {p.req} : index'[r] = index[r] /\ told'[r] = told[r]
        /\ index'[p.req].state = "durable" /\ "durable" \in Kept
        /\ told'[p.req] = told[p.req] \cup {"durable"}
    BY <1>10, <2>2 DEF PollDurable, TypeOK, Kept
  <2>6. Promised' = Promised \cup {p.req} /\ Promised \subseteq Request
    BY <2>2, <2>5 DEF Promised
  <2>7. HoldInv'
    <3>1. \A w \in waiters' : w.req \in Promised'
      BY <1>0, <1>10, <2>6 DEF PollDurable, HoldInv
    <3>2. \A r \in Request : index'[r].state \in Kept <=> r = p.req \/ index[r].state \in Kept
      BY <2>5
    <3> QED
      BY <1>0, <2>1, <2>2, <2>3, <2>4, <2>6, <3>1, <3>2 DEF HoldInv, Up, Live
  <2>8. NoCheckpoints' /\ RecordInv'
    BY <1>0, <1>10, <2>1, <2>3, <2>4 DEF PollDurable, NoCheckpoints, RecordInv
  <2> QED
    BY <1>w, <2>7, <2>8 DEF PipelineInv
<1>11. CASE WalCommit
  <2>1. \A r : CommandsOf(r) \subseteq CommandsOf(r)' /\ (Logged(r) => Logged(r)')
    <3>1. PICK x \in [rec : Record, ingress : Nat] : log' = Append(log, x.rec)
      BY <1>11, Committed
    <3>2. x.rec \in Record /\ log \in Seq(Record)
      BY DEF TypeOK
    <3> QED
      BY <3>1, <3>2, LogAppended
  <2>2. InBuffer' = InBuffer /\ Held' = Held /\ Executed(world)' = Executed(world)
    BY <1>11, HeldSame DEF WalCommit
  <2>3. pc \in Live /\ pc' = pc
    BY <1>11 DEF WalCommit
  <2>4. RecordInv'
    BY <1>0, <1>11, <2>1, <2>2 DEF WalCommit, RecordInv
  <2>5. HoldInv'
    BY <1>0, <1>11, <2>1, <2>2, <2>3 DEF WalCommit, HoldInv, Promised, Up, Live
  <2>6. NoCheckpoints'
    BY <1>0, <1>11 DEF WalCommit, NoCheckpoints
  <2> QED
    BY <1>w, <2>4, <2>5, <2>6 DEF PipelineInv
<1>12. CASE Publish \/ PublishFails
  BY <1>0, <1>12 DEF Publish, PublishFails, NoCheckpoints
<1>13. ASSUME MemoryLost, \A r : Logged(r) => Logged(r)', pc' \in {"down", "refused"},
              image' = image, told' = told
       PROVE  PipelineInv'
  <2>1. NoCheckpoints'
    BY <1>0, <1>13 DEF NoCheckpoints, MemoryLost
  <2>2. RecordInv'
    BY <1>13 DEF RecordInv, MemoryLost, InBuffer
  <2>3. HoldInv'
    BY <1>0, <1>13 DEF HoldInv, MemoryLost, Promised, Up, Live
  <2> QED
    BY <1>w, <2>1, <2>2, <2>3 DEF PipelineInv
<1>14. CASE Shutdown \/ Crash
  <2>1. PICK n \in 0..Len(queue) : log' = log \o [i \in 1..n |-> queue[i].rec]
    BY <1>14 DEF Shutdown, Crash
  <2>2. \A r : Logged(r) => Logged(r)'
    <3>1. [i \in 1..n |-> queue[i].rec] \in Seq(Record)
      BY FlushedType
    <3> QED
      BY <2>1, <3>1, LogGrows DEF TypeOK
  <2> QED
    BY <1>13, <1>14, <2>2 DEF Shutdown, Crash
<1>15. CASE ReplayDiverges \/ ReplayIncomplete
  <2>1. \A r : Logged(r) => Logged(r)'
    BY <1>15, LogSame DEF ReplayDiverges, ReplayIncomplete, Refuse
  <2> QED
    BY <1>13, <1>15, <2>1 DEF ReplayDiverges, ReplayIncomplete, Refuse
<1>16. CASE ExitRefused \/ ReplayTick
  <2>1. /\ \A q : CommandsOf(q)' = CommandsOf(q) /\ (Logged(q)' <=> Logged(q))
        /\ InBuffer' = InBuffer /\ Held' = Held /\ Executed(world)' = Executed(world)
    BY <1>16, LogSame, HeldSame DEF ExitRefused, ReplayTick
  <2>2. \/ pc = "refused" /\ pc' = "down"
        \/ pc = "replay" /\ pc' = "replay"
    BY <1>16 DEF ExitRefused, ReplayTick
  <2>3. UNCHANGED <<image, frozen, report, index, waiters, told>>
    BY <1>16 DEF ExitRefused, ReplayTick
  <2>4. NoCheckpoints' /\ RecordInv'
    BY <1>0, <2>1, <2>3 DEF NoCheckpoints, RecordInv
  <2>5. HoldInv'
    BY <1>0, <2>1, <2>2, <2>3 DEF HoldInv, Promised, Up, Live
  <2> QED
    BY <1>w, <2>4, <2>5 DEF PipelineInv
<1>17. CASE Restart
  <2>1. /\ \A q : CommandsOf(q)' = CommandsOf(q) /\ (Logged(q)' <=> Logged(q))
        /\ pc = "down" /\ pc' = "replay"
        /\ UNCHANGED <<log, image, frozen, report, index, waiters, told>>
    BY <1>17, LogSame DEF Restart
  <2>2. buffer' = {Replayed(l) : l \in CommandsAfter(0)}
    BY <1>0, <1>17 DEF Restart, NoCheckpoints, Base, Floor, Fresh, ToReplay
  <2>3. \A r \in Request : r \in InBuffer' <=> Logged(r)
    <3>1. \A l : Replayed(l).req = log[l].req
      BY DEF Replayed
    <3> HIDE DEF Replayed
    <3> QED
      BY <2>2, <3>1, PipelineConstants DEF InBuffer, Logged, CommandsOf
  <2>4. InBuffer' \subseteq Request
    BY SMTT(60) DEF InBuffer, TypeOK, Entry, SeedEntry
  <2>5. RecordInv'
    BY <1>0, <2>1, <2>3, <2>4 DEF RecordInv, QuietInv
  <2>6. HoldInv'
    BY <1>0, <2>1, <2>3 DEF HoldInv, Held, Promised, Up, Live
  <2>7. NoCheckpoints'
    BY <1>0, <2>1 DEF NoCheckpoints
  <2> QED
    BY <1>w, <2>5, <2>6, <2>7 DEF PipelineInv
<1>18. CASE EndReplay
  <2>1. /\ \A q : CommandsOf(q)' = CommandsOf(q) /\ (Logged(q)' <=> Logged(q))
        /\ InBuffer' = InBuffer /\ Held' = Held /\ Executed(world)' = Executed(world)
    BY <1>18, LogSame, HeldSame DEF EndReplay
  <2>2. /\ pc = "replay" /\ pc' = "outcomes"
        /\ index' = [r \in Request |-> RestoredEntry(r)]
        /\ UNCHANGED <<image, frozen, report, waiters, told>>
    BY <1>18 DEF EndReplay
  <2>3. \A r \in Request : index'[r].state \in Kept <=> Logged(r)
    BY <2>2, RestoredType DEF Logged, Kept, Final
  <2>4. HoldInv'
    BY <1>0, <2>1, <2>2, <2>3 DEF HoldInv, Promised, Up, Live
  <2>5. NoCheckpoints' /\ RecordInv'
    BY <1>0, <2>1, <2>2 DEF NoCheckpoints, RecordInv
  <2> QED
    BY <1>w, <2>4, <2>5 DEF PipelineInv
<1>19. CASE WriteOutcome
  <2>1. PICK i \in Unwritten :
           /\ log' = Append(log, OutcomeRec(report[i].req, report[i].ok))
           /\ index' = [index EXCEPT ![report[i].req].state = Verdict(report[i].ok)]
    BY <1>19 DEF WriteOutcome
  <2>2. /\ i \in DOMAIN report /\ report[i].req \in Request /\ report[i].ok \in BOOLEAN
    <3>1. i \in DOMAIN report /\ report[i] \in Result /\ report[i].lsn > Floor
      BY ElementOfSeq, LenProperties DEF Unwritten, TypeOK
    <3> QED
      BY <3>1, BaseType DEF Result
  <2>3. \A r : Logged(r)' <=> Logged(r)
    BY <2>1, <2>2, OutcomeLogged DEF TypeOK
  <2>4. /\ InBuffer' = InBuffer /\ Held' = Held /\ Executed(world)' = Executed(world)
    BY <1>19, HeldSame DEF WriteOutcome
  <2>5. /\ pc = "outcomes" /\ pc' = "outcomes"
        /\ UNCHANGED <<image, frozen, report, waiters, told>>
    BY <1>19 DEF WriteOutcome
  <2>6. Logged(report[i].req) /\ report[i].req \in Held
    BY <1>0, <2>2, PipelineConstants DEF RecordInv, Held
  <2>7. \A r \in Request : index'[r].state \in Kept <=> r = report[i].req \/ index[r].state \in Kept
    BY <2>1, <2>2 DEF TypeOK, Verdict, Kept, Final
  <2>8. HoldInv'
    BY <1>0, <2>3, <2>4, <2>5, <2>6, <2>7 DEF HoldInv, Promised, Up, Live
  <2>9. NoCheckpoints' /\ RecordInv'
    BY <1>0, <2>3, <2>4, <2>5 DEF NoCheckpoints, RecordInv
  <2> QED
    BY <1>w, <2>8, <2>9 DEF PipelineInv
<1>20. CASE Serve
  <2>1. /\ \A q : CommandsOf(q)' = CommandsOf(q) /\ (Logged(q)' <=> Logged(q))
        /\ Executed(world)' = Executed(world)
    BY <1>20, LogSame DEF Serve, Executed
  <2>2. /\ pc = "outcomes" /\ pc' = "step" /\ report' = <<>>
        /\ UNCHANGED <<log, image, frozen, index, waiters, told>>
    BY <1>20 DEF Serve
  <2>3. \/ buffer' = buffer
        \/ buffer' = {SeedEntry} /\ log = <<>>
    BY <1>20 DEF Serve
  <2>4. InBuffer' \subseteq InBuffer
    BY <2>3 DEF InBuffer, SeedEntry
  <2>5. \A r : Logged(r) => InBuffer' = InBuffer
    BY <2>3, EmptySeq DEF Logged, CommandsOf, CommandsAfter, InBuffer
  <2>6. HoldInv'
    BY <1>0, <2>1, <2>2, <2>5 DEF HoldInv, Held, Promised, Up, Live
  <2>7. NoCheckpoints' /\ RecordInv'
    BY <1>0, <2>1, <2>2, <2>4 DEF NoCheckpoints, RecordInv
  <2> QED
    BY <1>w, <2>6, <2>7 DEF PipelineInv
<1>21. CASE UNCHANGED vars
  <2>1. /\ \A q : CommandsOf(q)' = CommandsOf(q) /\ (Logged(q)' <=> Logged(q))
        /\ InBuffer' = InBuffer /\ Held' = Held /\ Executed(world)' = Executed(world)
    BY <1>21, LogSame, HeldSame DEF vars
  <2> QED
    BY <1>0, <1>21, <1>w, <2>1 DEF vars, PipelineInv, NoCheckpoints, RecordInv, HoldInv, Promised
<1> HIDE DEF disk, wal, sim, gateway
<1> QED
  BY <1>1, <1>2, <1>3, <1>4, <1>5, <1>7, <1>8, <1>9, <1>10, <1>11, <1>12, <1>14, <1>15, <1>16,
     <1>17, <1>18, <1>19, <1>20, <1>21
  DEF Next, MainThread, Recover, Client, PollOne

(* The first start satisfies the invariant.                                 *)
LEMMA InitPipeline == Init => WriterInv /\ PipelineInv
<1> SUFFICES ASSUME Init PROVE WriterInv /\ PipelineInv
  OBVIOUS
<1>1. NoCheckpoints /\ QuietInv
  BY DEF Init, NoCheckpoints, QuietInv, Absent, Live, Up
<1>2. RegistryInv /\ TicketInv /\ QueueInv
  BY DEF Init, RegistryInv, TicketInv, QueueInv
<1>3. RecordInv /\ HoldInv
  BY DEF Init, RecordInv, HoldInv, InBuffer, Promised, Live, Up
<1> QED
  BY <1>1, <1>2, <1>3 DEF PipelineInv, WriterInv

(* Without checkpoints, and for every number of requests, commands, kills,  *)
(* faults and queue places: a client that was told its command is durable   *)
(* or has a verdict (poll_durable_tickets, on_commands_applied) finds the   *)
(* command executed or in the buffer of every daemon that is up, after any  *)
(* restart.                                                                 *)
THEOREM PromisesSurvive ==
    ASSUME CheckpointEvery = 0
    PROVE  Spec => []PromisedIsKept
<1>1. Init => TypeOK /\ PipelineInv
  BY InitTypeOK, InitPipeline
<1>2. TypeOK /\ PipelineInv /\ [Next]_vars => TypeOK' /\ PipelineInv'
  BY TypeStep, PipelineStep
<1>3. PipelineInv => PromisedIsKept
  <2> SUFFICES ASSUME PipelineInv PROVE PromisedIsKept
    OBVIOUS
  <2>1. Promised \subseteq Request /\ HoldInv
    BY DEF Promised, PipelineInv
  <2> QED
    BY <2>1 DEF HoldInv, PromisedIsKept, Held, Up, Live
<1> QED
  BY <1>1, <1>2, <1>3, PTL DEF Spec

-----------------------------------------------------------------------------
(* Receipts and verdicts, for a daemon that takes no checkpoint.            *)

(* A command applied leaves the buffer for the end of the report.           *)
LEMMA Applied ==
    ASSUME TypeOK, ApplyCommand
    PROVE  \E e \in Due :
             /\ e \in Entry /\ e \in buffer
             /\ world' = RunOn(world, e) /\ buffer' = buffer \ {e}
             /\ \A i \in DOMAIN report : i \in DOMAIN report' /\ report'[i] = report[i]
             /\ \A i \in DOMAIN report' :
                  \/ i \in DOMAIN report /\ report'[i] = report[i]
                  \/ /\ report'[i].req = e.req /\ report'[i].ingress = e.ingress
                     /\ report'[i].lsn = e.lsn
<1>1. PICK e \in Due : /\ world' = RunOn(world, e) /\ buffer' = buffer \ {e}
                       /\ report' = Append(report, [req |-> e.req, ingress |-> e.ingress,
                                                    lsn |-> e.lsn, ok |-> Succeeds(world, e)])
  BY DEF ApplyCommand
<1> DEFINE o == [req |-> e.req, ingress |-> e.ingress, lsn |-> e.lsn, ok |-> Succeeds(world, e)]
<1>2. e \in Entry /\ e \in buffer
  BY DEF Due, TypeOK
<1>3. o \in Result
  BY <1>2, RunOnType DEF Entry, SeedEntry, Result, TypeOK
<1>4. /\ Len(report) \in Nat /\ DOMAIN report = 1..Len(report)
      /\ DOMAIN report' = 1..(Len(report) + 1)
      /\ \A i \in 1..Len(report) : report'[i] = report[i]
      /\ report'[Len(report) + 1] = o
  BY <1>1, <1>3, AppendProperties, LenProperties DEF TypeOK
<1>5. o.req = e.req /\ o.ingress = e.ingress /\ o.lsn = e.lsn
  OBVIOUS
<1> HIDE DEF o
<1> QED
  BY <1>1, <1>2, <1>4, <1>5

(* A replay has each of its commands once, in the buffer or in the report.  *)
LEMMA ReplayStep ==
    ASSUME TypeOK, NoCheckpoints, QuietInv, ReplayInv, [Next]_vars
    PROVE  ReplayInv'
<1> USE DEF disk, wal, sim, gateway
<1>1. CASE pc' \notin {"replay", "outcomes"}
  BY <1>1 DEF ReplayInv
<1>2. ASSUME log' = log PROVE CommandsAfter(0)' = CommandsAfter(0)
  BY <1>2 DEF CommandsAfter
<1>3. ASSUME UNCHANGED <<log, pc, buffer, report>> PROVE ReplayInv'
  BY <1>3, <1>2 DEF ReplayInv, Reported
<1>4. CASE ApplyCommand
  <2>1. PICK e \in Due :
           /\ e \in Entry /\ e \in buffer
           /\ world' = RunOn(world, e) /\ buffer' = buffer \ {e}
           /\ \A i \in DOMAIN report : i \in DOMAIN report' /\ report'[i] = report[i]
           /\ \A i \in DOMAIN report' :
                \/ i \in DOMAIN report /\ report'[i] = report[i]
                \/ /\ report'[i].req = e.req /\ report'[i].ingress = e.ingress
                   /\ report'[i].lsn = e.lsn
    BY <1>4, Applied
  <2>2. Reported' \subseteq Reported \cup {e.lsn}
    BY <2>1 DEF Reported
  <2>3. pc \in {"step", "replay"} /\ pc' = pc /\ log' = log
    BY <1>4 DEF ApplyCommand, Ticking
  <2> QED
    BY <1>2, <2>1, <2>2, <2>3 DEF ReplayInv
<1>5. CASE Restart
  <2>1. /\ buffer' = {Replayed(l) : l \in CommandsAfter(0)} /\ log' = log
        /\ pc' = "replay" /\ report' = <<>>
    BY <1>5 DEF Restart, NoCheckpoints, Base, Floor, Fresh, ToReplay, QuietInv
  <2>2. Reported' = {}
    BY <2>1 DEF Reported
  <2>3. \A e \in buffer' : e.lsn \in CommandsAfter(0) /\ e = Replayed(e.lsn)
    <3>1. \A l : Replayed(l).lsn = l
      BY DEF Replayed
    <3> HIDE DEF Replayed
    <3> QED
      BY <2>1, <3>1
  <2>4. \A d, e \in buffer' : d.lsn = e.lsn => d = e
    BY <2>3
  <2>5. CommandsAfter(0)' = CommandsAfter(0)
    BY <1>2, <2>1
  <2> HIDE DEF disk, wal, sim, gateway
  <2> QED
    BY <2>1, <2>2, <2>3, <2>4, <2>5 DEF ReplayInv
<1>6. CASE EndReplay
  <2>1. /\ pc = "replay" /\ pc' = "outcomes" /\ buffer' = buffer
        /\ CommandsAfter(0) \subseteq Reported
    BY <1>6 DEF EndReplay, NoCheckpoints, Base, Floor, Fresh, ToReplay
  <2> QED
    BY <2>1 DEF ReplayInv
<1>7. CASE ReplayTick
  BY <1>3, <1>7 DEF ReplayTick
<1>8. CASE WriteOutcome
  BY <1>8 DEF WriteOutcome, ReplayInv
<1>9. CASE UNCHANGED vars
  BY <1>3, <1>9 DEF vars
<1>10. CASE Recover /\ ~Restart /\ ~EndReplay /\ ~ReplayTick /\ ~WriteOutcome
  BY <1>1, <1>10 DEF Recover, ReplayDiverges, ReplayIncomplete, Refuse, Serve, ExitRefused
<1>11. CASE EndTick \/ SettleOutcome \/ StartPoll \/ EndPoll
  BY <1>1, <1>11 DEF EndTick, SettleOutcome, StartPoll, EndPoll
<1>12. CASE WalCommit \/ WalFault \/ Publish \/ PublishFails \/ StopSignal
  BY <1>1, <1>12 DEF WalCommit, WalFault, Publish, PublishFails, StopSignal, Live
<1>13. CASE Shutdown \/ Crash
  BY <1>1, <1>13 DEF Shutdown, Crash
<1>14. ASSUME NEW p \in pending, PollOne(p) PROVE ReplayInv'
  BY <1>1, <1>14 DEF PollOne, PollSkip, PollFailed, PollDurable
<1>15. ASSUME NEW r \in Request, NEW c \in Command, SubmitKnown(r, c) \/ SubmitNew(r, c)
       PROVE  ReplayInv'
  BY <1>1, <1>15 DEF SubmitKnown, SubmitNew, Serving
<1> HIDE DEF disk, wal, sim, gateway
<1> QED
  BY <1>4, <1>5, <1>6, <1>7, <1>8, <1>9, <1>10, <1>11, <1>12, <1>13, <1>14, <1>15
  DEF Next, MainThread, Client

(* Ingress sequences are handed on from ticket to receipt, and a command    *)
(* takes its own along through the buffer and the report.                   *)
LEMMA NumberStep ==
    ASSUME TypeOK, QuietInv, TicketInv, ReplayInv, NumberInv, [Next]_vars
    PROVE  NumberInv'
<1> USE DEF disk, wal, sim, gateway
<1>1. CASE pc' \notin Live
  <2>1. pending' = {} /\ waiters' = {} => NumberInv'
    BY <1>1 DEF NumberInv
  <2>2. CASE Shutdown \/ Crash \/ ReplayDiverges \/ ReplayIncomplete
    BY <2>1, <2>2 DEF Shutdown, Crash, ReplayDiverges, ReplayIncomplete, Refuse, MemoryLost
  <2>3. CASE UNCHANGED <<pc, ingress, pending, waiters>>
    BY <1>1, <2>3 DEF NumberInv
  <2>4. CASE Restart \/ ReplayTick \/ ExitRefused \/ EndReplay \/ WriteOutcome
    BY <2>1, <2>4 DEF Restart, ReplayTick, ExitRefused, EndReplay, WriteOutcome, QuietInv, Live
  <2>5. CASE UNCHANGED vars \/ ApplyCommand
    BY <2>3, <2>5 DEF vars, ApplyCommand
  <2>6. CASE EndTick \/ SettleOutcome \/ StartPoll \/ EndPoll \/ Serve
    BY <1>1, <2>6 DEF EndTick, SettleOutcome, StartPoll, EndPoll, Serve, Live
  <2>7. CASE WalCommit \/ WalFault \/ Publish \/ PublishFails \/ StopSignal
    BY <1>1, <2>7 DEF WalCommit, WalFault, Publish, PublishFails, StopSignal
  <2>8. ASSUME NEW p \in pending, PollOne(p) PROVE pc' \in Live
    BY <2>8 DEF PollOne, PollSkip, PollFailed, PollDurable, Live
  <2>9. ASSUME NEW r \in Request, NEW c \in Command, SubmitKnown(r, c) \/ SubmitNew(r, c)
        PROVE  pc' \in Live
    BY <2>9 DEF SubmitKnown, SubmitNew, Serving, Live
  <2> HIDE DEF disk, wal, sim, gateway
  <2> QED
    BY <1>1, <2>2, <2>4, <2>5, <2>6, <2>7, <2>8, <2>9 DEF Next, MainThread, Recover, Client
<1>2. CASE pc' \in Live /\ pc \notin Live
  <2>1. CASE Serve
    <3>1. /\ buffer' \subseteq {SeedEntry} /\ report' = <<>>
          /\ pending' = {} /\ waiters' = {} /\ ingress' \in Nat
      BY <2>1 DEF Serve, ReplayInv, QuietInv, Live, TypeOK
    <3>2. SeedEntry.ingress = 0
      BY DEF SeedEntry
    <3> HIDE DEF SeedEntry
    <3>3. \A e \in buffer' : e.ingress = 0
      BY <3>1, <3>2
    <3> QED
      BY <3>1, <3>3 DEF NumberInv, OwnNumber
  <2>2. CASE ~Serve
    <3>1. CASE Recover
      BY <1>2, <2>2, <3>1 DEF Recover, Restart, ReplayTick, ReplayDiverges, EndReplay,
                              ReplayIncomplete, Refuse, WriteOutcome, ExitRefused, Live
    <3>2. CASE ApplyCommand \/ EndTick \/ SettleOutcome \/ StartPoll \/ EndPoll \/ Shutdown
               \/ Crash \/ UNCHANGED vars
      BY <1>2, <3>2 DEF ApplyCommand, EndTick, SettleOutcome, StartPoll, EndPoll, Shutdown, Crash,
                        Serving, Live, vars
    <3>3. CASE WalCommit \/ WalFault \/ Publish \/ PublishFails \/ StopSignal
      BY <1>2, <3>3 DEF WalCommit, WalFault, Publish, PublishFails, StopSignal
    <3>4. ASSUME NEW p \in pending, PollOne(p) PROVE pc \in Live
      BY <3>4 DEF PollOne, PollSkip, PollFailed, PollDurable, Live
    <3>5. ASSUME NEW r \in Request, NEW c \in Command, SubmitKnown(r, c) \/ SubmitNew(r, c)
          PROVE  pc \in Live
      BY <3>5 DEF SubmitKnown, SubmitNew, Serving, Live
    <3> HIDE DEF disk, wal, sim, gateway
    <3> QED
      BY <1>2, <3>1, <3>2, <3>3, <3>4, <3>5 DEF Next, MainThread, Client
  <2> QED
    BY <2>1, <2>2
<1>3. CASE pc' \in Live /\ pc \in Live
  <2>0. /\ \A w \in waiters : w.ingress \in 1..ingress /\ \A p \in pending : p.ingress # w.ingress
        /\ \A v, w \in waiters : v.ingress = w.ingress => v = w
        /\ \A p, q \in pending : p.ingress = q.ingress => p = q
        /\ \A e \in buffer : OwnNumber(e)
        /\ \A i \in DOMAIN report : OwnNumber(report[i])
        /\ \A p \in pending : p.ingress \in 1..ingress
        /\ ingress \in Nat
    BY <1>3 DEF NumberInv, TicketInv, TypeOK
  <2>1. ASSUME ingress' = ingress, waiters' \subseteq waiters,
               \A q \in pending' : \E p \in pending : q.ingress = p.ingress,
               \A p, q \in pending' : p.ingress = q.ingress => p = q
        PROVE  /\ \A x : OwnNumber(x) => OwnNumber(x)'
               /\ buffer' \subseteq buffer => \A e \in buffer' : OwnNumber(e)'
               /\ \A w \in waiters' : /\ w.ingress \in 1..ingress'
                                      /\ \A p \in pending' : p.ingress # w.ingress
               /\ \A v, w \in waiters' : v.ingress = w.ingress => v = w
               /\ \A p, q \in pending' : p.ingress = q.ingress => p = q
    <3>1. \A x : OwnNumber(x) => OwnNumber(x)'
      BY <2>1 DEF OwnNumber
    <3> QED
      BY <2>0, <2>1, <3>1
  <2>2. ASSUME UNCHANGED <<ingress, pending>>, waiters' \subseteq waiters,
               buffer' \subseteq buffer,
               \A i \in DOMAIN report' : OwnNumber(report'[i])
        PROVE  NumberInv'
    <3>1. \A x : OwnNumber(x) => OwnNumber(x)'
      BY <2>0, <2>1, <2>2
    <3>2. \A i \in DOMAIN report' : OwnNumber(report[i])'
      BY <2>2 DEF OwnNumber
    <3> QED
      BY <2>0, <2>2, <3>1, <3>2 DEF NumberInv
  <2>3. ASSUME UNCHANGED <<ingress, pending, waiters, buffer, report>> PROVE NumberInv'
    BY <2>0, <2>3 DEF NumberInv, OwnNumber
  <2>4. CASE ApplyCommand
    <3>1. PICK e \in Due :
             /\ e \in buffer /\ buffer' = buffer \ {e}
             /\ \A i \in DOMAIN report' :
                  \/ i \in DOMAIN report /\ report'[i] = report[i]
                  \/ report'[i].req = e.req /\ report'[i].ingress = e.ingress
      BY <2>4, Applied
    <3>2. \A x, y : OwnNumber(x) /\ y.req = x.req /\ y.ingress = x.ingress => OwnNumber(y)
      BY DEF OwnNumber
    <3>3. \A i \in DOMAIN report' : OwnNumber(report'[i])
      BY <2>0, <3>1, <3>2
    <3> QED
      BY <2>2, <2>4, <3>1, <3>3 DEF ApplyCommand
  <2>5. CASE SettleOutcome
    <3>1. /\ report # <<>> /\ report' = Tail(report) /\ UNCHANGED <<ingress, pending, buffer>>
          /\ waiters' \subseteq waiters
      BY <2>5 DEF SettleOutcome
    <3>2. \A i \in DOMAIN report' : OwnNumber(report'[i])
      BY <2>0, <3>1, ReportTail
    <3> QED
      BY <2>2, <3>1, <3>2
  <2>6. ASSUME NEW r \in Request, NEW c \in Command, SubmitNew(r, c) PROVE NumberInv'
    <3> DEFINE t == [ingress |-> ingress', req |-> r, cmd |-> c, target |-> TargetOf(c),
                     ticket |-> Waiting]
    <3>1. /\ ingress' = ingress + 1 /\ UNCHANGED <<waiters, buffer, report>>
          /\ pending' = pending \cup {t}
      BY <2>6 DEF SubmitNew
    <3>2. t.ingress = ingress + 1
      BY <3>1
    <3> HIDE DEF t
    <3>3. (\A e \in buffer : e.ingress \in Nat) /\ \A i \in DOMAIN report : report[i].ingress \in Nat
      <4>1. \A i \in DOMAIN report : report[i] \in Result
        BY ElementOfSeq, LenProperties DEF TypeOK
      <4> QED
        BY <4>1 DEF TypeOK, Entry, SeedEntry, Result
    <3>4. \A x : OwnNumber(x) /\ x.ingress \in Nat => OwnNumber(x)'
      BY <2>0, <3>1, <3>2 DEF OwnNumber
    <3>5. /\ \A e \in buffer' : OwnNumber(e)'
          /\ \A i \in DOMAIN report' : OwnNumber(report[i])'
      <4>1. \A e \in buffer : OwnNumber(e)'
        BY <2>0, <3>3, <3>4
      <4>2. \A i \in DOMAIN report : OwnNumber(report[i])'
        <5> SUFFICES ASSUME NEW i \in DOMAIN report PROVE OwnNumber(report[i])'
          OBVIOUS
        <5>1. OwnNumber(report[i]) /\ report[i].ingress \in Nat /\ report' = report
          BY <2>0, <3>1, <3>3
        <5> QED
          BY <2>0, <3>1, <3>2, <5>1 DEF OwnNumber
      <4> QED
        BY <3>1, <4>1, <4>2
    <3>6. /\ \A w \in waiters' : /\ w.ingress \in 1..ingress'
                                 /\ \A p \in pending' : p.ingress # w.ingress
          /\ \A p, q \in pending' : p.ingress = q.ingress => p = q
      BY <2>0, <3>1, <3>2
    <3> QED
      BY <2>0, <3>1, <3>5, <3>6 DEF NumberInv
  <2>7. ASSUME NEW p \in pending, PollFailed(p) PROVE NumberInv'
    <3>1. UNCHANGED <<ingress, waiters, buffer, report>> /\ pending' = pending \ {p}
      BY <2>7 DEF PollFailed
    <3> QED
      BY <2>0, <3>1 DEF NumberInv, OwnNumber
  <2>8. ASSUME NEW p \in pending, PollDurable(p) PROVE NumberInv'
    <3> DEFINE w0 == [ingress |-> p.ingress, req |-> p.req]
    <3>1. /\ UNCHANGED <<ingress, report>> /\ pending' = pending \ {p}
          /\ waiters' = waiters \cup {w0}
          /\ buffer' = buffer \cup {EntryOf(p, nextSeq)}
      BY <2>0, <2>8 DEF PollDurable, Deliver
    <3>2. /\ w0.ingress = p.ingress /\ w0.req = p.req
          /\ EntryOf(p, nextSeq).ingress = p.ingress /\ EntryOf(p, nextSeq).req = p.req
      BY DEF EntryOf
    <3> HIDE DEF w0, EntryOf
    <3>3. \A x : OwnNumber(x) => OwnNumber(x)'
      BY <2>0, <3>1, <3>2 DEF OwnNumber
    <3>4. /\ \A w \in waiters' : /\ w.ingress \in 1..ingress'
                                 /\ \A q \in pending' : q.ingress # w.ingress
          /\ \A v, w \in waiters' : v.ingress = w.ingress => v = w
          /\ \A q, s \in pending' : q.ingress = s.ingress => q = s
      BY <2>0, <3>1, <3>2
    <3>5. \A e \in buffer' : OwnNumber(e)'
      <4>1. PICK e0 : e0 = EntryOf(p, nextSeq)
        OBVIOUS
      <4>2. OwnNumber(e0)'
        BY <2>0, <3>1, <3>2, <4>1 DEF OwnNumber
      <4>3. buffer' = buffer \cup {e0}
        BY <3>1, <4>1
      <4> QED
        BY <2>0, <3>3, <4>2, <4>3
    <3>6. \A i \in DOMAIN report' : OwnNumber(report[i])'
      BY <2>0, <3>1, <3>2 DEF OwnNumber
    <3> QED
      BY <3>4, <3>5, <3>6 DEF NumberInv
  <2>9. CASE WalCommit \/ WalFault
    <3>1. /\ \A q \in pending' : \E p \in pending : q.ingress = p.ingress
          /\ \A p, q \in pending' : p.ingress = q.ingress => p = q
      BY <2>0, <2>9, Committed, Faulted
    <3>2. UNCHANGED <<ingress, waiters, buffer, report>>
      BY <2>9 DEF WalCommit, WalFault
    <3> QED
      BY <2>0, <3>1, <3>2 DEF NumberInv, OwnNumber
  <2>10. CASE EndTick \/ StartPoll \/ EndPoll \/ Publish \/ PublishFails \/ StopSignal
    BY <2>3, <2>10 DEF EndTick, StartPoll, EndPoll, Publish, PublishFails, StopSignal
  <2>11. ASSUME NEW r \in Request, NEW c \in Command, SubmitKnown(r, c) PROVE NumberInv'
    BY <2>3, <2>11 DEF SubmitKnown
  <2>12. ASSUME NEW p \in pending, PollSkip(p) PROVE NumberInv'
    BY <2>3, <2>12 DEF PollSkip
  <2>13. CASE UNCHANGED vars
    BY <2>3, <2>13 DEF vars
  <2>14. CASE Recover \/ Shutdown \/ Crash
    BY <1>3, <2>14 DEF Recover, Restart, ReplayTick, ReplayDiverges, EndReplay, ReplayIncomplete,
                       WriteOutcome, ExitRefused, Serve, Shutdown, Crash, Live
  <2> HIDE DEF disk, wal, sim, gateway
  <2> QED
    BY <2>4, <2>5, <2>6, <2>7, <2>8, <2>9, <2>10, <2>11, <2>12, <2>13, <2>14
    DEF Next, MainThread, Client, PollOne
<1> QED
  BY <1>1, <1>2, <1>3

(* A verdict is written for a request whose outcome was reported, and       *)
(* reported outcomes are of executed commands.                              *)
LEMMA VerdictStep ==
    ASSUME TypeOK, PipelineInv, ReceiptInv, [Next]_vars
    PROVE  VerdictInv'
<1> USE DEF disk, wal, sim, gateway
<1>0. /\ NoCheckpoints /\ QuietInv /\ RecordInv /\ HoldInv
      /\ ReplayInv /\ NumberInv /\ VerdictInv
  BY DEF PipelineInv, WriterInv, ReceiptInv
<1>1. ASSUME pc' \in Up => pc \in Up /\ Executed(world) \subseteq Executed(world'),
             NEW q, \A r \in Request \ {q} : index'[r] = index[r],
             index'[q].state \in Final => q \in Executed(world')
      PROVE  VerdictInv'
  <2>1. ASSUME pc' \in Up, NEW r \in Request, index'[r].state \in Final
        PROVE  r \in Executed(world')
    BY <1>0, <1>1, <2>1 DEF VerdictInv
  <2> QED
    BY <2>1 DEF VerdictInv, Executed
<1>2. ASSUME pc' \in Up => pc \in Up, UNCHANGED <<world, index>> PROVE VerdictInv'
  BY <1>0, <1>2 DEF VerdictInv, Executed
<1>3. CASE ApplyCommand
  <2>1. PICK e \in Due : e \in Entry /\ world' = RunOn(world, e)
    BY <1>3, Applied
  <2>2. Executed(world) \subseteq Executed(world')
    BY <2>1, ExecutedRun DEF TypeOK
  <2>3. index' = index /\ pc' = pc
    BY <1>3 DEF ApplyCommand
  <2> QED
    BY <1>0, <2>2, <2>3 DEF VerdictInv, Executed
<1>4. CASE SettleOutcome
  <2>1. pc = "settle" /\ pc' = "settle" /\ world' = world /\ report # <<>>
    BY <1>4 DEF SettleOutcome
  <2>2. CASE WaitersOf(Head(report)) = {}
    BY <1>2, <1>4, <2>1, <2>2 DEF SettleOutcome
  <2>3. CASE WaitersOf(Head(report)) # {}
    <3>1. PICK w \in WaitersOf(Head(report)) :
             index' = [index EXCEPT ![w.req].state = Verdict(Head(report).ok)]
      BY <1>4, <2>3 DEF SettleOutcome
    <3>2. 1 \in DOMAIN report /\ Head(report) = report[1]
      BY <2>1, LenProperties, EmptySeq DEF TypeOK
    <3>3. w.req \in Request /\ w.req = report[1].req
      BY <1>0, <2>1, <3>2 DEF NumberInv, OwnNumber, WaitersOf, TypeOK, Live
    <3>4. w.req \in Executed(world)
      BY <1>0, <3>2, <3>3, PipelineConstants DEF RecordInv
    <3>5. \A r \in Request \ {w.req} : index'[r] = index[r]
      BY <3>1, <3>3 DEF TypeOK
    <3> QED
      BY <1>1, <2>1, <3>4, <3>5 DEF Up, Live
  <2> QED
    BY <2>2, <2>3
<1>5. ASSUME NEW r \in Request, NEW c \in Command, SubmitNew(r, c) PROVE VerdictInv'
  <2>1. /\ index'[r].state = "pending" /\ \A q \in Request \ {r} : index'[q] = index[q]
        /\ UNCHANGED <<pc, world>>
    BY <1>5 DEF SubmitNew, Register, TypeOK
  <2> QED
    BY <1>1, <2>1 DEF Final
<1>6. ASSUME NEW p \in pending, PollFailed(p) \/ PollDurable(p) PROVE VerdictInv'
  <2>1. /\ p.req \in Request /\ index'[p.req].state \in {"absent", "durable"}
        /\ \A q \in Request \ {p.req} : index'[q] = index[q]
        /\ UNCHANGED <<pc, world>>
    BY <1>6 DEF PollFailed, PollDurable, TypeOK, Ticket
  <2> QED
    BY <1>1, <2>1 DEF Final
<1>7. CASE EndReplay
  <2>1. /\ pc = "replay" /\ pc' = "outcomes" /\ world' = world
        /\ index' = [r \in Request |-> RestoredEntry(r)]
        /\ CommandsAfter(0) \subseteq Reported
    BY <1>0, <1>7 DEF EndReplay, NoCheckpoints, Base, Floor, Fresh, ToReplay
  <2>2. buffer = {}
    BY <1>0, <2>1 DEF ReplayInv
  <2>3. \A r \in Request : Logged(r) => r \in Executed(world)
    BY <1>0, <2>1, <2>2 DEF HoldInv, Held, InBuffer
  <2>4. \A r \in Request : index'[r].state \in Final => Logged(r)
    BY <2>1, RestoredType DEF Logged, Final
  <2> QED
    BY <2>1, <2>3, <2>4 DEF VerdictInv, Executed
<1>8. CASE WriteOutcome
  <2>1. PICK i \in Unwritten :
           index' = [index EXCEPT ![report[i].req].state = Verdict(report[i].ok)]
    BY <1>8 DEF WriteOutcome
  <2>2. i \in DOMAIN report /\ report[i].req \in Request
    <3>1. i \in DOMAIN report /\ report[i] \in Result /\ report[i].lsn > Floor
      BY ElementOfSeq, LenProperties DEF Unwritten, TypeOK
    <3> QED
      BY <3>1, BaseType DEF Result
  <2>3. report[i].req \in Executed(world)
    BY <1>0, <2>2, PipelineConstants DEF RecordInv
  <2>4. pc = "outcomes" /\ world' = world
    BY <1>8 DEF WriteOutcome
  <2>5. \A r \in Request \ {report[i].req} : index'[r] = index[r]
    BY <2>1, <2>2 DEF TypeOK
  <2> QED
    BY <1>1, <2>3, <2>4, <2>5 DEF Up
<1>9. CASE pc' \notin Up
  BY <1>9 DEF VerdictInv
<1>10. CASE Recover /\ ~EndReplay /\ ~WriteOutcome /\ ~Serve
  BY <1>9, <1>10 DEF Recover, Restart, ReplayTick, ReplayDiverges, ReplayIncomplete, Refuse,
                     ExitRefused, Up, Live
<1>11. CASE Serve
  BY <1>2, <1>11 DEF Serve, Up
<1>12. CASE Shutdown \/ Crash
  BY <1>9, <1>12 DEF Shutdown, Crash, Up, Live
<1>13. CASE EndTick \/ StartPoll \/ EndPoll
  BY <1>2, <1>13 DEF EndTick, StartPoll, EndPoll, Serving, Up, Live
<1>14. CASE WalCommit \/ WalFault \/ Publish \/ PublishFails \/ StopSignal
  BY <1>2, <1>14 DEF WalCommit, WalFault, Publish, PublishFails, StopSignal
<1>15. ASSUME NEW r \in Request, NEW c \in Command, SubmitKnown(r, c) PROVE VerdictInv'
  BY <1>2, <1>15 DEF SubmitKnown
<1>16. ASSUME NEW p \in pending, PollSkip(p) PROVE VerdictInv'
  BY <1>2, <1>16 DEF PollSkip
<1>17. CASE UNCHANGED vars
  BY <1>2, <1>17 DEF vars
<1> HIDE DEF disk, wal, sim, gateway
<1> QED
  BY <1>3, <1>4, <1>5, <1>6, <1>7, <1>8, <1>10, <1>11, <1>12, <1>13, <1>14, <1>15, <1>16, <1>17
  DEF Next, MainThread, Recover, Client, PollOne

(* The two invariants together are inductive.                               *)
LEMMA ReceiptStep ==
    ASSUME CheckpointEvery = 0, TypeOK, PipelineInv, ReceiptInv, [Next]_vars
    PROVE  TypeOK' /\ PipelineInv' /\ ReceiptInv'
<1>1. TypeOK' /\ PipelineInv'
  BY TypeStep, PipelineStep
<1>2. /\ NoCheckpoints /\ QuietInv /\ TicketInv /\ ReplayInv /\ NumberInv
  BY DEF PipelineInv, WriterInv, ReceiptInv
<1>3. ReplayInv' /\ NumberInv' /\ VerdictInv'
  BY <1>2, ReplayStep, NumberStep, VerdictStep
<1> QED
  BY <1>1, <1>3 DEF ReceiptInv

LEMMA InitReceipt == Init => ReceiptInv
BY DEF Init, ReceiptInv, ReplayInv, NumberInv, VerdictInv, Absent, Live, Up

(* Without checkpoints, and for every number of requests, commands, kills   *)
(* and faults: on_commands_applied() finds by ingress sequence the receipt  *)
(* of the command that ran, although the sequence restarts with the process *)
(* and replayed commands carry their LSN.                                   *)
THEOREM ReceiptsAreOwn ==
    ASSUME CheckpointEvery = 0
    PROVE  Spec => []ReceiptIsOwn
<1>1. Init => TypeOK /\ PipelineInv /\ ReceiptInv
  BY InitTypeOK, InitPipeline, InitReceipt
<1>2. TypeOK /\ PipelineInv /\ ReceiptInv /\ [Next]_vars
        => TypeOK' /\ PipelineInv' /\ ReceiptInv'
  BY ReceiptStep
<1>3. TypeOK /\ ReceiptInv => ReceiptIsOwn
  <2> SUFFICES ASSUME TypeOK, ReceiptInv, pc = "settle", report # <<>>,
                      NEW w \in WaitersOf(Head(report))
               PROVE  w.req = Head(report).req
    BY DEF ReceiptIsOwn
  <2>1. 1 \in DOMAIN report /\ Head(report) = report[1]
    BY LenProperties, EmptySeq DEF TypeOK
  <2> QED
    BY <2>1 DEF ReceiptInv, NumberInv, OwnNumber, WaitersOf, Live
<1> QED
  BY <1>1, <1>2, <1>3, PTL DEF Spec

(* Without checkpoints a verdict in the registry of a serving daemon, given *)
(* by this process (resolve_outcome) or read from the log of an earlier one *)
(* (DurableIdempotencyIndex::restore), is of a command this world executed. *)
THEOREM VerdictsAreExecuted ==
    ASSUME CheckpointEvery = 0
    PROVE  Spec => []VerdictMeansExecuted
<1>1. Init => TypeOK /\ PipelineInv /\ ReceiptInv
  BY InitTypeOK, InitPipeline, InitReceipt
<1>2. TypeOK /\ PipelineInv /\ ReceiptInv /\ [Next]_vars
        => TypeOK' /\ PipelineInv' /\ ReceiptInv'
  BY ReceiptStep
<1>3. ReceiptInv => VerdictMeansExecuted
  BY DEF ReceiptInv, VerdictInv, VerdictMeansExecuted, Up
<1> QED
  BY <1>1, <1>2, <1>3, PTL DEF Spec

-----------------------------------------------------------------------------
(* At most one execution, and a registry that remembers, with and without   *)
(* checkpoints.                                                             *)

(* One more record, and what a stop leaves of the queue, add to the log     *)
(* commands that were on their way.                                         *)
LEMMA LogOneMore ==
    ASSUME NEW x \in Record, log \in Seq(Record), log' = Append(log, x)
    PROVE  \A r : CommandsOf(r)' = CommandsOf(r) \cup
                    (IF x.kind = "command" /\ x.req = r THEN {Len(log) + 1} ELSE {})
<1>1. /\ Len(log) \in Nat
      /\ DOMAIN log = 1..Len(log) /\ DOMAIN log' = 1..(Len(log) + 1)
      /\ \A l \in 1..Len(log) : log'[l] = log[l]
      /\ log'[Len(log) + 1] = x
  BY AppendProperties, LenProperties
<1> QED
  BY <1>1 DEF CommandsOf, CommandsAfter

LEMMA LogFlushed ==
    ASSUME TypeOK, NEW n \in 0..Len(queue), log' = log \o [i \in 1..n |-> queue[i].rec]
    PROVE  \A r : /\ CommandsOf(r) \subseteq CommandsOf(r)'
                  /\ \A l \in CommandsOf(r)' :
                       \/ l \in CommandsOf(r)
                       \/ \E i \in DOMAIN queue :
                            l = Len(log) + i /\ IsCommand(i) /\ queue[i].rec.req = r
<1> DEFINE s == [i \in 1..n |-> queue[i].rec]
<1>1. /\ n \in Nat /\ Len(queue) \in Nat /\ DOMAIN queue = 1..Len(queue)
      /\ \A i \in 1..n : i \in DOMAIN queue
  BY LenProperties DEF TypeOK
<1>2. /\ s \in Seq(Record) /\ Len(s) = n /\ log \in Seq(Record) /\ Len(log) \in Nat
      /\ \A i \in 1..n : s[i] = queue[i].rec
  <2>1. \A i \in 1..Len(queue) : queue[i] \in [rec : Record, ingress : Nat]
    BY ElementOfSeq DEF TypeOK
  <2>2. s \in [1..n -> Record]
    BY <1>1, <2>1
  <2>3. s \in Seq(Record)
    BY <1>1, <2>2, SeqDef
  <2>4. Len(s) = n
    <3> HIDE DEF s
    <3>1. DOMAIN s = 1..Len(s) /\ Len(s) \in Nat /\ DOMAIN s = 1..n
      BY <2>2, <2>3, LenProperties
    <3> DEFINE m == Len(s)
    <3>2. m \in Nat /\ 1..m = 1..n
      BY <3>1, Zenon
    <3> HIDE DEF m
    <3>3. ~(m < n)
      <4>1. n \in 1..n => n \in 1..m
        BY <3>2
      <4> QED
        BY <1>1, <3>2, <4>1
    <3>4. ~(n < m)
      <4>1. m \in 1..m => m \in 1..n
        BY <3>2
      <4> QED
        BY <1>1, <3>2, <4>1
    <3>5. m = n
      BY <1>1, <3>2, <3>3, <3>4
    <3> QED
      BY <3>5 DEF m
  <2>5. log \in Seq(Record) /\ Len(log) \in Nat
    BY LenProperties DEF TypeOK
  <2> QED
    BY <2>3, <2>4, <2>5
<1>3. log' = log \o s
  OBVIOUS
<1> HIDE DEF s
<1>4. /\ DOMAIN log = 1..Len(log) /\ DOMAIN log' = 1..(Len(log) + n)
      /\ \A l \in 1..Len(log) : log'[l] = log[l]
      /\ \A l \in (Len(log) + 1)..(Len(log) + n) : log'[l] = s[l - Len(log)]
  <2>1. /\ log \o s \in Seq(Record) /\ Len(log \o s) = Len(log) + Len(s)
        /\ \A l \in 1..Len(log) + Len(s) :
             (log \o s)[l] = IF l <= Len(log) THEN log[l] ELSE s[l - Len(log)]
    BY <1>2, ConcatProperties
  <2> QED
    BY <1>2, <1>3, <2>1, LenProperties
<1>5. \A r : CommandsOf(r) \subseteq CommandsOf(r)'
  BY <1>1, <1>2, <1>4 DEF CommandsOf, CommandsAfter
<1>6. ASSUME NEW r, NEW l \in CommandsOf(r)', l \notin CommandsOf(r)
      PROVE  \E i \in DOMAIN queue : l = Len(log) + i /\ IsCommand(i) /\ queue[i].rec.req = r
  <2>1. l \in 1..(Len(log) + n) /\ log'[l].kind = "command" /\ log'[l].req = r
    BY <1>4, <1>6 DEF CommandsOf, CommandsAfter
  <2>2. l \notin 1..Len(log)
    BY <1>4, <1>6, <2>1 DEF CommandsOf, CommandsAfter
  <2>3. /\ l - Len(log) \in 1..n /\ log'[l] = queue[l - Len(log)].rec
        /\ l = Len(log) + (l - Len(log))
    BY <1>1, <1>2, <1>4, <2>1, <2>2
  <2> QED
    BY <1>1, <2>1, <2>3 DEF IsCommand
<1> QED
  BY <1>5, <1>6

(* The log gets a command of a request that has none, or no command.        *)
LEMMA LogStep ==
    ASSUME TypeOK, OneRecordInv, [Next]_vars
    PROVE  /\ \A r : Logged(r) => CommandsOf(r)' = CommandsOf(r) /\ Logged(r)'
           /\ \A r \in Request : \A k, l \in CommandsOf(r)' : k = l
<1> USE DEF disk, wal, sim, gateway
<1>1. CASE log' = log
  BY <1>1, LogSame DEF OneRecordInv
<1>2. CASE WalCommit
  <2>1. PICK x \in [rec : Record, ingress : Nat] :
           1 \in DOMAIN queue /\ queue[1] = x /\ log' = Append(log, x.rec)
    BY <1>2, Committed
  <2>2. \A r : CommandsOf(r)' = CommandsOf(r) \cup
                 (IF x.rec.kind = "command" /\ x.rec.req = r THEN {Len(log) + 1} ELSE {})
    <3>1. x.rec \in Record /\ log \in Seq(Record)
      BY DEF TypeOK
    <3> QED
      BY <2>1, <3>1, LogOneMore
  <2>3. x.rec.kind = "command" => CommandsOf(x.rec.req) = {}
    BY <2>1 DEF OneRecordInv, IsCommand, Logged
  <2> QED
    BY <2>2, <2>3 DEF OneRecordInv, Logged
<1>3. CASE Shutdown \/ Crash
  <2>1. PICK n \in 0..Len(queue) : log' = log \o [i \in 1..n |-> queue[i].rec]
    BY <1>3 DEF Shutdown, Crash
  <2>2. \A r : /\ CommandsOf(r) \subseteq CommandsOf(r)'
               /\ \A l \in CommandsOf(r)' :
                    \/ l \in CommandsOf(r)
                    \/ \E i \in DOMAIN queue :
                         l = Len(log) + i /\ IsCommand(i) /\ queue[i].rec.req = r
    BY <2>1, LogFlushed
  <2>3. \A r : Logged(r) => CommandsOf(r)' = CommandsOf(r)
    <3>1. \A i \in DOMAIN queue : IsCommand(i) => ~Logged(queue[i].rec.req)
      BY DEF OneRecordInv
    <3> SUFFICES ASSUME NEW r, Logged(r) PROVE CommandsOf(r)' = CommandsOf(r)
      OBVIOUS
    <3>2. CommandsOf(r)' \subseteq CommandsOf(r)
      BY <2>2, <3>1
    <3>3. CommandsOf(r) \subseteq CommandsOf(r)'
      BY <2>2
    <3> QED
      BY <3>2, <3>3
  <2>4. ASSUME NEW r \in Request, NEW k \in CommandsOf(r)', NEW l \in CommandsOf(r)'
        PROVE  k = l
    <3>1. CASE Logged(r)
      BY <2>3, <2>4, <3>1 DEF OneRecordInv
    <3>2. CASE ~Logged(r)
      BY <2>2, <2>4, <3>2 DEF OneRecordInv, Logged
    <3> QED
      BY <3>1, <3>2
  <2> QED
    BY <2>3, <2>4 DEF Logged
<1>4. CASE WriteOutcome
  <2>1. PICK i \in Unwritten : log' = Append(log, OutcomeRec(report[i].req, report[i].ok))
    BY <1>4 DEF WriteOutcome
  <2>2. report[i].req \in Request /\ report[i].ok \in BOOLEAN
    <3>1. report[i] \in Result /\ report[i].lsn > Floor
      BY ElementOfSeq, LenProperties DEF Unwritten, TypeOK
    <3> QED
      BY <3>1, BaseType DEF Result
  <2>3. \A q : CommandsOf(q)' = CommandsOf(q) /\ (Logged(q)' <=> Logged(q))
    BY <2>1, <2>2, OutcomeLogged DEF TypeOK
  <2> QED
    BY <2>3 DEF OneRecordInv
<1>5. CASE Recover /\ ~WriteOutcome
  BY <1>1, <1>5 DEF Recover, Restart, ReplayTick, ReplayDiverges, EndReplay, ReplayIncomplete,
                    Refuse, Serve, ExitRefused
<1>6. CASE ApplyCommand \/ EndTick \/ SettleOutcome \/ StartPoll \/ EndPoll
  BY <1>1, <1>6 DEF ApplyCommand, EndTick, SettleOutcome, StartPoll, EndPoll
<1>7. CASE WalFault \/ Publish \/ PublishFails \/ StopSignal \/ UNCHANGED vars
  BY <1>1, <1>7 DEF WalFault, Publish, PublishFails, StopSignal, vars
<1>8. ASSUME NEW p \in pending, PollOne(p) PROVE log' = log
  BY <1>8 DEF PollOne, PollSkip, PollFailed, PollDurable
<1>9. ASSUME NEW r \in Request, NEW c \in Command, SubmitKnown(r, c) \/ SubmitNew(r, c)
      PROVE  log' = log
  BY <1>9 DEF SubmitKnown, SubmitNew
<1> HIDE DEF disk, wal, sim, gateway
<1> QED
  BY <1>1, <1>2, <1>3, <1>4, <1>5, <1>6, <1>7, <1>8, <1>9 DEF Next, MainThread, Client

(* A record on its way is of a request without a record, which the registry *)
(* still waits for or has given up after a fault.                           *)
LEMMA OneRecordStep ==
    ASSUME TypeOK, WriterInv, OneRecordInv, OpenInv, KnownInv, [Next]_vars
    PROVE  OneRecordInv'
<1> USE DEF disk, wal, sim, gateway
<1>0. RegistryInv /\ QuietInv /\ TicketInv /\ QueueInv
  BY DEF WriterInv
<1> DEFINE Open(r) == index[r].state = "pending" \/ (index[r].state = "absent" /\ fault)
<1>1. ASSUME \A i \in DOMAIN queue' : queue'[i].rec.kind = "command" =>
                /\ ~Logged(queue[i].rec.req)'
                /\ Open(queue[i].rec.req)'
                /\ \A p \in pending' : p.req = queue'[i].rec.req => p.ingress = queue'[i].ingress,
             \A i, j \in DOMAIN queue' :
                /\ queue'[i].rec.kind = "command" /\ queue'[j].rec.kind = "command"
                /\ queue'[i].rec.req = queue'[j].rec.req
                => i = j
      PROVE  OneRecordInv'
  <2> HIDE DEF disk, wal, sim, gateway
  <2> QED
    BY <1>1, LogStep DEF OneRecordInv, IsCommand
<1>2. /\ \A i \in DOMAIN queue : queue[i].rec.kind = "command" =>
           /\ queue[i].rec.req \in Request
           /\ ~Logged(queue[i].rec.req) /\ Open(queue[i].rec.req)
           /\ \A p \in pending : p.req = queue[i].rec.req => p.ingress = queue[i].ingress
      /\ \A i, j \in DOMAIN queue :
           /\ queue[i].rec.kind = "command" /\ queue[j].rec.kind = "command"
           /\ queue[i].rec.req = queue[j].rec.req
           => i = j
  <2>1. \A i \in DOMAIN queue : queue[i].rec \in Record
    <3>1. \A i \in DOMAIN queue : queue[i] \in [rec : Record, ingress : Nat]
      BY ElementOfSeq, LenProperties DEF TypeOK
    <3> QED
      BY <3>1
  <2>2. \A i \in DOMAIN queue : queue[i].rec.kind = "command" => queue[i].rec.req \in Request
    BY <2>1, RecordFields
  <2> HIDE DEF disk, wal, sim, gateway
  <2> QED
    BY <2>2 DEF OneRecordInv, IsCommand
<1> HIDE DEF Open
<1>3. ASSUME log' = log,
             \A i \in DOMAIN queue' : queue'[i].rec.kind = "command" =>
                i \in DOMAIN queue /\ queue'[i] = queue[i],
             \A r \in Request : Open(r) /\ ~Logged(r) => Open(r)',
             \A q \in pending' : \E p \in pending : q.req = p.req /\ q.ingress = p.ingress
      PROVE  OneRecordInv'
  <2>1. \A r : Logged(r)' <=> Logged(r)
    BY <1>3, LogSame
  <2>2. \A i \in DOMAIN queue' : queue'[i].rec.kind = "command" =>
           /\ ~Logged(queue[i].rec.req)'
           /\ Open(queue[i].rec.req)'
           /\ \A p \in pending' : p.req = queue'[i].rec.req => p.ingress = queue'[i].ingress
    <3> SUFFICES ASSUME NEW i \in DOMAIN queue', queue'[i].rec.kind = "command"
                 PROVE  /\ ~Logged(queue[i].rec.req)'
                        /\ Open(queue[i].rec.req)'
                        /\ \A p \in pending' :
                             p.req = queue'[i].rec.req => p.ingress = queue'[i].ingress
      OBVIOUS
    <3>1. PICK r : r = queue[i].rec.req
      OBVIOUS
    <3>2. i \in DOMAIN queue /\ queue'[i] = queue[i] /\ queue[i].rec.kind = "command"
      BY <1>3
    <3>3. r \in Request /\ ~Logged(r) /\ Open(r) /\ queue'[i].rec.req = r
      BY <1>2, <3>1, <3>2
    <3>4. ~Logged(r)' /\ Open(r)'
      BY <1>3, <2>1, <3>3
    <3>5. ~Logged(queue[i].rec.req)'
      BY <3>3, <3>4 DEF Logged, CommandsOf, CommandsAfter
    <3>6. Open(queue[i].rec.req)'
      BY <3>3, <3>4 DEF Open
    <3>7. \A p \in pending' : p.req = queue'[i].rec.req => p.ingress = queue'[i].ingress
      BY <1>2, <1>3, <3>2
    <3> QED
      BY <3>5, <3>6, <3>7
  <2> QED
    BY <1>1, <1>2, <1>3, <2>2
<1>4. ASSUME UNCHANGED <<log, queue, fault, index, pending>> PROVE OneRecordInv'
  <2>1. \A r \in Request : Open(r) /\ ~Logged(r) => Open(r)'
    BY <1>4 DEF Open
  <2> QED
    BY <1>3, <1>4, <2>1
<1>5. ASSUME queue' = <<>> PROVE OneRecordInv'
  BY <1>1, <1>5
<1>6. CASE pc \notin Live /\ queue' = queue
  BY <1>0, <1>5, <1>6 DEF QuietInv
<1>7. ASSUME NEW rec \in Record, rec.kind # "command",
             queue' = queue \/ queue' = Offered([rec |-> rec, ingress |-> 0])
      PROVE  \A i \in DOMAIN queue' : queue'[i].rec.kind = "command" =>
                i \in DOMAIN queue /\ queue'[i] = queue[i]
  <2> DEFINE x == [rec |-> rec, ingress |-> 0]
  <2>1. CASE queue' = queue
    BY <2>1
  <2>2. CASE queue' = Append(queue, x)
    <3>1. x \in [rec : Record, ingress : Nat] /\ x.rec = rec
      OBVIOUS
    <3> HIDE DEF x
    <3> QED
      BY <1>7, <2>2, <3>1, QueueAppended
  <2> QED
    BY <1>7, <2>1, <2>2 DEF Offered
<1>8. CASE EndTick
  <2>1. HashRec(clock, world) \in Record /\ HashRec(clock, world).kind # "command"
    BY RecordsMade DEF TypeOK, HashRec
  <2>2. UNCHANGED <<log, fault, index, pending>>
    BY <1>8 DEF EndTick
  <2>3. \A i \in DOMAIN queue' : queue'[i].rec.kind = "command" =>
           i \in DOMAIN queue /\ queue'[i] = queue[i]
    BY <1>7, <1>8, <2>1 DEF EndTick
  <2>4. \A r \in Request : Open(r) /\ ~Logged(r) => Open(r)'
    BY <2>2 DEF Open
  <2> QED
    BY <1>3, <2>2, <2>3, <2>4
<1>9. CASE SettleOutcome
  <2>1. CASE WaitersOf(Head(report)) = {}
    BY <1>4, <1>9, <2>1 DEF SettleOutcome
  <2>2. CASE WaitersOf(Head(report)) # {}
    <3> DEFINE o == Head(report)
    <3>1. PICK w \in WaitersOf(o) :
             /\ index' = [index EXCEPT ![w.req].state = Verdict(o.ok)]
             /\ queue' = Offered([rec |-> OutcomeRec(w.req, o.ok), ingress |-> 0])
      BY <1>9, <2>2 DEF SettleOutcome
    <3>2. /\ w.req \in Request /\ o.ok \in BOOLEAN /\ index[w.req].state = "durable"
      BY <1>0, <1>9, HeadTailProperties
      DEF SettleOutcome, WaitersOf, TypeOK, Result, RegistryInv
    <3> HIDE DEF o
    <3>3. OutcomeRec(w.req, o.ok) \in Record /\ OutcomeRec(w.req, o.ok).kind # "command"
      BY <3>2, RecordsMade DEF OutcomeRec
    <3>4. UNCHANGED <<log, fault, pending>>
      BY <1>9 DEF SettleOutcome
    <3>5. \A i \in DOMAIN queue' : queue'[i].rec.kind = "command" =>
             i \in DOMAIN queue /\ queue'[i] = queue[i]
      BY <1>7, <3>1, <3>3
    <3>6. \A r \in Request : Open(r) /\ ~Logged(r) => Open(r)'
      BY <3>1, <3>2, <3>4 DEF Open, TypeOK
    <3> QED
      BY <1>3, <3>4, <3>5, <3>6
  <2> QED
    BY <2>1, <2>2
<1>10. ASSUME NEW r \in Request, NEW c \in Command, SubmitNew(r, c) PROVE OneRecordInv'
  <2> DEFINE rec == CommandRec(r, c, TargetOf(c))
             x == [rec |-> rec, ingress |-> ingress + 1]
             t == [ingress |-> ingress + 1, req |-> r, cmd |-> c, target |-> TargetOf(c),
                   ticket |-> Waiting]
  <2>1. /\ index[r].state = "absent" /\ index'[r].state = "pending"
        /\ \A q \in Request \ {r} : index'[q] = index[q]
        /\ pc = "settle" /\ ~fault /\ UNCHANGED <<log, fault>>
        /\ pending' = pending \cup {t} /\ queue' = Append(queue, x)
    BY <1>10 DEF SubmitNew, Serving, Unknown, Register, TypeOK
  <2>2. /\ t.ingress = ingress + 1 /\ t.req = r
        /\ x.ingress = ingress + 1 /\ rec.kind = "command" /\ rec.req = r /\ x.rec = rec
    BY DEF CommandRec
  <2> HIDE DEF t, rec
  <2>3. x \in [rec : Record, ingress : Nat]
    <3>1. TargetOf(c) \in Nat
      BY <1>10, PipelineConstants DEF SubmitNew, TargetOf, TypeOK
    <3> QED
      BY <3>1, RecordsMade DEF TypeOK, rec
  <2> HIDE DEF x
  <2>4. ~Logged(r)
    BY <2>1 DEF KnownInv, Up, Live
  <2>5. \A q : Logged(q)' <=> Logged(q)
    BY <2>1, LogSame
  <2>6. /\ DOMAIN queue = 1..Len(queue) /\ Len(queue) \in Nat
        /\ DOMAIN queue' = 1..(Len(queue) + 1)
        /\ \A i \in 1..Len(queue) : queue'[i] = queue[i]
        /\ queue'[Len(queue) + 1] = x
    BY <2>1, <2>3, QueueAppended
  <2>7. \A i \in DOMAIN queue : queue[i].rec.kind = "command" =>
           queue[i].rec.req \in Request \ {r} /\ index[queue[i].rec.req].state = "pending"
    BY <1>2, <2>1 DEF Open
  <2>8. \A p \in pending : p.req \in Request \ {r}
    BY <1>0, <2>1 DEF TicketInv, TypeOK, Ticket
  <2>9. ASSUME NEW i \in DOMAIN queue', queue'[i].rec.kind = "command"
        PROVE  /\ ~Logged(queue[i].rec.req)'
               /\ Open(queue[i].rec.req)'
               /\ \A p \in pending' : p.req = queue'[i].rec.req => p.ingress = queue'[i].ingress
    <3>1. CASE i \in DOMAIN queue
      <4>1. queue'[i] = queue[i]
        BY <2>6, <3>1
      <4>2. PICK q : q = queue[i].rec.req
        OBVIOUS
      <4>3. q \in Request \ {r} /\ index[q].state = "pending" /\ ~Logged(q)
        BY <1>2, <2>7, <2>9, <3>1, <4>1, <4>2
      <4>4. index'[q].state = "pending" /\ ~Logged(q)'
        BY <2>1, <2>5, <4>3
      <4>5. ~Logged(queue[i].rec.req)' /\ Open(queue[i].rec.req)'
        BY <4>1, <4>2, <4>4 DEF Open, Logged, CommandsOf, CommandsAfter
      <4>6. \A p \in pending' : p.req = queue'[i].rec.req => p.ingress = queue'[i].ingress
        BY <1>2, <2>1, <2>2, <2>9, <3>1, <4>1, <4>2, <4>3
      <4> QED
        BY <4>5, <4>6
    <3>2. CASE i = Len(queue) + 1
      <4>1. queue'[i].rec.req = r /\ queue'[i].ingress = ingress + 1
        BY <2>2, <2>6, <3>2
      <4>2. ~Logged(queue[i].rec.req)' /\ Open(queue[i].rec.req)'
        BY <2>1, <2>4, <2>5, <4>1 DEF Open, Logged, CommandsOf, CommandsAfter
      <4> QED
        BY <2>1, <2>2, <2>8, <4>1, <4>2
    <3> QED
      BY <2>6, <3>1, <3>2
  <2>10. ASSUME NEW i \in DOMAIN queue', NEW j \in DOMAIN queue',
                queue'[i].rec.kind = "command", queue'[j].rec.kind = "command",
                queue'[i].rec.req = queue'[j].rec.req
         PROVE  i = j
    <3>1. CASE i \in DOMAIN queue /\ j \in DOMAIN queue
      BY <1>2, <2>6, <2>10, <3>1
    <3>2. CASE i = Len(queue) + 1 \/ j = Len(queue) + 1
      BY <2>2, <2>6, <2>7, <2>10, <3>2
    <3> QED
      BY <2>6, <3>1, <3>2
  <2> QED
    BY <1>1, <2>9, <2>10
<1>11. ASSUME NEW p \in pending, PollFailed(p) \/ PollDurable(p) PROVE OneRecordInv'
  <2>1. /\ UNCHANGED <<log, queue, fault>> /\ pending' = pending \ {p} /\ p.req \in Request
        /\ \A r \in Request \ {p.req} : index'[r] = index[r]
    BY <1>11 DEF PollFailed, PollDurable, TypeOK, Ticket
  <2>2. CASE PollFailed(p)
    <3>1. fault /\ index'[p.req].state = "absent"
      BY <1>11, <2>1, <2>2 DEF PollFailed, OpenInv, TypeOK
    <3>2. \A r \in Request : Open(r) /\ ~Logged(r) => Open(r)'
      BY <2>1, <3>1 DEF Open
    <3> QED
      BY <1>3, <2>1, <3>2
  <2>3. CASE PollDurable(p)
    <3>1. Logged(p.req)
      BY <1>0, <2>3 DEF PollDurable, IsDurable, TicketInv, Logged
    <3>2. \A r \in Request : Open(r) /\ ~Logged(r) => Open(r)'
      BY <2>1, <3>1 DEF Open
    <3> QED
      BY <1>3, <2>1, <3>2
  <2> QED
    BY <1>11, <2>2, <2>3
<1>12. CASE WalCommit
  <2>1. PICK x \in [rec : Record, ingress : Nat] :
           /\ 1 \in DOMAIN queue /\ queue[1] = x
           /\ \A i \in DOMAIN queue' : /\ i \in Nat \ {0} /\ i + 1 \in DOMAIN queue
                                       /\ queue'[i] = queue[i + 1]
           /\ log' = Append(log, x.rec)
           /\ \A q \in pending' : \E p \in pending : q.ingress = p.ingress /\ q.req = p.req
    BY <1>12, Committed
  <2>2. \A r : CommandsOf(r)' = CommandsOf(r) \cup
                 (IF x.rec.kind = "command" /\ x.rec.req = r THEN {Len(log) + 1} ELSE {})
    <3>1. x.rec \in Record /\ log \in Seq(Record)
      BY DEF TypeOK
    <3> QED
      BY <2>1, <3>1, LogOneMore
  <2>3. index' = index /\ fault' = fault
    BY <1>12 DEF WalCommit
  <2>4. ASSUME NEW i \in DOMAIN queue', queue'[i].rec.kind = "command"
        PROVE  /\ ~Logged(queue[i].rec.req)'
               /\ Open(queue[i].rec.req)'
               /\ \A p \in pending' : p.req = queue'[i].rec.req => p.ingress = queue'[i].ingress
    <3>1. PICK r : r = queue[i + 1].rec.req
      OBVIOUS
    <3>2. /\ i \in Nat \ {0} /\ i + 1 \in DOMAIN queue /\ queue'[i] = queue[i + 1]
          /\ queue[i + 1].rec.kind = "command"
      BY <2>1, <2>4
    <3>3. i + 1 # 1
      BY <3>2
    <3>4. ~(x.rec.kind = "command" /\ x.rec.req = r)
      BY <1>2, <2>1, <3>1, <3>2, <3>3
    <3>5. ~Logged(r) /\ Open(r)
      BY <1>2, <3>1, <3>2
    <3>6. CommandsOf(r)' = {}
      BY <2>2, <3>4, <3>5 DEF Logged
    <3>7. ~Logged(queue[i].rec.req)' /\ Open(queue[i].rec.req)'
      BY <2>3, <3>1, <3>2, <3>5, <3>6 DEF Open, Logged, CommandsOf, CommandsAfter
    <3>8. \A p \in pending' : p.req = queue'[i].rec.req => p.ingress = queue'[i].ingress
      BY <1>2, <2>1, <3>2
    <3> QED
      BY <3>7, <3>8
  <2>5. ASSUME NEW i \in DOMAIN queue', NEW j \in DOMAIN queue',
               queue'[i].rec.kind = "command", queue'[j].rec.kind = "command",
               queue'[i].rec.req = queue'[j].rec.req
        PROVE  i = j
    <3>1. /\ i \in Nat /\ j \in Nat /\ i + 1 \in DOMAIN queue /\ j + 1 \in DOMAIN queue
          /\ queue'[i] = queue[i + 1] /\ queue'[j] = queue[j + 1]
      BY <2>1
    <3>2. i + 1 = j + 1
      BY <1>2, <2>5, <3>1
    <3> QED
      BY <3>1, <3>2
  <2> QED
    BY <1>1, <2>4, <2>5
<1>13. CASE WalFault
  <2>1. /\ \A q \in pending' : \E p \in pending : q.req = p.req /\ q.ingress = p.ingress
        /\ UNCHANGED <<log, queue, index>> /\ fault' = TRUE
    BY <1>13, Faulted DEF WalFault
  <2>2. \A r \in Request : Open(r) /\ ~Logged(r) => Open(r)'
    BY <2>1 DEF Open
  <2> QED
    BY <1>3, <2>1, <2>2
<1>14. CASE Shutdown \/ Crash \/ ReplayDiverges \/ ReplayIncomplete
  BY <1>5, <1>14 DEF Shutdown, Crash, ReplayDiverges, ReplayIncomplete, Refuse, MemoryLost
<1>15. CASE Restart \/ ReplayTick \/ EndReplay \/ WriteOutcome \/ Serve \/ ExitRefused
  BY <1>6, <1>15 DEF Restart, ReplayTick, EndReplay, WriteOutcome, Serve, ExitRefused, Live
<1>16. CASE ApplyCommand \/ StartPoll \/ EndPoll
  BY <1>4, <1>16 DEF ApplyCommand, StartPoll, EndPoll
<1>17. CASE Publish \/ PublishFails \/ StopSignal \/ UNCHANGED vars
  BY <1>4, <1>17 DEF Publish, PublishFails, StopSignal, vars
<1>18. ASSUME NEW r \in Request, NEW c \in Command, SubmitKnown(r, c) PROVE OneRecordInv'
  BY <1>4, <1>18 DEF SubmitKnown
<1>19. ASSUME NEW p \in pending, PollSkip(p) PROVE OneRecordInv'
  BY <1>4, <1>19 DEF PollSkip
<1> HIDE DEF disk, wal, sim, gateway
<1> QED
  BY <1>8, <1>9, <1>10, <1>11, <1>12, <1>13, <1>14, <1>15, <1>16, <1>17, <1>18, <1>19
  DEF Next, MainThread, Recover, Client, PollOne

(* What a command does to what a world and a buffer hold.                   *)
LEMMA HeldApplied ==
    ASSUME TypeOK, ApplyCommand
    PROVE  HeldBy(world, buffer)' \subseteq HeldBy(world, buffer)
<1>1. PICK e \in Due : /\ e \in Entry /\ e \in buffer
                       /\ world' = RunOn(world, e) /\ buffer' = buffer \ {e}
  BY Applied
<1>2. Executed(world)' = Executed(world) \cup ({e.req} \ {NoReq})
  <2>1. world \in World
    BY DEF TypeOK
  <2>2. Executed(RunOn(world, e)) = Executed(world) \cup ({e.req} \ {NoReq})
    BY <1>1, <2>1, ExecutedRun
  <2>3. Executed(world)' = Executed(RunOn(world, e))
    BY <1>1, Zenon DEF Executed
  <2> QED
    BY <2>2, <2>3
<1> QED
  BY <1>1, <1>2 DEF HeldBy

LEMMA HeldIsHeldBy == Held = HeldBy(world, buffer)
BY DEF Held, HeldBy, InBuffer

(* An open ticket is of a command that has not run.                         *)
LEMMA OpenStep ==
    ASSUME TypeOK, WriterInv, OneRecordInv, OpenInv, KnownInv,
           HeldInv, [Next]_vars
    PROVE  OpenInv'
<1> USE DEF disk, wal, sim, gateway
<1>0. QuietInv /\ TicketInv /\ QueueInv
  BY DEF WriterInv
<1>1. ASSUME pending' = {} PROVE OpenInv'
  BY <1>1 DEF OpenInv
<1>2. ASSUME \A r : Logged(r)' => Logged(r), Held' \subseteq Held, fault => fault',
             pending' \subseteq pending
      PROVE  OpenInv'
  BY <1>2 DEF OpenInv
<1>3. ASSUME log' = log, world' = world, buffer' = buffer, fault' = fault,
             pending' \subseteq pending
      PROVE  OpenInv'
  BY <1>2, <1>3, LogSame, HeldSame
<1>4. CASE pc \notin Live /\ pending' = pending
  BY <1>0, <1>1, <1>4 DEF QuietInv
<1>5. CASE ApplyCommand
  <2>1. Held' \subseteq Held
    BY <1>5, HeldApplied, HeldIsHeldBy DEF HeldBy, Held, InBuffer
  <2>2. log' = log /\ fault' = fault /\ pending' = pending
    BY <1>5 DEF ApplyCommand
  <2> QED
    BY <1>2, <2>1, <2>2, LogSame
<1>6. ASSUME NEW r \in Request, NEW c \in Command, SubmitNew(r, c) PROVE OpenInv'
  <2> DEFINE t == [ingress |-> ingress', req |-> r, cmd |-> c, target |-> TargetOf(c),
                   ticket |-> Waiting]
  <2>1. /\ index[r].state = "absent" /\ pc = "settle"
        /\ UNCHANGED <<log, world, buffer, fault>> /\ pending' = pending \cup {t}
    BY <1>6 DEF SubmitNew, Serving, Unknown
  <2>2. t.req = r /\ t.ticket = 0 /\ 0 # Failed
    BY DEF Waiting, Failed
  <2> HIDE DEF t
  <2>3. ~Logged(r)
    BY <2>1 DEF KnownInv, Up, Live
  <2>4. r \notin Held
    BY <2>3, HeldIsHeldBy DEF HeldInv, Covered
  <2>5. (\A q : Logged(q)' <=> Logged(q)) /\ Held' = Held
    BY <2>1, LogSame, HeldSame
  <2> QED
    BY <2>1, <2>2, <2>3, <2>4, <2>5 DEF OpenInv
<1>7. ASSUME NEW p \in pending, PollDurable(p) PROVE OpenInv'
  <2>1. /\ UNCHANGED <<log, world, fault>> /\ pending' = pending \ {p}
        /\ buffer' = buffer \cup {EntryOf(p, nextSeq)}
    BY <1>7 DEF PollDurable, Deliver
  <2>2. Held' \subseteq Held \cup {p.req}
    <3>1. EntryOf(p, nextSeq).req = p.req
      BY DEF EntryOf
    <3> HIDE DEF EntryOf
    <3> QED
      BY <2>1, <3>1 DEF Held, InBuffer, Executed
  <2>3. \A q \in pending' : q \in pending /\ q.req # p.req
    BY <1>0, <2>1 DEF TicketInv
  <2>4. \A q : Logged(q)' <=> Logged(q)
    BY <2>1, LogSame
  <2> QED
    BY <2>1, <2>2, <2>3, <2>4 DEF OpenInv
<1>8. CASE WalCommit
  <2>1. PICK x \in [rec : Record, ingress : Nat] :
           /\ 1 \in DOMAIN queue /\ queue[1] = x
           /\ log' = Append(log, x.rec)
           /\ \A q \in pending' : \E p \in pending :
                /\ q.ingress = p.ingress /\ q.req = p.req
                /\ q.ticket = IF p.ingress = x.ingress THEN Len(log') ELSE p.ticket
    BY <1>8, Committed
  <2>2. /\ \A r : CommandsOf(r)' = CommandsOf(r) \cup
                 (IF x.rec.kind = "command" /\ x.rec.req = r THEN {Len(log) + 1} ELSE {})
        /\ Len(log') = Len(log) + 1 /\ Len(log) \in Nat
    <3>1. x.rec \in Record /\ log \in Seq(Record)
      BY DEF TypeOK
    <3> QED
      BY <2>1, <3>1, LogOneMore, AppendProperties, LenProperties
  <2>3. Held' = Held /\ fault' = fault
    BY <1>8, HeldSame DEF WalCommit
  <2>4. ASSUME NEW q \in pending'
        PROVE  /\ q.ticket \in {Waiting, Failed} => ~Logged(q.req)'
               /\ q.ticket = Failed => fault
               /\ q.req \notin Held
    <3>1. PICK p \in pending :
             /\ q.ingress = p.ingress /\ q.req = p.req
             /\ q.ticket = IF p.ingress = x.ingress THEN Len(log') ELSE p.ticket
      BY <2>1
    <3>2. CASE p.ingress = x.ingress
      BY <2>2, <3>1, <3>2 DEF OpenInv, Waiting, Failed
    <3>3. CASE p.ingress # x.ingress
      <4>1. ~(x.rec.kind = "command" /\ x.rec.req = p.req)
        BY <2>1, <3>3 DEF OneRecordInv, IsCommand
      <4>2. CommandsOf(p.req)' = CommandsOf(p.req)
        BY <2>2, <4>1
      <4> QED
        BY <3>1, <3>3, <4>2 DEF OpenInv, Logged
    <3> QED
      BY <3>2, <3>3
  <2> QED
    BY <2>3, <2>4 DEF OpenInv
<1>9. CASE WalFault
  <2>1. /\ \A q \in pending' : \E p \in pending :
             /\ q.ingress = p.ingress /\ q.req = p.req
             /\ q.ticket = IF p.ticket = Waiting THEN Failed ELSE p.ticket
        /\ UNCHANGED <<log, world, buffer>> /\ fault' = TRUE
    BY <1>9, Faulted DEF WalFault
  <2>2. (\A q : Logged(q)' <=> Logged(q)) /\ Held' = Held
    BY <2>1, LogSame, HeldSame
  <2> QED
    BY <2>1, <2>2 DEF OpenInv, Waiting, Failed
<1>10. CASE EndTick \/ SettleOutcome \/ StartPoll \/ EndPoll
  BY <1>3, <1>10 DEF EndTick, SettleOutcome, StartPoll, EndPoll
<1>11. CASE Publish \/ PublishFails \/ StopSignal \/ UNCHANGED vars
  BY <1>3, <1>11 DEF Publish, PublishFails, StopSignal, vars
<1>12. ASSUME NEW p \in pending, PollSkip(p) \/ PollFailed(p) PROVE OpenInv'
  BY <1>3, <1>12 DEF PollSkip, PollFailed
<1>13. ASSUME NEW r \in Request, NEW c \in Command, SubmitKnown(r, c) PROVE OpenInv'
  BY <1>3, <1>13 DEF SubmitKnown
<1>14. CASE Shutdown \/ Crash \/ ReplayDiverges \/ ReplayIncomplete
  BY <1>1, <1>14 DEF Shutdown, Crash, ReplayDiverges, ReplayIncomplete, Refuse, MemoryLost
<1>15. CASE Restart \/ ReplayTick \/ EndReplay \/ WriteOutcome \/ Serve \/ ExitRefused
  BY <1>4, <1>15 DEF Restart, ReplayTick, EndReplay, WriteOutcome, Serve, ExitRefused, Live
<1> HIDE DEF disk, wal, sim, gateway
<1> QED
  BY <1>5, <1>6, <1>7, <1>8, <1>9, <1>10, <1>11, <1>12, <1>13, <1>14, <1>15
  DEF Next, MainThread, Recover, Client, PollOne

(* The registry of a daemon that serves, or is about to, knows the requests *)
(* of the log and no others, and every promise is among them.               *)
LEMMA KnownStep ==
    ASSUME TypeOK, WriterInv, OneRecordInv, OpenInv, KnownInv,
           HeldInv, [Next]_vars
    PROVE  KnownInv'
<1> USE DEF disk, wal, sim, gateway
<1>0. QuietInv /\ TicketInv /\ RegistryInv
  BY DEF WriterInv
<1>1. /\ pc \in Up => \A r \in Request : /\ index[r].state \in Kept => Logged(r)
                                         /\ Logged(r) => index[r].state # "absent"
      /\ \A i \in DOMAIN report : report[i].req = NoReq \/ Logged(report[i].req)
      /\ \A r \in Promised : r \in Request /\ Logged(r) /\ (pc \in Up => index[r].state \in Kept)
      /\ \A w \in waiters : w.req \in Promised
  BY DEF KnownInv, Promised
<1>2. (\A r : Logged(r) => Logged(r)') /\ \A r \in Request : \A k, l \in CommandsOf(r)' : k = l
  BY LogStep
<1>3. "absent" \notin Kept /\ "pending" \notin Kept /\ "unavailable" \notin Kept /\ Final \subseteq Kept
  BY DEF Kept, Final
<1>4. ASSUME \A i \in DOMAIN report' : report'[i].req = NoReq \/ Logged(report'[i].req)
      PROVE  \A i \in DOMAIN report' : report'[i].req = NoReq \/ Logged(report[i].req)'
  <2> SUFFICES ASSUME NEW i \in DOMAIN report', report'[i].req # NoReq
               PROVE  Logged(report[i].req)'
    OBVIOUS
  <2>1. PICK r : r = report'[i].req
    OBVIOUS
  <2>2. Logged(r)'
    BY <1>2, <1>4, <2>1
  <2> QED
    BY <2>1, <2>2 DEF Logged, CommandsOf, CommandsAfter
<1>5. ASSUME UNCHANGED <<index, told, waiters>>, pc' \in Up => pc \in Up,
             \A r : Logged(r)' => Logged(r),
             \A i \in DOMAIN report' : report'[i].req = NoReq \/ Logged(report'[i].req)
      PROVE  KnownInv'
  <2>1. Promised' = Promised
    BY <1>5 DEF Promised
  <2>2. pc' \in Up => \A r \in Request : /\ index'[r].state \in Kept => Logged(r)'
                                         /\ Logged(r)' => index'[r].state # "absent"
    BY <1>1, <1>2, <1>5
  <2>3. \A r \in Promised' : Logged(r)' /\ (pc' \in Up => index'[r].state \in Kept)
    BY <1>1, <1>2, <1>5, <2>1
  <2>4. \A w \in waiters' : w.req \in Promised'
    BY <1>1, <1>5, <2>1
  <2> QED
    BY <1>4, <1>5, <2>2, <2>3, <2>4 DEF KnownInv
<1>6. ASSUME UNCHANGED <<log, index, told, waiters, report>>, pc' \in Up => pc \in Up
      PROVE  KnownInv'
  BY <1>1, <1>5, <1>6, LogSame
<1>7. CASE ApplyCommand
  <2>1. PICK e \in Due :
           /\ e \in buffer
           /\ \A i \in DOMAIN report' :
                \/ i \in DOMAIN report /\ report'[i] = report[i]
                \/ report'[i].req = e.req
    BY <1>7, Applied
  <2>2. e.req = NoReq \/ Logged(e.req)
    BY <2>1 DEF HeldInv, Covered, HeldBy
  <2>3. \A i \in DOMAIN report' : report'[i].req = NoReq \/ Logged(report'[i].req)
    BY <1>1, <2>1, <2>2
  <2>4. UNCHANGED <<log, pc, index, told, waiters>>
    BY <1>7 DEF ApplyCommand
  <2> QED
    BY <1>5, <2>3, <2>4, LogSame
<1>8. CASE SettleOutcome
  <2>1. /\ report # <<>> /\ report' = Tail(report) /\ pc = "settle" /\ pc' = "settle"
        /\ log' = log
    BY <1>8 DEF SettleOutcome
  <2>2. \A i \in DOMAIN report' : report'[i].req = NoReq \/ Logged(report'[i].req)
    BY <1>1, <2>1, ReportTail
  <2>3. CASE WaitersOf(Head(report)) = {}
    BY <1>5, <1>8, <2>1, <2>2, <2>3, LogSame DEF SettleOutcome
  <2>4. CASE WaitersOf(Head(report)) # {}
    <3> DEFINE o == Head(report)
    <3>1. PICK w \in WaitersOf(o) :
             /\ waiters' = waiters \ {w}
             /\ index' = [index EXCEPT ![w.req].state = Verdict(o.ok)]
             /\ told' = [told EXCEPT ![w.req] = @ \cup {Verdict(o.ok)}]
      BY <1>8, <2>4 DEF SettleOutcome
    <3>2. w \in waiters /\ w.req \in Request /\ w.req \in Promised
      BY <1>1 DEF WaitersOf, TypeOK
    <3> HIDE DEF o
    <3>3. /\ \A r \in Request \ {w.req} : index'[r] = index[r] /\ told'[r] = told[r]
          /\ index'[w.req].state \in Final
          /\ told[w.req] \subseteq told'[w.req]
      BY <3>1, <3>2 DEF TypeOK, Verdict, Final
    <3>4. Promised' = Promised
      BY <3>2, <3>3 DEF Promised
    <3>5. \A r : Logged(r)' <=> Logged(r)
      BY <2>1, LogSame
    <3>6. \A r \in Request : /\ index'[r].state \in Kept => Logged(r)'
                             /\ Logged(r)' => index'[r].state # "absent"
      BY <1>1, <1>3, <2>1, <3>2, <3>3, <3>5 DEF Up, Live
    <3>7. \A r \in Promised' : Logged(r)' /\ index'[r].state \in Kept
      BY <1>1, <1>3, <2>1, <3>2, <3>3, <3>4, <3>5 DEF Up, Live
    <3>8. \A v \in waiters' : v.req \in Promised'
      BY <1>1, <3>1, <3>4
    <3> QED
      BY <1>4, <2>2, <3>6, <3>7, <3>8 DEF KnownInv
  <2> QED
    BY <2>3, <2>4
<1>9. ASSUME NEW r \in Request, NEW c \in Command, SubmitKnown(r, c) PROVE KnownInv'
  <2>1. /\ index[r].state \in Kept /\ pc = "settle" /\ pc' = "settle"
        /\ UNCHANGED <<log, index, waiters, report>>
        /\ told' = [told EXCEPT ![r] = @ \cup {index[r].state}]
    BY <1>9 DEF SubmitKnown, Serving, Kept
  <2>2. Promised' = Promised \cup {r}
    BY <2>1 DEF Promised, TypeOK
  <2>3. \A q : Logged(q)' <=> Logged(q)
    BY <2>1, LogSame
  <2>4. \A q \in Promised' : Logged(q)' /\ index'[q].state \in Kept
    BY <1>1, <2>1, <2>2, <2>3 DEF Up, Live
  <2>5. \A i \in DOMAIN report' : report'[i].req = NoReq \/ Logged(report'[i].req)
    BY <1>1, <2>1
  <2>6. \A q \in Request : /\ index'[q].state \in Kept => Logged(q)'
                           /\ Logged(q)' => index'[q].state # "absent"
    BY <1>1, <2>1, <2>3 DEF Up, Live
  <2>7. \A w \in waiters' : w.req \in Promised'
    BY <1>1, <2>1, <2>2
  <2> QED
    BY <1>4, <2>4, <2>5, <2>6, <2>7 DEF KnownInv
<1>10. ASSUME NEW r \in Request, log' = log, pc \in Up,
              \A q \in Request \ {r} : index'[q] = index[q] /\ told'[q] = told[q],
              UNCHANGED <<waiters, report>>, r \notin Promised, r \notin Promised',
              index'[r].state \notin Kept, Logged(r) => index'[r].state # "absent"
       PROVE  KnownInv'
  <2>1. Promised' = Promised
    BY <1>10 DEF Promised
  <2>2. \A q : Logged(q)' <=> Logged(q)
    BY <1>10, LogSame
  <2>3. \A q \in Request : /\ index'[q].state \in Kept => Logged(q)'
                           /\ Logged(q)' => index'[q].state # "absent"
    BY <1>1, <1>10, <2>2
  <2>4. \A q \in Promised' : Logged(q)' /\ index'[q].state \in Kept
    BY <1>1, <1>10, <2>1, <2>2
  <2>5. \A i \in DOMAIN report' : report'[i].req = NoReq \/ Logged(report'[i].req)
    BY <1>1, <1>10
  <2>6. \A w \in waiters' : w.req \in Promised'
    BY <1>1, <1>10, <2>1
  <2> QED
    BY <1>4, <2>3, <2>4, <2>5, <2>6 DEF KnownInv
<1>11. ASSUME NEW r \in Request, NEW c \in Command, SubmitNew(r, c) PROVE KnownInv'
  <2>1. /\ index[r].state = "absent" /\ index'[r].state = "pending" /\ pc = "settle"
        /\ \A q \in Request \ {r} : index'[q] = index[q]
        /\ UNCHANGED <<log, told, waiters, report>>
    BY <1>11 DEF SubmitNew, Serving, Unknown, Register, TypeOK
  <2>2. pc \in Up
    BY <2>1 DEF Up, Live
  <2>3. r \notin Promised /\ Promised' = Promised
    BY <1>1, <1>3, <2>1, <2>2 DEF Promised
  <2> QED
    BY <1>3, <1>10, <2>1, <2>2, <2>3
<1>12. ASSUME NEW p \in pending, PollFailed(p) PROVE KnownInv'
  <2>1. /\ p.req \in Request /\ index[p.req].state = "pending" /\ index'[p.req].state = "absent"
        /\ pc = "poll" /\ p.ticket = Failed
        /\ \A q \in Request \ {p.req} : index'[q] = index[q] /\ told'[q] = told[q]
        /\ told'[p.req] = told[p.req] \cup {"unavailable"}
        /\ UNCHANGED <<log, waiters, report>>
    BY <1>0, <1>12 DEF PollFailed, TicketInv, TypeOK, Ticket
  <2>2. pc \in Up /\ ~Logged(p.req)
    BY <2>1 DEF Up, Live, OpenInv
  <2>3. p.req \notin Promised
    BY <1>1, <2>2
  <2>4. p.req \notin Promised'
    BY <1>3, <2>1, <2>3 DEF Promised
  <2> QED
    BY <1>3, <1>10, <2>1, <2>2, <2>3, <2>4
<1>13. ASSUME NEW p \in pending, PollDurable(p) PROVE KnownInv'
  <2>1. /\ p.req \in Request /\ index'[p.req].state = "durable" /\ pc = "poll" /\ pc' = "poll"
        /\ \A q \in Request \ {p.req} : index'[q] = index[q] /\ told'[q] = told[q]
        /\ told'[p.req] = told[p.req] \cup {"durable"}
        /\ UNCHANGED <<log, report>>
    BY <1>13 DEF PollDurable, TypeOK, Ticket
  <2>2. pc \in Up /\ Logged(p.req) /\ "durable" \in Kept
    BY <1>0, <1>13, <2>1 DEF Up, Live, PollDurable, IsDurable, TicketInv, Logged, Kept
  <2>3. Promised' = Promised \cup {p.req}
    BY <2>1, <2>2 DEF Promised
  <2>4. \A q : Logged(q)' <=> Logged(q)
    BY <2>1, LogSame
  <2>5. \A q \in Request : /\ index'[q].state \in Kept => Logged(q)'
                           /\ Logged(q)' => index'[q].state # "absent"
    BY <1>1, <2>1, <2>2, <2>4
  <2>6. \A q \in Promised' : Logged(q)' /\ index'[q].state \in Kept
    BY <1>1, <2>1, <2>2, <2>3, <2>4
  <2>7. \A w \in waiters' : w.req \in Promised'
    BY <1>1, <1>13, <2>3 DEF PollDurable
  <2>8. \A i \in DOMAIN report' : report'[i].req = NoReq \/ Logged(report'[i].req)
    BY <1>1, <2>1
  <2> QED
    BY <1>4, <2>5, <2>6, <2>7, <2>8 DEF KnownInv
<1>14. CASE WalCommit
  <2>1. PICK x \in [rec : Record, ingress : Nat] :
           1 \in DOMAIN queue /\ queue[1] = x /\ log' = Append(log, x.rec)
    BY <1>14, Committed
  <2>2. \A r : CommandsOf(r)' = CommandsOf(r) \cup
                 (IF x.rec.kind = "command" /\ x.rec.req = r THEN {Len(log) + 1} ELSE {})
    <3>1. x.rec \in Record /\ log \in Seq(Record)
      BY DEF TypeOK
    <3> QED
      BY <2>1, <3>1, LogOneMore
  <2>3. /\ ~fault /\ pc \in Live /\ pc' = pc
        /\ UNCHANGED <<index, told, waiters, report>>
    BY <1>14 DEF WalCommit
  <2>4. Promised' = Promised
    BY <2>3 DEF Promised
  <2>5. \A r \in Request : /\ index'[r].state \in Kept => Logged(r)'
                           /\ Logged(r)' => index'[r].state # "absent"
    <3> SUFFICES ASSUME NEW r \in Request
                 PROVE  /\ index'[r].state \in Kept => Logged(r)'
                        /\ Logged(r)' => index'[r].state # "absent"
      OBVIOUS
    <3>1. index'[r].state \in Kept => Logged(r)'
      BY <1>1, <1>2, <2>3 DEF Up
    <3>2. CASE x.rec.kind = "command" /\ x.rec.req = r
      BY <2>1, <2>3, <3>1, <3>2 DEF OneRecordInv, IsCommand
    <3>3. CASE ~(x.rec.kind = "command" /\ x.rec.req = r)
      BY <1>1, <2>2, <2>3, <3>1, <3>3 DEF Logged, Up
    <3> QED
      BY <3>2, <3>3
  <2>6. \A r \in Promised' : Logged(r)' /\ index'[r].state \in Kept
    BY <1>1, <1>2, <2>3, <2>4 DEF Up
  <2>7. \A i \in DOMAIN report' : report'[i].req = NoReq \/ Logged(report'[i].req)
    BY <1>1, <2>3
  <2>8. \A w \in waiters' : w.req \in Promised'
    BY <1>1, <2>3, <2>4
  <2> QED
    BY <1>4, <2>5, <2>6, <2>7, <2>8 DEF KnownInv
<1>15. CASE Shutdown \/ Crash \/ ReplayDiverges \/ ReplayIncomplete
  <2>1. pc' \notin Up /\ report' = <<>> /\ waiters' = {} /\ told' = told
    BY <1>15 DEF Shutdown, Crash, ReplayDiverges, ReplayIncomplete, Refuse, MemoryLost, Up, Live
  <2>2. \A r \in Promised' : Logged(r)'
    BY <1>1, <1>2, <2>1 DEF Promised
  <2> QED
    BY <2>1, <2>2 DEF KnownInv
<1>16. CASE EndReplay
  <2>1. /\ index' = [r \in Request |-> RestoredEntry(r)]
        /\ UNCHANGED <<log, told, waiters, report>>
    BY <1>16 DEF EndReplay
  <2>2. \A r : Logged(r)' <=> Logged(r)
    BY <2>1, LogSame
  <2>3. \A r \in Request : /\ index'[r].state \in Kept <=> Logged(r)
                           /\ Logged(r) => index'[r].state # "absent"
    BY <1>3, <2>1, RestoredType DEF Logged
  <2>4. Promised' = Promised
    BY <2>1 DEF Promised
  <2>5. \A r \in Promised' : Logged(r)' /\ index'[r].state \in Kept
    BY <1>1, <2>2, <2>3, <2>4
  <2>6. \A i \in DOMAIN report' : report'[i].req = NoReq \/ Logged(report'[i].req)
    BY <1>1, <2>1
  <2>7. \A w \in waiters' : w.req \in Promised'
    BY <1>1, <2>1, <2>4
  <2> QED
    BY <1>4, <2>2, <2>3, <2>5, <2>6, <2>7 DEF KnownInv
<1>17. CASE WriteOutcome
  <2>1. PICK i \in Unwritten :
           /\ log' = Append(log, OutcomeRec(report[i].req, report[i].ok))
           /\ index' = [index EXCEPT ![report[i].req].state = Verdict(report[i].ok)]
    BY <1>17 DEF WriteOutcome
  <2>2. i \in DOMAIN report /\ report[i].req \in Request /\ report[i].ok \in BOOLEAN
    <3>1. i \in DOMAIN report /\ report[i] \in Result /\ report[i].lsn > Floor
      BY ElementOfSeq, LenProperties DEF Unwritten, TypeOK
    <3> QED
      BY <3>1, BaseType DEF Result
  <2>3. PICK r \in Request : r = report[i].req /\ Logged(r)
    BY <1>1, <2>2, PipelineConstants
  <2>4. \A q : Logged(q)' <=> Logged(q)
    BY <2>1, <2>2, OutcomeLogged DEF TypeOK
  <2>5. /\ index'[r].state \in Kept /\ \A q \in Request \ {r} : index'[q] = index[q]
        /\ pc = "outcomes" /\ UNCHANGED <<told, waiters, report>>
    BY <1>17, <2>1, <2>3, SMTT(60) DEF WriteOutcome, TypeOK, Verdict, Kept, Final
  <2>6. pc \in Up /\ Promised' = Promised
    BY <2>5 DEF Up, Promised
  <2>7. \A q \in Request : /\ index'[q].state \in Kept => Logged(q)'
                           /\ Logged(q)' => index'[q].state # "absent"
    BY <1>1, <1>3, <2>3, <2>4, <2>5, <2>6
  <2>8. \A q \in Promised' : Logged(q)' /\ index'[q].state \in Kept
    BY <1>1, <2>4, <2>5, <2>6
  <2>9. \A k \in DOMAIN report' : report'[k].req = NoReq \/ Logged(report'[k].req)
    BY <1>1, <2>5
  <2>10. \A w \in waiters' : w.req \in Promised'
    BY <1>1, <2>5, <2>6
  <2> QED
    BY <1>4, <2>7, <2>8, <2>9, <2>10 DEF KnownInv
<1>18. CASE Serve
  <2>1. report' = <<>> /\ pc = "outcomes" /\ UNCHANGED <<log, index, told, waiters>>
    BY <1>18 DEF Serve
  <2> QED
    BY <1>5, <2>1, LogSame DEF Up
<1>19. CASE Restart \/ ReplayTick \/ ExitRefused
  BY <1>6, <1>19 DEF Restart, ReplayTick, ExitRefused, Up, Live
<1>20. CASE EndTick \/ StartPoll \/ EndPoll
  BY <1>6, <1>20 DEF EndTick, StartPoll, EndPoll, Serving, Up, Live
<1>21. CASE WalFault \/ Publish \/ PublishFails \/ StopSignal \/ UNCHANGED vars
  BY <1>6, <1>21 DEF WalFault, Publish, PublishFails, StopSignal, vars
<1>22. ASSUME NEW p \in pending, PollSkip(p) PROVE KnownInv'
  BY <1>6, <1>22 DEF PollSkip
<1> HIDE DEF disk, wal, sim, gateway
<1> QED
  BY <1>7, <1>8, <1>9, <1>11, <1>12, <1>13, <1>14, <1>15, <1>16, <1>17, <1>18, <1>19, <1>20,
     <1>21, <1>22
  DEF Next, MainThread, Recover, Client, PollOne


(* A world that runs a new request has still run each of its requests once. *)
LEMMA RunsOnce ==
    ASSUME NEW w \in World, NEW e \in Entry, e.req \notin Executed(w),
           \A i, j \in DOMAIN w.ran : w.ran[i].req = w.ran[j].req => i = j
    PROVE  \A i, j \in DOMAIN RunOn(w, e).ran :
             RunOn(w, e).ran[i].req = RunOn(w, e).ran[j].req => i = j
<1>1. CASE e.req = NoReq
  BY <1>1 DEF RunOn, World
<1>2. CASE e.req # NoReq
  <2> DEFINE x == [req |-> e.req, ok |-> Accepts(w, e.cmd)]
  <2>1. w.ran \in Seq([req : Request, ok : BOOLEAN])
    BY DEF World
  <2>2. RunOn(w, e).ran = Append(w.ran, x)
    BY <1>2 DEF RunOn, World
  <2>3. x \in [req : Request, ok : BOOLEAN]
    <3>1. e.req \in Request /\ e.cmd \in [op : Op, expects : Nat, hint : Nat]
      BY <1>2, PipelineConstants DEF Entry, SeedEntry
    <3> QED
      BY <3>1 DEF Accepts, Op
  <2>4. /\ Len(w.ran) \in Nat
        /\ DOMAIN w.ran = 1..Len(w.ran) /\ DOMAIN RunOn(w, e).ran = 1..(Len(w.ran) + 1)
        /\ \A i \in 1..Len(w.ran) : RunOn(w, e).ran[i] = w.ran[i]
        /\ RunOn(w, e).ran[Len(w.ran) + 1] = x
    BY <2>1, <2>2, <2>3, AppendProperties, LenProperties
  <2>5. x.req = e.req /\ \A i \in 1..Len(w.ran) : w.ran[i].req # e.req
    BY <2>4 DEF Executed
  <2> DEFINE n   == Len(w.ran)
             new == RunOn(w, e).ran
             old == w.ran
  <2>6. /\ n \in Nat /\ DOMAIN new = 1..(n + 1) /\ DOMAIN old = 1..n
        /\ new[n + 1].req = e.req
        /\ \A i \in 1..n : new[i].req = old[i].req /\ old[i].req # e.req
        /\ \A i, j \in DOMAIN old : old[i].req = old[j].req => i = j
    BY <2>4, <2>5
  <2> HIDE DEF n, new, old, x
  <2>7. \A i, j \in DOMAIN new : new[i].req = new[j].req => i = j
    BY <2>6
  <2> QED
    BY <2>7 DEF new
<1> QED
  BY <1>1, <1>2

(* Recovery starts from a world and a buffer that hold each request once.   *)
LEMMA BaseHeld ==
    ASSUME TypeOK, ImageInv
    PROVE  HeldOnce(Base.world, Base.buffer) /\ Covered(Base.world, Base.buffer, Floor)
<1>1. CASE image = NoImage
  <2>1. Base = Fresh
    BY <1>1 DEF Base
  <2>2. DOMAIN Fresh.world.ran = {} /\ Fresh.buffer = {}
    BY DEF Fresh, EmptyWorld
  <2> QED
    BY <2>1, <2>2 DEF HeldOnce, Covered, HeldBy, Executed
<1>2. CASE image # NoImage
  BY <1>2 DEF ImageInv, Base, Floor
<1> QED
  BY <1>1, <1>2

(* Behind a checkpoint there are only commands that it does not hold.       *)
LEMMA ReplayedAreNew ==
    ASSUME TypeOK, OneRecordInv, ImageInv
    PROVE  /\ \A l \in ToReplay : /\ l \in Nat /\ l > Floor
                                  /\ Replayed(l).req = log[l].req /\ log[l].req \in Request
                                  /\ l \in CommandsOf(log[l].req)
                                  /\ \A k \in CommandsOf(log[l].req) : k = l
                                  /\ log[l].req \notin HeldBy(Base.world, Base.buffer)
           /\ Floor <= MaxOf(ToReplay, Floor)
           /\ \A l \in ToReplay : l <= MaxOf(ToReplay, Floor)
<1>1. /\ Len(log) \in Nat /\ DOMAIN log = 1..Len(log) /\ Floor \in Nat
      /\ \A l \in DOMAIN log : log[l] \in Record
  BY LogFacts, BaseType
<1>2. \A l \in ToReplay : l \in 1..Len(log) /\ l > Floor /\ log[l].kind = "command"
  BY <1>1 DEF ToReplay, CommandsAfter
<1>3. \A l \in ToReplay : log[l].req \in Request /\ l \in CommandsOf(log[l].req)
  BY <1>1, <1>2, RecordFields DEF CommandsOf, CommandsAfter
<1>4. \A l \in ToReplay : \A k \in CommandsOf(log[l].req) : k = l
  BY <1>3 DEF OneRecordInv
<1>5. \A l \in ToReplay : log[l].req \notin HeldBy(Base.world, Base.buffer)
  <2>1. \A l \in ToReplay : l \in Nat /\ l > Floor
    BY <1>1, <1>2
  <2>2. \A l \in ToReplay : ~(l <= Floor)
    BY <1>1, <2>1
  <2> QED
    BY <1>3, <2>2, BaseHeld DEF Covered
<1>6. \A l \in ToReplay : Replayed(l).req = log[l].req
  BY DEF Replayed
<1> DEFINE S == ToReplay
           m == MaxOf(ToReplay, Floor)
<1>7. m \in S \cup {Floor} /\ \A l \in S : l <= m
  <2>1. S \in SUBSET Nat /\ \A l \in S : l <= Len(log)
    BY <1>1, <1>2
  <2> QED
    BY <1>1, <2>1, GreatestNat
<1>8. Floor <= m
  <2> HIDE DEF m
  <2>1. \A l \in ToReplay : l \in Nat /\ l > Floor
    BY <1>1, <1>2
  <2> QED
    BY <1>1, <1>7, <2>1
<1>9. \A l \in ToReplay : l \in Nat /\ l > Floor
  BY <1>1, <1>2
<1> QED
  BY <1>3, <1>4, <1>5, <1>6, <1>7, <1>8, <1>9, Zenon

(* A command enters the buffer once, from its ticket or from the log behind *)
(* a checkpoint, and leaves it for the world.                               *)
LEMMA HeldStep ==
    ASSUME TypeOK, WriterInv, OneRecordInv, OpenInv, HeldInv, ImageInv, [Next]_vars
    PROVE  HeldInv'
<1> USE DEF disk, wal, sim, gateway
<1>1. /\ \A r : Logged(r) => CommandsOf(r)' = CommandsOf(r) /\ Logged(r)'
      /\ HeldOnce(world, buffer) /\ Covered(world, buffer, included)
  BY LogStep DEF HeldInv
<1>2. ASSUME UNCHANGED <<world, buffer, included>> PROVE HeldInv'
  <2>1. HeldOnce(world, buffer)'
    BY <1>1, <1>2 DEF HeldOnce, Executed
  <2>2. Covered(world, buffer, included)'
    BY <1>1, <1>2 DEF Covered, HeldBy, Executed
  <2> QED
    BY <2>1, <2>2 DEF HeldInv
<1>3. ASSUME world' = EmptyWorld, buffer' = {} PROVE HeldInv'
  <2>1. DOMAIN world'.ran = {} /\ buffer' = {}
    BY <1>3 DEF EmptyWorld
  <2> QED
    BY <2>1 DEF HeldInv, HeldOnce, Covered, HeldBy, Executed
<1>4. CASE ApplyCommand
  <2>1. PICK e \in Due : /\ e \in Entry /\ e \in buffer
                         /\ world' = RunOn(world, e) /\ buffer' = buffer \ {e}
    BY <1>4, Applied
  <2>2. world \in World /\ log' = log /\ included' = included
    BY <1>4 DEF TypeOK, ApplyCommand
  <2>3. /\ e.req \notin Executed(world)
        /\ \A i, j \in DOMAIN world.ran : world.ran[i].req = world.ran[j].req => i = j
        /\ \A d, f \in buffer : d.req = f.req => d = f
        /\ \A d \in buffer : d.req \notin Executed(world)
    BY <1>1, <2>1 DEF HeldOnce
  <2>4. \A i, j \in DOMAIN world'.ran : world'.ran[i].req = world'.ran[j].req => i = j
    BY <2>1, <2>2, <2>3, RunsOnce
  <2>5. Executed(world)' = Executed(world) \cup ({e.req} \ {NoReq})
    <3>1. Executed(RunOn(world, e)) = Executed(world) \cup ({e.req} \ {NoReq})
      BY <2>1, <2>2, ExecutedRun
    <3>2. Executed(world)' = Executed(RunOn(world, e))
      BY <2>1, Zenon DEF Executed
    <3> QED
      BY <3>1, <3>2
  <2>6. HeldOnce(world, buffer)'
    BY <2>1, <2>3, <2>4, <2>5 DEF HeldOnce
  <2>7. HeldBy(world, buffer)' \subseteq HeldBy(world, buffer)
    BY <1>4, HeldApplied
  <2>8. Covered(world, buffer, included)'
    BY <1>1, <2>2, <2>7 DEF Covered
  <2> QED
    BY <2>6, <2>8 DEF HeldInv
<1>5. ASSUME NEW p \in pending, PollDurable(p) PROVE HeldInv'
  <2> DEFINE x == EntryOf(p, nextSeq)
  <2>1. /\ UNCHANGED <<log, world>> /\ buffer' = buffer \cup {x} /\ x.req = p.req
        /\ included' = IF p.ticket > included THEN p.ticket ELSE included
        /\ p.ticket > 0
    BY <1>5 DEF PollDurable, Deliver, IsDurable, EntryOf
  <2>2. p.req \in Request /\ p.ticket \in Nat /\ included \in Nat
    <3>1. p \in Ticket /\ p.ticket > 0
      BY <2>1 DEF TypeOK
    <3>2. p.req \in Request /\ p.ticket \in Nat
      BY <3>1 DEF Ticket, Failed
    <3> QED
      BY <3>2 DEF TypeOK
  <2>3. p.ticket \in CommandsOf(p.req) /\ \A l \in CommandsOf(p.req) : l = p.ticket
    BY <2>1, <2>2 DEF WriterInv, TicketInv, OneRecordInv
  <2>4. p.req \notin HeldBy(world, buffer) /\ p.req # NoReq
    BY <2>2, HeldIsHeldBy, PipelineConstants DEF OpenInv
  <2>5. p.req \notin Executed(world) /\ \A d \in buffer : d.req # p.req
    BY <2>4 DEF HeldBy
  <2> HIDE DEF x
  <2>6. HeldOnce(world, buffer)'
    <3>1. \A d, e \in buffer' : d.req = e.req => d = e
      BY <1>1, <2>1, <2>5 DEF HeldOnce
    <3>2. \A e \in buffer' : e.req \notin Executed(world)'
      BY <1>1, <2>1, <2>5 DEF HeldOnce, Executed
    <3> QED
      BY <1>1, <2>1, <3>1, <3>2 DEF HeldOnce
  <2>7. HeldBy(world, buffer)' \subseteq HeldBy(world, buffer) \cup {p.req}
    BY <2>1 DEF HeldBy, Executed
  <2>8. p.ticket <= included' /\ included <= included'
    BY <2>1, <2>2
  <2>9. \A r \in HeldBy(world, buffer) :
           Logged(r)' /\ \A l \in CommandsOf(r)' : l \in Nat /\ l <= included
    <3>1. \A r : \A l \in CommandsOf(r) : l \in Nat
      BY LogFacts DEF CommandsOf, CommandsAfter
    <3> QED
      BY <1>1, <3>1 DEF Covered
  <2>10. Logged(p.req)' /\ \A l \in CommandsOf(p.req)' : l = p.ticket
    BY <1>1, <2>3 DEF Logged
  <2>11. Covered(world, buffer, included)'
    <3>1. included' \in Nat
      BY <2>1, <2>2
    <3>2. \A r \in HeldBy(world, buffer)' : Logged(r)' /\ \A l \in CommandsOf(r)' : l <= included'
      BY <2>2, <2>7, <2>8, <2>9, <2>10, <3>1
    <3> QED
      BY <3>2 DEF Covered
  <2> QED
    BY <2>6, <2>11 DEF HeldInv
<1>6. CASE Restart
  <2>1. /\ world' = Base.world /\ buffer' = Base.buffer \cup {Replayed(l) : l \in ToReplay}
        /\ included' = MaxOf(ToReplay, Floor) /\ log' = log
    BY <1>6 DEF Restart
  <2>2. HeldOnce(Base.world, Base.buffer) /\ Covered(Base.world, Base.buffer, Floor)
    BY BaseHeld
  <2>3. /\ \A l \in ToReplay : /\ l \in Nat /\ l > Floor
                                /\ Replayed(l).req = log[l].req /\ log[l].req \in Request
                                /\ l \in CommandsOf(log[l].req)
                                /\ \A k \in CommandsOf(log[l].req) : k = l
                                /\ log[l].req \notin HeldBy(Base.world, Base.buffer)
        /\ Floor <= MaxOf(ToReplay, Floor)
        /\ \A l \in ToReplay : l <= MaxOf(ToReplay, Floor)
    BY ReplayedAreNew
  <2>4. \A l \in ToReplay : /\ log[l].req \notin Executed(Base.world)
                            /\ \A d \in Base.buffer : d.req # log[l].req
    BY <2>3, PipelineConstants DEF HeldBy
  <2>5. HeldOnce(world, buffer)'
    <3>1. \A d, e \in buffer' : d.req = e.req => d = e
      <4>1. \A d, e \in Base.buffer : d.req = e.req => d = e
        BY <2>2 DEF HeldOnce
      <4>2. \A k, l \in ToReplay : Replayed(k).req = Replayed(l).req => k = l
        BY <2>3
      <4>3. \A d \in Base.buffer, l \in ToReplay : d.req # Replayed(l).req
        BY <2>3, <2>4
      <4> QED
        BY <2>1, <4>1, <4>2, <4>3
    <3>2. \A e \in buffer' : e.req \notin Executed(Base.world)
      BY <2>1, <2>2, <2>3, <2>4 DEF HeldOnce
    <3> QED
      BY <2>1, <2>2, <3>1, <3>2 DEF HeldOnce, Executed
  <2>6. HeldBy(world, buffer)' \subseteq
          HeldBy(Base.world, Base.buffer) \cup {log[l].req : l \in ToReplay}
    BY <2>1, <2>3 DEF HeldBy, Executed
  <2>7. \A r : CommandsOf(r)' = CommandsOf(r) /\ (Logged(r)' <=> Logged(r))
    BY <2>1, LogSame
  <2> DEFINE m == MaxOf(ToReplay, Floor)
  <2>8. m \in Nat /\ Floor \in Nat /\ included' = m
    BY <2>1, RestartType, BaseType
  <2>9. Floor <= m /\ \A l \in ToReplay : l <= m
    BY <2>3
  <2> HIDE DEF m
  <2>10. \A r \in HeldBy(Base.world, Base.buffer) : Logged(r) /\ \A l \in CommandsOf(r) : l <= m
    <3>1. \A r : \A l \in CommandsOf(r) : l \in Nat
      BY LogFacts DEF CommandsOf, CommandsAfter
    <3> QED
      BY <2>2, <2>8, <2>9, <3>1 DEF Covered
  <2>11. \A k \in ToReplay : Logged(log[k].req) /\ \A l \in CommandsOf(log[k].req) : l <= m
    BY <2>3, <2>9 DEF Logged
  <2>12. \A r \in HeldBy(world, buffer)' : Logged(r) /\ \A l \in CommandsOf(r) : l <= m
    BY <2>6, <2>10, <2>11
  <2>13. Covered(world, buffer, included)'
    BY <2>7, <2>8, <2>12 DEF Covered
  <2> QED
    BY <2>5, <2>13 DEF HeldInv
<1>7. CASE Serve
  <2>1. CASE buffer' = buffer
    BY <1>2, <1>7, <2>1 DEF Serve
  <2>2. CASE buffer' # buffer
    <3>1. buffer' = {SeedEntry} /\ log = <<>> /\ world' = world
      BY <1>7, <2>2 DEF Serve
    <3>2. \A r : ~Logged(r)
      BY <3>1 DEF Logged, CommandsOf, CommandsAfter
    <3>3. Executed(world) = {}
      BY <1>1, <3>2 DEF Covered, HeldBy
    <3>4. HeldBy(world, buffer)' = {}
      BY <3>1, <3>3 DEF HeldBy, Executed, SeedEntry
    <3>5. Covered(world, buffer, included)'
      BY <3>4 DEF Covered
    <3>6. HeldOnce(world, buffer)'
      <4>1. Executed(world)' = {}
        BY <3>1, <3>3 DEF Executed
      <4> QED
        BY <1>1, <3>1, <4>1 DEF HeldOnce
    <3> QED
      BY <3>5, <3>6 DEF HeldInv
  <2> QED
    BY <2>1, <2>2
<1>8. CASE Shutdown \/ Crash \/ ReplayDiverges \/ ReplayIncomplete
  BY <1>3, <1>8 DEF Shutdown, Crash, ReplayDiverges, ReplayIncomplete, Refuse, MemoryLost
<1>9. CASE ReplayTick \/ EndReplay \/ WriteOutcome \/ ExitRefused
  BY <1>2, <1>9 DEF ReplayTick, EndReplay, WriteOutcome, ExitRefused
<1>10. CASE EndTick \/ SettleOutcome \/ StartPoll \/ EndPoll
  BY <1>2, <1>10 DEF EndTick, SettleOutcome, StartPoll, EndPoll
<1>11. CASE WalCommit \/ WalFault \/ Publish \/ PublishFails \/ StopSignal \/ UNCHANGED vars
  BY <1>2, <1>11 DEF WalCommit, WalFault, Publish, PublishFails, StopSignal, vars
<1>12. ASSUME NEW p \in pending, PollSkip(p) \/ PollFailed(p) PROVE HeldInv'
  BY <1>2, <1>12 DEF PollSkip, PollFailed
<1>13. ASSUME NEW r \in Request, NEW c \in Command, SubmitKnown(r, c) \/ SubmitNew(r, c)
       PROVE  HeldInv'
  BY <1>2, <1>13 DEF SubmitKnown, SubmitNew
<1> HIDE DEF disk, wal, sim, gateway
<1> QED
  BY <1>4, <1>5, <1>6, <1>7, <1>8, <1>9, <1>10, <1>11, <1>12, <1>13
  DEF Next, MainThread, Recover, Client, PollOne

(* A checkpoint is a copy of a world and a buffer that hold each request    *)
(* once, and the log it covers only grows.                                  *)
LEMMA ImageStep ==
    ASSUME TypeOK, OneRecordInv, HeldInv, ImageInv, [Next]_vars
    PROVE  ImageInv'
<1> USE DEF disk, wal, sim, gateway
<1>1. \A r : Logged(r) => CommandsOf(r)' = CommandsOf(r) /\ Logged(r)'
  BY LogStep
<1>2. ASSUME NEW s, HeldOnce(s.world, s.buffer), Covered(s.world, s.buffer, s.included)
      PROVE  \A r \in HeldBy(s.world, s.buffer) :
                Logged(r)' /\ \A l \in CommandsOf(r)' : l <= s.included
  BY <1>1, <1>2 DEF Covered
<1>3. ASSUME \A s \in {image', frozen'} \ {NoImage} :
                HeldOnce(s.world, s.buffer) /\ Covered(s.world, s.buffer, s.included)
      PROVE  ImageInv'
  <2>1. \A s \in {image', frozen'} \ {NoImage} :
           /\ HeldOnce(s.world, s.buffer)
           /\ \A r \in HeldBy(s.world, s.buffer) :
                Logged(r)' /\ \A l \in CommandsOf(r)' : l <= s.included
    BY <1>2, <1>3
  <2> QED
    BY <2>1 DEF ImageInv, Covered
<1>4. ASSUME image' \in {image, frozen, NoImage}, frozen' \in {image, frozen, NoImage}
      PROVE  ImageInv'
  BY <1>3, <1>4 DEF ImageInv
<1>5. CASE EndTick
  <2>1. image' = image /\ frozen' \in {frozen, Snapshot}
    BY <1>5 DEF EndTick
  <2>2. /\ Snapshot.world = world /\ Snapshot.buffer = buffer
        /\ Snapshot.included = included
    BY DEF Snapshot
  <2> HIDE DEF Snapshot
  <2>3. HeldOnce(Snapshot.world, Snapshot.buffer)
        /\ Covered(Snapshot.world, Snapshot.buffer, Snapshot.included)
    BY <2>2 DEF HeldInv
  <2> QED
    BY <1>3, <2>1, <2>3 DEF ImageInv
<1>6. CASE Publish \/ PublishFails
  BY <1>4, <1>6 DEF Publish, PublishFails
<1>7. CASE Shutdown \/ Crash \/ ReplayDiverges \/ ReplayIncomplete
  BY <1>4, <1>7 DEF Shutdown, Crash, ReplayDiverges, ReplayIncomplete, Refuse, MemoryLost
<1>8. CASE UNCHANGED <<image, frozen>>
  BY <1>4, <1>8
<1>9. CASE Recover
  BY <1>7, <1>8, <1>9 DEF Recover, Restart, ReplayTick, EndReplay, WriteOutcome, Serve, ExitRefused
<1>10. CASE ApplyCommand \/ SettleOutcome \/ StartPoll \/ EndPoll
  BY <1>8, <1>10 DEF ApplyCommand, SettleOutcome, StartPoll, EndPoll
<1>11. CASE WalCommit \/ WalFault \/ StopSignal \/ UNCHANGED vars
  BY <1>8, <1>11 DEF WalCommit, WalFault, StopSignal, vars
<1>12. ASSUME NEW p \in pending, PollOne(p) PROVE ImageInv'
  BY <1>8, <1>12 DEF PollOne, PollSkip, PollFailed, PollDurable
<1>13. ASSUME NEW r \in Request, NEW c \in Command, SubmitKnown(r, c) \/ SubmitNew(r, c)
       PROVE  ImageInv'
  BY <1>8, <1>13 DEF SubmitKnown, SubmitNew
<1> HIDE DEF disk, wal, sim, gateway
<1> QED
  BY <1>5, <1>6, <1>7, <1>9, <1>10, <1>11, <1>12, <1>13 DEF Next, MainThread, Client

LEMMA OnceStep ==
    ASSUME TypeOK, TypeOK', OnceInv, [Next]_vars
    PROVE  OnceInv'
<1>1. WriterInv /\ OneRecordInv /\ OpenInv /\ KnownInv /\ HeldInv /\ ImageInv
  BY DEF OnceInv
<1>2. WriterInv'
  BY <1>1, WriterStep
<1>3. OneRecordInv'
  BY <1>1, OneRecordStep
<1>4. OpenInv' /\ KnownInv'
  BY <1>1, OpenStep, KnownStep
<1>5. HeldInv' /\ ImageInv'
  BY <1>1, HeldStep, ImageStep
<1> QED
  BY <1>2, <1>3, <1>4, <1>5 DEF OnceInv

(* The first start has nothing, hence nothing twice.                        *)
LEMMA InitOnce == Init => OnceInv
<1> SUFFICES ASSUME Init PROVE OnceInv
  OBVIOUS
<1>1. \A r : ~Logged(r)
  BY DEF Init, Logged, CommandsOf, CommandsAfter
<1>2. DOMAIN world.ran = {} /\ buffer = {} /\ image = NoImage /\ frozen = NoImage
  BY DEF Init, EmptyWorld
<1>3. HeldInv /\ ImageInv
  BY <1>2 DEF HeldInv, ImageInv, HeldOnce, Covered, HeldBy, Executed
<1>4. OneRecordInv /\ OpenInv /\ KnownInv
  BY <1>1 DEF Init, OneRecordInv, OpenInv, KnownInv, Logged, Promised, Up, Live, IsCommand
<1> QED
  BY <1>3, <1>4, InitPipeline DEF OnceInv

(* For every number of requests, commands, checkpoints, kills and faults:   *)
(* a command record enters the log once (submit_command reserves the key    *)
(* before the append), a ticket enters the buffer once, and the replay that *)
(* run_daemon performs takes only the records its checkpoint does not hold. *)
THEOREM NothingRunsTwice == Spec => []AtMostOnce
<1>1. Init => TypeOK /\ OnceInv
  BY InitTypeOK, InitOnce
<1>2. TypeOK /\ OnceInv /\ [Next]_vars => TypeOK' /\ OnceInv'
  BY TypeStep, OnceStep
<1>3. OnceInv => AtMostOnce
  <2> SUFFICES ASSUME OnceInv, NEW r \in Request
               PROVE  Cardinality({i \in DOMAIN world.ran : world.ran[i].req = r})
                        + Cardinality({e \in buffer : e.req = r}) <= 1
    BY DEF AtMostOnce
  <2> DEFINE R == {i \in DOMAIN world.ran : world.ran[i].req = r}
             B == {e \in buffer : e.req = r}
  <2>1. HeldOnce(world, buffer)
    BY DEF OnceInv, HeldInv
  <2>2. /\ \A i, j \in R : i = j
        /\ \A d, e \in B : d = e
        /\ R = {} \/ B = {}
    BY <2>1 DEF HeldOnce, Executed
  <2> HIDE DEF R, B
  <2>3. \A S : (\A x, y \in S : x = y) => Cardinality(S) \in {0, 1}
    <3> SUFFICES ASSUME NEW S, \A x, y \in S : x = y PROVE Cardinality(S) \in {0, 1}
      OBVIOUS
    <3>1. CASE S = {}
      BY <3>1, FS_EmptySet
    <3>2. CASE S # {}
      <4>1. PICK x \in S : S = {x}
        BY <3>2
      <4> QED
        BY <4>1, FS_Singleton
    <3> QED
      BY <3>1, <3>2
  <2>4. Cardinality({}) = 0
    BY FS_EmptySet
  <2>5. Cardinality(R) + Cardinality(B) <= 1
    BY <2>2, <2>3, <2>4
  <2> QED
    BY <2>5 DEF R, B
<1> QED
  BY <1>1, <1>2, <1>3, PTL DEF Spec

(* With and without checkpoints: a daemon that serves, the one that told    *)
(* its client or a restarted one that restored its registry from the whole  *)
(* log (DurableIdempotencyIndex::restore), knows every promised request.    *)
THEOREM PromisesAreRemembered == Spec => []PromisedIsRemembered
<1>1. Init => TypeOK /\ OnceInv
  BY InitTypeOK, InitOnce
<1>2. TypeOK /\ OnceInv /\ [Next]_vars => TypeOK' /\ OnceInv'
  BY TypeStep, OnceStep
<1>3. OnceInv => PromisedIsRemembered
  BY DEF OnceInv, KnownInv, PromisedIsRemembered, Up, Live
<1> QED
  BY <1>1, <1>2, <1>3, PTL DEF Spec
=============================================================================
