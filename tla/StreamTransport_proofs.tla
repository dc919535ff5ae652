------------------------ MODULE StreamTransport_proofs ------------------------
(***************************************************************************)
(* Proofs about StreamTransport: frames keep their order between the core  *)
(* and the socket, and the core knows a connection as long as something    *)
(* will report its end, for any number of connections, frames and reads.   *)
(***************************************************************************)
EXTENDS StreamTransport, SequenceTheorems, TLAPS

-----------------------------------------------------------------------------
(* The operations of the two sessions.                                     *)

SameHere(t, s) == t.st = s.st /\ t.closed = s.closed /\ t.transferred = s.transferred

LEMMA WritesHere ==
    ASSUME NEW s \in HereRecord
    PROVE  /\ WriteHere(s) \in HereRecord /\ SameHere(WriteHere(s), s) /\ WriteHere(s).out = s.out
           /\ WriteHere(s).cur = IF s.out = <<>> THEN <<>> ELSE <<Head(s.out)>>
<1>1. ASSUME NEW x \in Seq(Int), NEW b \in BOOLEAN
      PROVE  LET t == [s EXCEPT !.cur = x, !.shutting = b]
             IN  t \in HereRecord /\ SameHere(t, s) /\ t.out = s.out /\ t.cur = x
  BY DEF HereRecord, SameHere
<1>2. CASE s.out # <<>>
  <2>1. <<Head(s.out)>> \in Seq(Int) /\ s.shutting \in BOOLEAN
    BY <1>2 DEF HereRecord
  <2>2. WriteHere(s) = [s EXCEPT !.cur = <<Head(s.out)>>, !.shutting = s.shutting]
    BY <1>2 DEF WriteHere, HereRecord
  <2> QED
    BY <1>1, <1>2, <2>1, <2>2, ZenonT(60)
<1>3. CASE s.out = <<>>
  <2>1. <<>> \in Seq(Int) /\ (s.shutting \/ s.closing) \in BOOLEAN
    BY DEF HereRecord
  <2>2. WriteHere(s) = [s EXCEPT !.cur = <<>>, !.shutting = s.shutting \/ s.closing]
    BY <1>3 DEF WriteHere, HereRecord
  <2> QED
    BY <1>1, <1>3, <2>1, <2>2, ZenonT(60)
<1> QED
  BY <1>2, <1>3

LEMMA QueuesHere ==
    ASSUME NEW s \in HereRecord, NEW x \in Seq(Int)
    PROVE  LET t == [s EXCEPT !.out = x]
           IN  t \in HereRecord /\ SameHere(t, s) /\ t.out = x /\ t.cur = s.cur
BY DEF HereRecord, SameHere

LEMMA EnqueuesHere ==
    ASSUME NEW s \in HereRecord, NEW frames \in Seq(Int)
    PROVE  /\ EnqueueHere(s, frames) \in HereRecord /\ SameHere(EnqueueHere(s, frames), s)
           /\ EnqueueHere(s, frames).out = s.out \o frames
           /\ \/ EnqueueHere(s, frames).cur = s.cur
              \/ /\ s.cur = <<>> /\ s.out \o frames # <<>>
                 /\ EnqueueHere(s, frames).cur = <<Head(s.out \o frames)>>
<1> DEFINE t == [s EXCEPT !.out = @ \o frames]
<1>1. /\ t \in HereRecord /\ SameHere(t, s) /\ t.out = s.out \o frames /\ t.cur = s.cur
  <2>1. s.out \o frames \in Seq(Int) /\ t = [s EXCEPT !.out = s.out \o frames]
    BY DEF HereRecord
  <2> QED
    BY <2>1, QueuesHere
<1>2. EnqueueHere(s, frames) = IF t.out # <<>> /\ s.cur = <<>> /\ ~s.closed /\ s.st = "open"
                               THEN WriteHere(t) ELSE t
  BY DEF EnqueueHere
<1> HIDE DEF t
<1>3. /\ WriteHere(t) \in HereRecord /\ SameHere(WriteHere(t), t) /\ WriteHere(t).out = t.out
      /\ WriteHere(t).cur = IF t.out = <<>> THEN <<>> ELSE <<Head(t.out)>>
  BY <1>1, WritesHere
<1> QED
  BY <1>1, <1>2, <1>3 DEF SameHere

LEMMA ClosesHere ==
    ASSUME NEW s \in HereRecord
    PROVE  /\ CloseHere(s) \in HereRecord /\ SameHere(CloseHere(s), s)
           /\ CloseHere(s).out = s.out /\ CloseHere(s).cur = s.cur
BY DEF CloseHere, HereRecord, SameHere

LEMMA RefusesHere ==
    ASSUME NEW s \in HereRecord
    PROVE  /\ RefuseHere(s) \in HereRecord /\ SameHere(RefuseHere(s), s)
           /\ RefuseHere(s).out = <<Err>> \o s.out
<1> DEFINE t == [s EXCEPT !.out = <<Err>> \o @, !.closing = TRUE]
<1>1. t \in HereRecord /\ SameHere(t, s) /\ t.out = <<Err>> \o s.out
  <2> DEFINE x == <<Err>> \o s.out
  <2>1. x \in Seq(Int) /\ t = [s EXCEPT !.out = x, !.closing = TRUE]
    BY DEF HereRecord, Err
  <2> HIDE DEF x, t
  <2>2. t \in HereRecord /\ SameHere(t, s) /\ t.out = x
    BY <2>1 DEF HereRecord, SameHere
  <2> QED
    BY <2>2 DEF x
<1>2. RefuseHere(s) = IF s.cur = <<>> THEN WriteHere(t) ELSE t
  BY DEF RefuseHere
<1> HIDE DEF t
<1>3. WriteHere(t) \in HereRecord /\ SameHere(WriteHere(t), t) /\ WriteHere(t).out = t.out
  BY <1>1, WritesHere
<1> QED
  BY <1>1, <1>2, <1>3 DEF SameHere

LEMMA WroteOneHere ==
    ASSUME NEW s \in HereRecord, s.out # <<>>
    PROVE  /\ WroteHere(s) \in HereRecord /\ SameHere(WroteHere(s), s)
           /\ WroteHere(s).out = Tail(s.out)
           /\ WroteHere(s).cur = IF Tail(s.out) = <<>> THEN <<>> ELSE <<Head(Tail(s.out))>>
<1> DEFINE t == [s EXCEPT !.out = Tail(@)]
<1>1. t \in HereRecord /\ SameHere(t, s) /\ t.out = Tail(s.out)
  <2>1. Tail(s.out) \in Seq(Int) /\ t = [s EXCEPT !.out = Tail(s.out)]
    BY DEF HereRecord
  <2> QED
    BY <2>1, QueuesHere
<1>2. WroteHere(s) = WriteHere(t)
  BY DEF WroteHere
<1> HIDE DEF t
<1> QED
  BY <1>1, <1>2, WritesHere, ZenonT(60) DEF SameHere

SameThere(t, s) == t.st = s.st /\ t.reported = s.reported

LEMMA WritesThere ==
    ASSUME NEW s \in ThereRecord
    PROVE  /\ WriteThere(s) \in ThereRecord /\ SameThere(WriteThere(s), s)
           /\ WriteThere(s).box = s.box /\ WriteThere(s).cur \o WriteThere(s).queue = s.queue
<1>0. s.queue \in Seq(Int) /\ s.box \in Seq(Int) /\ s.closing \in BOOLEAN
  BY DEF ThereRecord
<1>1. CASE s.queue # <<>>
  <2>1. /\ <<Head(s.queue)>> \in Seq(Int) /\ Tail(s.queue) \in Seq(Int)
        /\ <<Head(s.queue)>> \o Tail(s.queue) = s.queue
    BY <1>0, <1>1
  <2>2. WriteThere(s) = [s EXCEPT !.cur = <<Head(s.queue)>>, !.queue = Tail(s.queue), !.box = s.box,
                                  !.closing = s.closing]
    BY <1>1 DEF WriteThere, ThereRecord
  <2> DEFINE x == <<Head(s.queue)>>
             y == Tail(s.queue)
  <2>3. x \in Seq(Int) /\ y \in Seq(Int) /\ x \o y = s.queue
    BY <2>1
  <2>4. WriteThere(s) = [s EXCEPT !.cur = x, !.queue = y, !.box = s.box, !.closing = s.closing]
    BY <2>2
  <2> HIDE DEF x, y
  <2> QED
    BY <1>0, <2>3, <2>4 DEF ThereRecord, SameThere
<1>2. CASE s.queue = <<>>
  <2>1. <<>> \in Seq(Int) /\ <<>> \o <<>> = <<>>
    OBVIOUS
  <2>2. \E b \in BOOLEAN :
          WriteThere(s) = [s EXCEPT !.cur = <<>>, !.queue = <<>>, !.box = s.box, !.closing = b]
    <3>1. CASE s.close
      BY <1>2, <3>1 DEF WriteThere, DoClose, ThereRecord
    <3>2. CASE ~s.close
      BY <1>0, <1>2, <3>2 DEF WriteThere, ThereRecord
    <3> QED
      BY <3>1, <3>2
  <2> QED
    BY <1>0, <1>2, <2>1, <2>2 DEF ThereRecord, SameThere
<1> QED
  BY <1>1, <1>2

LEMMA TakesOutbox ==
    ASSUME NEW s \in ThereRecord
    PROVE  /\ Taken(s) \in ThereRecord /\ SameThere(Taken(s), s) /\ Taken(s).cur = s.cur
           /\ Taken(s).box = <<>> /\ Taken(s).queue = s.queue \o s.box
<1>1. /\ s.queue \o s.box \in Seq(Int) /\ <<>> \in Seq(Int) /\ s.cur \in Seq(Int)
      /\ s.closing \in BOOLEAN
  BY DEF ThereRecord
<1>2. Taken(s) = [s EXCEPT !.cur = s.cur, !.queue = s.queue \o s.box, !.box = <<>>,
                           !.closing = s.closing]
  BY DEF Taken, ThereRecord
<1> DEFINE y == s.queue \o s.box
<1> HIDE DEF y
<1>3. y \in Seq(Int) /\ Taken(s) = [s EXCEPT !.cur = s.cur, !.queue = y, !.box = <<>>,
                                           !.closing = s.closing]
  BY <1>1, <1>2 DEF y
<1>4. Taken(s).queue = y
  BY <1>3 DEF ThereRecord
<1>5. Taken(s) \in ThereRecord /\ SameThere(Taken(s), s) /\ Taken(s).cur = s.cur /\ Taken(s).box = <<>>
  BY <1>1, <1>3, ZenonT(60) DEF ThereRecord, SameThere
<1> QED
  BY <1>4, <1>5 DEF y

(* flush_local(): every registered session is given frames, none unless the *)
(* core knows it and it is not closed.                                     *)
LEMMA FlushesLocal ==
    ASSUME Shapes, FlushLocal
    PROVE  \E fs \in [Conn -> Seq(Int)] : \A c \in Conn :
              /\ fs[c] # <<>> => c \in locals /\ c \in attached /\ ~here[c].closed
              /\ here'[c] \in HereRecord /\ SameHere(here'[c], here[c])
              /\ here'[c].out = here[c].out \o fs[c]
              /\ \/ here'[c].cur = here[c].cur
                 \/ /\ here[c].cur = <<>> /\ here[c].out \o fs[c] # <<>>
                    /\ here'[c].cur = <<Head(here[c].out \o fs[c])>>
              /\ given'[c].frames = given[c].frames \o fs[c]
              /\ given'[c].why \in {None, "bad", "must"}
              /\ given' \in [Conn -> [frames : Seq(Int), why : {None, "bad", "must"}]]
              /\ taken' \in [Conn -> Int]
<1>0. /\ here \in [Conn -> HereRecord] /\ taken \in [Conn -> Int] /\ locals \subseteq Conn
      /\ given \in [Conn -> [frames : Seq(Int), why : {None, "bad", "must"}]]
  BY DEF Shapes
<1> DEFINE closedOr(c) == IF c \in must THEN CloseHere(here[c]) ELSE here[c]
<1>1. PICK n \in [locals -> 0 .. MaxFrames] :
          /\ \A c \in locals : n[c] > 0 => c \in attached /\ ~here[c].closed
          /\ here' = [c \in Conn |-> IF c \in locals
                                    THEN EnqueueHere(closedOr(c), Numbers(taken[c], n[c]))
                                    ELSE here[c]]
          /\ taken' = [c \in Conn |-> IF c \in locals THEN taken[c] + n[c] ELSE taken[c]]
          /\ given' = [c \in Conn |->
                IF c \notin locals THEN given[c]
                ELSE [frames |-> given[c].frames \o Numbers(taken[c], n[c]),
                      why |-> IF c \in must THEN Because(c, "must") ELSE given[c].why]]
  BY DEF FlushLocal, Known
<1> DEFINE fs == [c \in Conn |-> IF c \in locals THEN Numbers(taken[c], n[c]) ELSE <<>>]
<1>2. ASSUME NEW c \in Conn
      PROVE  /\ fs[c] \in Seq(Int)
             /\ fs[c] # <<>> => c \in locals /\ c \in attached /\ ~here[c].closed
  <2>1. CASE c \in locals
    <3>1. n[c] \in Nat /\ taken[c] \in Int /\ fs[c] = Numbers(taken[c], n[c])
      BY <1>0, <1>1, <2>1
    <3>2. fs[c] = [i \in 1 .. n[c] |-> taken[c] + i]
      BY <3>1 DEF Numbers
    <3> DEFINE N == n[c]
               T == taken[c]
               f == fs[c]
    <3>3. N \in Nat /\ T \in Int /\ f = [i \in 1 .. N |-> T + i]
      BY <3>1, <3>2
    <3>4. N > 0 => c \in attached /\ ~here[c].closed
      BY <1>1, <2>1
    <3> HIDE DEF N, T, fs, f
    <3>5. f \in Seq(Int) /\ Len(f) = N
      BY <3>3
    <3>6. f # <<>> => N > 0
      BY <3>3, <3>5
    <3> QED
      BY <2>1, <3>4, <3>5, <3>6 DEF f
  <2>2. CASE c \notin locals
    BY <2>2
  <2> QED
    BY <2>1, <2>2
<1>3. fs \in [Conn -> Seq(Int)]
  BY <1>2
<1>4. ASSUME NEW c \in Conn
      PROVE  /\ here'[c] \in HereRecord /\ SameHere(here'[c], here[c])
             /\ here'[c].out = here[c].out \o fs[c]
             /\ \/ here'[c].cur = here[c].cur
                \/ /\ here[c].cur = <<>> /\ here[c].out \o fs[c] # <<>>
                   /\ here'[c].cur = <<Head(here[c].out \o fs[c])>>
  <2>1. /\ here[c] \in HereRecord /\ closedOr(c) \in HereRecord /\ SameHere(closedOr(c), here[c])
        /\ closedOr(c).out = here[c].out /\ closedOr(c).cur = here[c].cur
    BY <1>0, ClosesHere DEF SameHere
  <2>2. CASE c \in locals
    <3> DEFINE s == closedOr(c)
               f == fs[c]
    <3>1. here'[c] = EnqueueHere(s, f)
      BY <1>1, <2>2
    <3>2. f \in Seq(Int)
      BY <1>2
    <3> HIDE DEF s, f, fs
    <3>3. /\ EnqueueHere(s, f) \in HereRecord /\ SameHere(EnqueueHere(s, f), s)
          /\ EnqueueHere(s, f).out = s.out \o f
          /\ \/ EnqueueHere(s, f).cur = s.cur
             \/ /\ s.cur = <<>> /\ s.out \o f # <<>>
                /\ EnqueueHere(s, f).cur = <<Head(s.out \o f)>>
      BY <2>1, <3>2, EnqueuesHere DEF s
    <3>4. SameHere(s, here[c]) /\ s.out = here[c].out /\ s.cur = here[c].cur
      BY <2>1 DEF s
    <3> QED
      BY <3>1, <3>3, <3>4 DEF SameHere, f
  <2>3. CASE c \notin locals
    <3>1. here'[c] = here[c] /\ fs[c] = <<>>
      BY <1>1, <2>3
    <3>2. here[c].out \o <<>> = here[c].out
      BY <2>1 DEF HereRecord
    <3> QED
      BY <2>1, <3>1, <3>2 DEF SameHere
  <2> QED
    BY <2>2, <2>3
<1>5. ASSUME NEW c \in Conn
      PROVE  /\ given'[c].frames = given[c].frames \o fs[c]
             /\ given'[c].why \in {None, "bad", "must"}
             /\ given'[c] \in [frames : Seq(Int), why : {None, "bad", "must"}]
  <2>0. given[c].frames \in Seq(Int) /\ given[c].why \in {None, "bad", "must"} /\ fs[c] \in Seq(Int)
    BY <1>0, <1>2
  <2>1. CASE c \in locals
    <3> DEFINE g == given[c].frames \o fs[c]
               w == IF c \in must THEN Because(c, "must") ELSE given[c].why
    <3>1. given'[c] = [frames |-> g, why |-> w]
      BY <1>1, <2>1
    <3>2. g \in Seq(Int)
      <4> HIDE DEF fs
      <4> QED
        BY <2>0
    <3>3. w \in {None, "bad", "must"}
      BY <2>0 DEF Because
    <3> HIDE DEF g, w
    <3>4. given'[c].frames = g /\ given'[c].why = w /\ given'[c] \in [frames : Seq(Int), why : {None, "bad", "must"}]
      BY <3>1, <3>2, <3>3
    <3> QED
      BY <3>3, <3>4 DEF g
  <2>2. CASE c \notin locals
    <3>1. given'[c] = given[c] /\ fs[c] = <<>>
      BY <1>1, <2>2
    <3>2. given[c].frames \o <<>> = given[c].frames
      BY <2>0
    <3> QED
      BY <1>0, <2>0, <3>1, <3>2
  <2> QED
    BY <2>1, <2>2
<1>6. given' \in [Conn -> [frames : Seq(Int), why : {None, "bad", "must"}]]
  BY <1>1, <1>5
<1>7. taken' \in [Conn -> Int]
  <2>1. \A c \in locals : n[c] \in Int
    BY <1>1
  <2> QED
    BY <1>0, <1>1, <2>1
<1> HIDE DEF fs
<1> QED
  BY <1>2, <1>3, <1>4, <1>5, <1>6, <1>7

-----------------------------------------------------------------------------
(* Types.                                                                  *)

LEMMA HereStep == Shapes /\ FrontIsWritten /\ [Next]_vars => here' \in [Conn -> HereRecord]
<1> SUFFICES ASSUME Shapes, FrontIsWritten, [Next]_vars PROVE here' \in [Conn -> HereRecord]
  OBVIOUS
<1> USE DEF mains
<1>0. here \in [Conn -> HereRecord]
  BY DEF Shapes
<1>1. ASSUME NEW c \in Conn, NEW r \in HereRecord, here' = [here EXCEPT ![c] = r]
      PROVE  here' \in [Conn -> HereRecord]
  BY <1>0, <1>1
<1>2. ASSUME NEW c \in Conn
      PROVE  /\ [here[c] EXCEPT !.st = "request"] \in HereRecord
             /\ [here[c] EXCEPT !.st = "accept"] \in HereRecord
             /\ [here[c] EXCEPT !.st = "open"] \in HereRecord
             /\ [here[c] EXCEPT !.closed = TRUE] \in HereRecord
             /\ [here[c] EXCEPT !.closed = TRUE, !.transferred = TRUE] \in HereRecord
  BY <1>0 DEF HereRecord
<1>3. ASSUME NEW c \in Conn, Accept(c) \/ Refuse(c) \/ Attach(c) \/ EndHere(c)
      PROVE  here' \in [Conn -> HereRecord]
  BY <1>0, <1>2, <1>3 DEF Accept, Refuse, Attach, EndHere
<1>4. ASSUME NEW c \in Conn, AcceptedHere(c) PROVE here' \in [Conn -> HereRecord]
  <2> DEFINE s == [here[c] EXCEPT !.st = "open"]
  <2>1. here' = [here EXCEPT ![c] = EnqueueHere(s, <<>>)]
    BY <1>4 DEF AcceptedHere
  <2>2. s \in HereRecord
    BY <1>2
  <2> HIDE DEF s
  <2>3. EnqueueHere(s, <<>>) \in HereRecord
    <3>1. <<>> \in Seq(Int)
      OBVIOUS
    <3> QED
      BY <2>2, <3>1, EnqueuesHere
  <2> QED
    BY <1>1, <2>1, <2>3
<1>5. ASSUME NEW c \in Conn, ReadHere(c) PROVE here' \in [Conn -> HereRecord]
  <2>1. UNCHANGED here \/ here' = [here EXCEPT ![c] = RefuseHere(here[c])]
    BY <1>5 DEF ReadHere
  <2>2. RefuseHere(here[c]) \in HereRecord
    BY <1>0, RefusesHere
  <2> QED
    BY <1>0, <1>1, <2>1, <2>2
<1>6. ASSUME NEW c \in Conn, WroteOne(c) PROVE here' \in [Conn -> HereRecord]
  <2>1. here[c].cur # <<>> /\ here' = [here EXCEPT ![c] = WroteHere(here[c])]
    BY <1>6 DEF WroteOne
  <2>2. here[c].out # <<>> /\ here[c] \in HereRecord
    BY <1>0, <2>1 DEF FrontIsWritten
  <2>3. WroteHere(here[c]) \in HereRecord
    BY <2>2, WroteOneHere
  <2> QED
    BY <1>1, <2>1, <2>3
<1>7. CASE FlushLocal
  <2>1. \A c \in Conn : here'[c] \in HereRecord
    BY <1>7, FlushesLocal
  <2>2. here' = [c \in Conn |-> here'[c]]
    BY <1>7 DEF FlushLocal
  <2> QED
    BY <2>1, <2>2
<1>8. \/ UNCHANGED here \/ FlushLocal
      \/ \E c \in Conn : \/ Accept(c) \/ Refuse(c) \/ Attach(c) \/ EndHere(c) \/ AcceptedHere(c)
                        \/ ReadHere(c) \/ WroteOne(c)
  BY DEF Next, vars, Main, Shard, TakeInbox, HandleEvent, Access, Sweep, FlushRemote, RunHandler,
         TakeOutbox, Condemn, CloseSession, AcceptedThere, ReadThere, WroteThere, EndThere, Leave
<1> QED
  BY <1>0, <1>3, <1>4, <1>5, <1>6, <1>7, <1>8

LEMMA ThereStep == Shapes /\ [Next]_vars => there' \in [Conn -> ThereRecord]
<1> SUFFICES ASSUME Shapes, [Next]_vars PROVE there' \in [Conn -> ThereRecord]
  OBVIOUS
<1> USE DEF shards
<1>0. there \in [Conn -> ThereRecord]
  BY DEF Shapes
<1>1. ASSUME NEW c \in Conn, NEW r \in ThereRecord, there' = [there EXCEPT ![c] = r]
      PROVE  there' \in [Conn -> ThereRecord]
  BY <1>0, <1>1
<1>2. ASSUME NEW c \in Conn
      PROVE  /\ \A st \in {"none", "posted", "accept", "open", "erased"} :
                   [there[c] EXCEPT !.st = st] \in ThereRecord
             /\ [there[c] EXCEPT !.kick = TRUE] \in ThereRecord
             /\ [there[c] EXCEPT !.close = TRUE] \in ThereRecord
             /\ Unkick(there[c]) \in ThereRecord
             /\ DoClose(there[c]) \in ThereRecord
             /\ ReportClosed(there[c]) \in ThereRecord
  BY <1>0 DEF ThereRecord, Unkick, DoClose, ReportClosed
<1>3. ASSUME NEW c \in Conn, Attach(c) \/ AcceptedThere(c) \/ EndThere(c)
      PROVE  there' \in [Conn -> ThereRecord]
  BY <1>0, <1>2, <1>3 DEF Attach, AcceptedThere, EndThere
<1>4. ASSUME NEW c \in Conn, WroteThere(c) PROVE there' \in [Conn -> ThereRecord]
  <2>1. there' = [there EXCEPT ![c] = WriteThere(there[c])] /\ WriteThere(there[c]) \in ThereRecord
    BY <1>0, <1>4, WritesThere DEF WroteThere
  <2> QED
    BY <1>1, <2>1
<1>5. CASE TakeOutbox
  <2> DEFINE s == Taken(there[busy])
  <2>1. busy \in Conn /\ there' = [there EXCEPT ![busy] = IF s.cur = <<>> THEN WriteThere(s) ELSE s]
    BY <1>5 DEF TakeOutbox, Shapes
  <2>2. s \in ThereRecord
    BY <1>0, <2>1, TakesOutbox
  <2> HIDE DEF s
  <2>3. (IF s.cur = <<>> THEN WriteThere(s) ELSE s) \in ThereRecord
    BY <2>2, WritesThere
  <2> QED
    BY <1>1, <2>1, <2>3
<1>6. CASE Access
  <2>1. PICK op, c, f : Head(main.script) = <<op, c, f>> /\ c \in Conn /\ f \in Int
    <3>1. main.script \in Seq(Script) /\ main.script # <<>>
      BY <1>6 DEF Access, Shapes
    <3>2. Head(main.script) \in Script
      BY <3>1, SMTT(60)
    <3> QED
      BY <3>2, SMTT(60) DEF Script
  <2>2. \/ there' = [there EXCEPT ![c].box = Append(@, f)]
        \/ there' = [there EXCEPT ![c].kick = TRUE]
        \/ there' = [there EXCEPT ![c].close = TRUE]
        \/ UNCHANGED there
    <3>1. Head(main.script)[1] = op /\ Head(main.script)[2] = c /\ Head(main.script)[3] = f
      BY <2>1
    <3> QED
      BY <1>6, <3>1 DEF Access
  <2>3. Append(there[c].box, f) \in Seq(Int)
    BY <1>0, <2>1 DEF ThereRecord
  <2>4. [there[c] EXCEPT !.box = Append(@, f)] \in ThereRecord
    BY <1>0, <2>1, <2>3 DEF ThereRecord
  <2> QED
    BY <1>0, <1>2, <2>1, <2>2, <2>4
<1>7. CASE RunHandler
  <2>1. PICK op, c : Head(handlers) = <<op, c>> /\ c \in Conn
    <3>1. handlers \in Seq(Handler) /\ handlers # <<>>
      BY <1>7 DEF RunHandler, Shapes
    <3>2. Head(handlers) \in Handler
      BY <3>1
    <3> QED
      BY <3>2 DEF Handler
  <2>2. \/ there' = [there EXCEPT ![c].st = "accept"]
        \/ there' = [there EXCEPT ![c] = Unkick(@)]
        \/ there' = [there EXCEPT ![c] = IF @.cur = <<>> THEN DoClose(@) ELSE @]
        \/ there' = [there EXCEPT ![c].st = "erased"]
    BY <1>7, <2>1 DEF RunHandler
  <2>3. (IF there[c].cur = <<>> THEN DoClose(there[c]) ELSE there[c]) \in ThereRecord
    BY <1>0, <1>2, <2>1
  <2> QED
    BY <1>0, <1>2, <2>1, <2>2, <2>3
<1>8. \/ UNCHANGED there \/ TakeOutbox \/ Access \/ RunHandler
      \/ \E c \in Conn : Attach(c) \/ AcceptedThere(c) \/ EndThere(c) \/ WroteThere(c)
  BY DEF Next, vars, Main, Shard, TakeInbox, HandleEvent, FlushLocal, Sweep, FlushRemote,
         Accept, Refuse, AcceptedHere, ReadHere, WroteOne, EndHere, Condemn, CloseSession,
         ReadThere, Leave
<1> QED
  BY <1>0, <1>3, <1>4, <1>5, <1>6, <1>7, <1>8

LEMMA ScriptParts ==
    ASSUME NEW c \in Conn, NEW f \in Int
    PROVE  /\ EnqueueThere(c, f) \in Seq(Script) /\ RequestClose(c) \in Seq(Script)
           /\ RefuseThere(c) \in Seq(Script)
           /\ <<<<"post", c, NoFrame>>>> \in Seq(Script) /\ <<>> \in Seq(Script)
<1>1. /\ <<"push", c, f>> \in Script /\ <<"kick", c, f>> \in Script
      /\ <<"flag", c, NoFrame>> \in Script /\ <<"post", c, NoFrame>> \in Script
      /\ <<"push", c, Err>> \in Script /\ <<"kick", c, Err>> \in Script
  BY DEF Script, NoFrame, Err
<1>2. /\ EnqueueThere(c, f) \in Seq(Script) /\ EnqueueThere(c, Err) \in Seq(Script)
      /\ RequestClose(c) \in Seq(Script)
      /\ <<<<"post", c, NoFrame>>>> \in Seq(Script) /\ <<>> \in Seq(Script)
  BY <1>1 DEF EnqueueThere, RequestClose
<1>3. RefuseThere(c) \in Seq(Script)
  BY <1>2 DEF RefuseThere
<1> QED
  BY <1>2, <1>3

LEMMA EventAtHead ==
    ASSUME Shapes, main.events # <<>>
    PROVE  \E kind, c \in Conn \cup {"attach", "ack", "bad", "closed"} :
              /\ kind \in {"attach", "ack", "bad", "closed"} /\ c \in Conn
              /\ Head(main.events) = <<kind, c>>
              /\ Head(main.events)[1] = kind /\ Head(main.events)[2] = c
<1>1. main.events \in Seq(Event)
  BY DEF Shapes
<1>2. Head(main.events) \in Event
  BY <1>1
<1>3. PICK kind \in {"attach", "ack", "bad", "closed"}, c \in Conn : Head(main.events) = <<kind, c>>
  BY <1>2 DEF Event
<1> QED
  BY <1>3

LEMMA ScriptAtHead ==
    ASSUME Shapes, main.script # <<>>
    PROVE  \E op \in {"push", "kick", "flag", "post"}, c \in Conn, f \in Int :
              /\ Head(main.script) = <<op, c, f>> /\ Head(main.script)[1] = op
              /\ Head(main.script)[2] = c /\ Head(main.script)[3] = f
<1>1. main.script \in Seq(Script)
  BY DEF Shapes
<1>2. Head(main.script) \in Script
  BY <1>1
<1>3. PICK op \in {"push", "kick", "flag", "post"}, c \in Conn, f \in Int :
          Head(main.script) = <<op, c, f>>
  BY <1>2 DEF Script
<1> QED
  BY <1>3

LEMMA HandlerAtHead ==
    ASSUME Shapes, handlers # <<>>
    PROVE  \E op \in {"adopt", "drain", "close", "erase"}, c \in Conn :
              /\ Head(handlers) = <<op, c>> /\ Head(handlers)[1] = op /\ Head(handlers)[2] = c
<1>1. handlers \in Seq(Handler)
  BY DEF Shapes
<1>2. Head(handlers) \in Handler
  BY <1>1
<1>3. PICK op \in {"adopt", "drain", "close", "erase"}, c \in Conn : Head(handlers) = <<op, c>>
  BY <1>2 DEF Handler
<1> QED
  BY <1>3

LEMMA MainStep ==
    Shapes /\ [Next]_vars =>
        main' \in [at : {"io", "drain", "flush"}, events : Seq(Event), todo : SUBSET Conn,
                  script : Seq(Script)]
<1> DEFINE M == [at : {"io", "drain", "flush"}, events : Seq(Event), todo : SUBSET Conn,
                 script : Seq(Script)]
<1> SUFFICES ASSUME Shapes, [Next]_vars PROVE main' \in M
  OBVIOUS
<1> USE DEF mains
<1>0. /\ main \in M /\ main.events \in Seq(Event) /\ main.script \in Seq(Script)
      /\ inbox \in Seq(Event) /\ remotes \subseteq Conn /\ <<>> \in Seq(Script)
      /\ main.todo \subseteq Conn
  BY DEF Shapes
<1>1. ASSUME NEW at \in {"io", "drain", "flush"}, NEW e \in Seq(Event), NEW d \in SUBSET Conn,
             NEW p \in Seq(Script),
             main' = [main EXCEPT !.at = at, !.events = e, !.todo = d, !.script = p]
      PROVE  main' \in M
  BY <1>0, <1>1
<1>2. CASE TakeInbox
  <2>1. main' = [main EXCEPT !.at = "drain", !.events = inbox]
    BY <1>2 DEF TakeInbox
  <2> QED
    BY <1>0, <2>1
<1>3. CASE HandleEvent
  <2>1. PICK p : main' = [main EXCEPT !.events = Tail(@), !.script = p] /\ p \in Seq(Script)
    <3>1. main.events # <<>>
      BY <1>3 DEF HandleEvent
    <3>2. PICK c \in Conn : Head(main.events)[2] = c
      BY <3>1, EventAtHead
    <3>3. RefuseThere(c) \in Seq(Script)
      <4>1. 0 \in Int
        OBVIOUS
      <4> QED
        BY <4>1, ScriptParts
    <3> QED
      BY <1>0, <1>3, <3>2, <3>3 DEF HandleEvent
  <2>2. Tail(main.events) \in Seq(Event)
    <3>1. main.events # <<>>
      BY <1>3 DEF HandleEvent
    <3> QED
      BY <1>0, <3>1
  <2> DEFINE e == Tail(main.events)
  <2>3. e \in Seq(Event) /\ main' = [main EXCEPT !.events = e, !.script = p]
    BY <2>1, <2>2
  <2> HIDE DEF e
  <2> QED
    BY <1>0, <2>1, <2>3
<1>4. CASE Access
  <2>1. PICK c \in Conn : Head(main.script)[2] = c
    BY <1>4, ScriptAtHead DEF Access
  <2>2. Tail(main.script) \in Seq(Script) /\ <<<<"post", c, NoFrame>>>> \in Seq(Script)
    <3>1. main.script # <<>>
      BY <1>4 DEF Access
    <3>2. 0 \in Int
      OBVIOUS
    <3> QED
      BY <1>0, <3>1, <3>2, ScriptParts, SMTT(60)
  <2>3. PICK p : main' = [main EXCEPT !.script = p] /\ p \in Seq(Script)
    <3> DEFINE q == <<<<"post", c, NoFrame>>>>
    <3>1. Tail(main.script) \o q \in Seq(Script) /\ Tail(main.script) \o <<>> \in Seq(Script)
      BY <1>0, <2>2, SMTT(60)
    <3>2. \/ main' = [main EXCEPT !.script = Tail(@)]
          \/ main' = [main EXCEPT !.script = Tail(@) \o (IF there[c].close THEN <<>> ELSE q)]
      BY <1>4, <2>1 DEF Access
    <3> QED
      BY <2>2, <3>1, <3>2
  <2> QED
    BY <1>0, <2>3
<1>5. CASE FlushLocal \/ Sweep
  <2>1. \/ main' = [main EXCEPT !.at = "flush", !.todo = remotes]
        \/ main' = [main EXCEPT !.at = "io"]
    BY <1>5 DEF FlushLocal, Sweep
  <2> QED
    BY <1>0, <2>1
<1>6. ASSUME NEW c \in Conn, FlushRemote(c) PROVE main' \in M
  <2>1. taken[c] + 1 \in Int
    BY DEF Shapes
  <2>2. RequestClose(c) \in Seq(Script) /\ EnqueueThere(c, taken[c] + 1) \in Seq(Script)
    BY <2>1, ScriptParts
  <2> DEFINE p == EnqueueThere(c, taken[c] + 1)
             q == RequestClose(c)
             d == main.todo \ {c}
  <2>3. \/ main' = [main EXCEPT !.todo = d, !.script = q]
        \/ main' = [main EXCEPT !.script = p]
        \/ main' = [main EXCEPT !.todo = d]
    BY <1>6 DEF FlushRemote
  <2>4. p \in Seq(Script) /\ q \in Seq(Script) /\ d \in SUBSET Conn
    BY <1>0, <2>2, SMTT(60)
  <2> HIDE DEF p, q, d
  <2> QED
    BY <1>0, <2>3, <2>4
<1>7. \/ UNCHANGED main \/ TakeInbox \/ HandleEvent \/ Access \/ FlushLocal \/ Sweep
      \/ \E c \in Conn : FlushRemote(c)
  BY DEF Next, vars, Main, Shard, RunHandler, TakeOutbox, Accept, Refuse, Attach, AcceptedHere,
         ReadHere, WroteOne, EndHere, Condemn, CloseSession, AcceptedThere, ReadThere, WroteThere,
         EndThere, Leave
<1> QED
  BY <1>0, <1>2, <1>3, <1>4, <1>5, <1>6, <1>7

LEMMA PostedStep ==
    Shapes /\ [Next]_vars => handlers' \in Seq(Handler) /\ inbox' \in Seq(Event)
                             /\ busy' \in Conn \cup {None}
<1> SUFFICES ASSUME Shapes, [Next]_vars
             PROVE  handlers' \in Seq(Handler) /\ inbox' \in Seq(Event) /\ busy' \in Conn \cup {None}
  OBVIOUS
<1> USE DEF mains, shards
<1>0. handlers \in Seq(Handler) /\ inbox \in Seq(Event) /\ busy \in Conn \cup {None}
  BY DEF Shapes
<1>a. /\ \A h \in Handler : Append(handlers, h) \in Seq(Handler)
      /\ \A e \in Event : Append(inbox, e) \in Seq(Event)
  BY <1>0
<1>b. ASSUME NEW c \in Conn
      PROVE  /\ <<"adopt", c>> \in Handler /\ <<"drain", c>> \in Handler
             /\ <<"close", c>> \in Handler /\ <<"erase", c>> \in Handler
             /\ <<"attach", c>> \in Event /\ <<"ack", c>> \in Event
             /\ <<"bad", c>> \in Event /\ <<"closed", c>> \in Event
  BY DEF Handler, Event
<1>1. ASSUME NEW c \in Conn
      PROVE  /\ Append(handlers, <<"adopt", c>>) \in Seq(Handler)
             /\ Append(handlers, <<"drain", c>>) \in Seq(Handler)
             /\ Append(handlers, <<"close", c>>) \in Seq(Handler)
             /\ Append(handlers, <<"erase", c>>) \in Seq(Handler)
             /\ Append(inbox, <<"attach", c>>) \in Seq(Event)
             /\ Append(inbox, <<"ack", c>>) \in Seq(Event)
             /\ Append(inbox, <<"bad", c>>) \in Seq(Event)
             /\ Append(inbox, <<"closed", c>>) \in Seq(Event)
  BY <1>a, <1>b
<1>2. handlers' \in Seq(Handler)
  <2>1. ASSUME NEW c \in Conn, Attach(c) PROVE handlers' \in Seq(Handler)
    <3>1. handlers' = handlers \/ handlers' = Append(handlers, <<"adopt", c>>)
      BY <2>1 DEF Attach
    <3> QED
      BY <1>0, <1>1, <3>1
  <2>2. CASE HandleEvent
    <3>1. main.events # <<>>
      BY <2>2 DEF HandleEvent
    <3>2. PICK c \in Conn : Head(main.events)[2] = c
      BY <3>1, EventAtHead
    <3>3. handlers' = handlers \/ handlers' = Append(handlers, <<"erase", c>>)
      BY <2>2, <3>2, SMTT(60) DEF HandleEvent
    <3> QED
      BY <1>0, <1>1, <3>3
  <2>3. CASE Access
    <3>1. PICK c \in Conn : Head(main.script)[2] = c
      BY <2>3, ScriptAtHead DEF Access
    <3>2. \/ handlers' = handlers
          \/ handlers' = Append(handlers, <<"drain", c>>)
          \/ handlers' = Append(handlers, <<"close", c>>)
      BY <2>3, <3>1 DEF Access
    <3> QED
      BY <1>0, <1>1, <3>2
  <2>4. CASE RunHandler
    <3>1. handlers # <<>> /\ handlers' = Tail(handlers)
      BY <2>4, SMTT(60) DEF RunHandler
    <3> QED
      BY <1>0, <3>1, SMTT(60)
  <2>5. \/ UNCHANGED handlers \/ HandleEvent \/ Access \/ RunHandler \/ \E c \in Conn : Attach(c)
    BY ZenonT(60) DEF Next, vars, Main, Shard, TakeInbox, FlushLocal, Sweep, FlushRemote, TakeOutbox, Accept,
           Refuse, AcceptedHere, ReadHere, WroteOne, EndHere, Condemn, CloseSession,
           AcceptedThere, ReadThere,
           WroteThere, EndThere, Leave
  <2> QED
    BY <1>0, <2>1, <2>2, <2>3, <2>4, <2>5
<1>3. inbox' \in Seq(Event)
  <2>1. ASSUME NEW c \in Conn, AcceptedThere(c) \/ ReadThere(c) \/ EndThere(c)
        PROVE  inbox' \in Seq(Event)
    <3>1. \/ inbox' = inbox
          \/ inbox' = Append(inbox, <<"attach", c>>) \/ inbox' = Append(inbox, <<"ack", c>>)
          \/ inbox' = Append(inbox, <<"bad", c>>) \/ inbox' = Append(inbox, <<"closed", c>>)
      BY <2>1 DEF AcceptedThere, ReadThere, EndThere, Closed
    <3> QED
      BY <1>0, <1>1, <3>1
  <2>2. CASE TakeInbox
    <3>1. inbox' = <<>>
      BY <2>2 DEF TakeInbox
    <3> QED
      BY <3>1
  <2>3. \/ UNCHANGED inbox \/ TakeInbox
        \/ \E c \in Conn : AcceptedThere(c) \/ ReadThere(c) \/ EndThere(c)
    BY ZenonT(60) DEF Next, vars, Main, Shard, HandleEvent, Access, RunHandler, FlushLocal, Sweep, FlushRemote,
           TakeOutbox, Accept, Attach, Refuse, AcceptedHere, ReadHere, WroteOne, EndHere, Condemn,
           CloseSession,
           WroteThere, Leave
  <2> QED
    BY <1>0, <2>1, <2>2, <2>3
<1>4. busy' \in Conn \cup {None}
  <2>1. CASE RunHandler
    <3>1. PICK c \in Conn : Head(handlers)[2] = c
      BY <2>1, HandlerAtHead DEF RunHandler
    <3>2. busy' \in {busy, c}
      BY <2>1, <3>1, SMTT(60) DEF RunHandler
    <3> QED
      BY <1>0, <3>2
  <2>2. UNCHANGED busy \/ busy' = None \/ RunHandler
    BY ZenonT(60) DEF Next, vars, Main, Shard, TakeInbox, HandleEvent, Access, FlushLocal, Sweep, FlushRemote,
           TakeOutbox, Accept, Attach, Refuse, AcceptedHere, ReadHere, WroteOne, EndHere, Condemn,
           CloseSession,
           AcceptedThere, ReadThere, EndThere, WroteThere, Leave
  <2> QED
    BY <1>0, <2>1, <2>2
<1> QED
  BY <1>2, <1>3, <1>4

LEMMA HistoryStep ==
    Shapes /\ [Next]_vars => /\ wire' \in [Conn -> Seq(Int)] /\ taken' \in [Conn -> Int]
                             /\ given' \in [Conn -> [frames : Seq(Int), why : {None, "bad", "must"}]]
<1> DEFINE G == [frames : Seq(Int), why : {None, "bad", "must"}]
<1> SUFFICES ASSUME Shapes, [Next]_vars
             PROVE  wire' \in [Conn -> Seq(Int)] /\ taken' \in [Conn -> Int] /\ given' \in [Conn -> G]
  OBVIOUS
<1> USE DEF mains
<1>0. /\ wire \in [Conn -> Seq(Int)] /\ taken \in [Conn -> Int] /\ given \in [Conn -> G]
  BY DEF Shapes
<1>1. wire' \in [Conn -> Seq(Int)]
  <2>1. ASSUME NEW c \in Conn, NEW x \in Seq(Int), wire' = [wire EXCEPT ![c] = @ \o x]
        PROVE  wire' \in [Conn -> Seq(Int)]
    BY <1>0, <2>1
  <2>2. ASSUME NEW c \in Conn, WroteOne(c) \/ WroteThere(c) PROVE wire' \in [Conn -> Seq(Int)]
    <3>1. here[c].cur \in Seq(Int) /\ there[c].cur \in Seq(Int)
      BY DEF Shapes, HereRecord, ThereRecord
    <3> QED
      BY <2>1, <2>2, <3>1 DEF WroteOne, WroteThere
  <2>3. UNCHANGED wire \/ \E c \in Conn : WroteOne(c) \/ WroteThere(c)
    BY ZenonT(60) DEF Next, vars, Main, Shard, TakeInbox, HandleEvent, Access, FlushLocal, Sweep, FlushRemote,
           RunHandler, TakeOutbox, Accept, Attach, Refuse, AcceptedHere, ReadHere, EndHere,
           Condemn, CloseSession,
           AcceptedThere, ReadThere, EndThere, Leave
  <2> QED
    BY <1>0, <2>2, <2>3
<1>2. taken' \in [Conn -> Int]
  <2>1. CASE FlushLocal
    <3>1. ASSUME Conn # {} PROVE taken' \in [Conn -> Int]
      BY <2>1, <3>1, FlushesLocal
    <3>2. ASSUME Conn = {} PROVE taken' \in [Conn -> Int]
      BY <1>0, <2>1, <3>2 DEF FlushLocal
    <3> QED
      BY <3>1, <3>2
  <2>2. ASSUME NEW c \in Conn, FlushRemote(c) PROVE taken' \in [Conn -> Int]
    BY <1>0, <2>2 DEF FlushRemote
  <2>3. UNCHANGED taken \/ FlushLocal \/ \E c \in Conn : FlushRemote(c)
    BY DEF Next, vars, Main, Shard, TakeInbox, HandleEvent, Access, Sweep, WroteOne, WroteThere,
           RunHandler, TakeOutbox, Accept, Attach, Refuse, AcceptedHere, ReadHere, EndHere,
           Condemn, CloseSession,
           AcceptedThere, ReadThere, EndThere, Leave
  <2> QED
    BY <1>0, <2>1, <2>2, <2>3
<1>3. given' \in [Conn -> G]
  <2>1. CASE FlushLocal
    <3>1. ASSUME Conn # {} PROVE given' \in [Conn -> G]
      BY <2>1, <3>1, FlushesLocal
    <3>2. ASSUME Conn = {} PROVE given' \in [Conn -> G]
      BY <1>0, <2>1, <3>2 DEF FlushLocal
    <3> QED
      BY <3>1, <3>2
  <2>2. ASSUME NEW c \in Conn, NEW why \in {None, "bad", "must"}
        PROVE  /\ [given[c] EXCEPT !.why = why] \in G
               /\ Because(c, why) \in {None, "bad", "must"}
    BY <1>0 DEF Because
  <2>3. ASSUME NEW c \in Conn, FlushRemote(c) PROVE given' \in [Conn -> G]
    <3>1. \/ UNCHANGED given
          \/ given' = [given EXCEPT ![c].why = Because(c, "must")]
      BY <2>3 DEF FlushRemote
    <3> QED
      BY <1>0, <2>2, <3>1, ZenonT(60)
  <2>4. ASSUME NEW c \in Conn, NEW f \in Int, NEW why \in {None, "bad", "must"}
        PROVE  [given EXCEPT ![c].frames = Append(@, f), ![c].why = why] \in [Conn -> G]
    <3>1. Append(given[c].frames, f) \in Seq(Int)
      BY <1>0
    <3> DEFINE x == Append(given[c].frames, f)
    <3>2. x \in Seq(Int)
      BY <3>1
    <3> HIDE DEF x
    <3>3. [given EXCEPT ![c].frames = x] \in [Conn -> G]
      BY <1>0, <3>2
    <3> DEFINE g == [given EXCEPT ![c].frames = x]
    <3>4. [given EXCEPT ![c].frames = x, ![c].why = why] = [g EXCEPT ![c].why = why]
      OBVIOUS
    <3>5. g \in [Conn -> G]
      BY <3>3
    <3> HIDE DEF g
    <3>6. [g EXCEPT ![c].why = why] \in [Conn -> G]
      BY <3>5
    <3> QED
      BY <3>4, <3>6 DEF x
  <2>5. ASSUME NEW c \in Conn, ReadHere(c) PROVE given' \in [Conn -> G]
    <3>1. \/ UNCHANGED given
          \/ given' = [given EXCEPT ![c].frames = Append(@, Err), ![c].why = Because(c, "bad")]
      BY <2>5 DEF ReadHere
    <3>2. Err \in Int
      BY DEF Err
    <3>3. Because(c, "bad") \in {None, "bad", "must"}
      BY <2>2
    <3> DEFINE w == Because(c, "bad")
    <3>4. UNCHANGED given
          \/ given' = [given EXCEPT ![c].frames = Append(@, Err), ![c].why = w]
      BY <3>1
    <3>5. w \in {None, "bad", "must"}
      BY <3>3
    <3> HIDE DEF w
    <3>6. [given EXCEPT ![c].frames = Append(@, Err), ![c].why = w] \in [Conn -> G]
      BY <2>4, <3>2, <3>5
    <3> QED
      BY <1>0, <3>4, <3>6
  <2>6. CASE HandleEvent
    <3>1. main.events # <<>>
      BY <2>6 DEF HandleEvent
    <3>2. PICK c \in Conn : Head(main.events)[2] = c
      BY <3>1, EventAtHead
    <3>3. \/ given' = [given EXCEPT ![c].why = Because(c, "bad")]
          \/ given' = [given EXCEPT ![c].why = given[c].why]
      BY <2>6, <3>2 DEF HandleEvent
    <3>4. Because(c, "bad") \in {None, "bad", "must"} /\ given[c].why \in {None, "bad", "must"}
      BY <1>0, <2>2, ZenonT(60)
    <3>5. PICK w \in {None, "bad", "must"} : given' = [given EXCEPT ![c].why = w]
      BY <3>3, <3>4
    <3> QED
      BY <1>0, <3>5
  <2>7. CASE Access
    <3>1. PICK c \in Conn, f \in Int : Head(main.script)[2] = c /\ Head(main.script)[3] = f
      BY <2>7, ScriptAtHead DEF Access
    <3>2. UNCHANGED given \/ given' = [given EXCEPT ![c].frames = Append(@, f)]
      BY <2>7, <3>1 DEF Access
    <3>3. Append(given[c].frames, f) \in Seq(Int)
      BY <1>0
    <3> DEFINE x == Append(given[c].frames, f)
    <3>4. x \in Seq(Int) /\ (UNCHANGED given \/ given' = [given EXCEPT ![c].frames = x])
      BY <3>2, <3>3, SMTT(60)
    <3> HIDE DEF x
    <3> QED
      BY <1>0, <3>4, ZenonT(60)
  <2>8. \/ UNCHANGED given \/ FlushLocal \/ HandleEvent \/ Access
        \/ \E c \in Conn : FlushRemote(c) \/ ReadHere(c)
    BY DEF Next, vars, Main, Shard, TakeInbox, Sweep, WroteOne, WroteThere,
           RunHandler, TakeOutbox, Accept, Attach, Refuse, AcceptedHere, EndHere, Condemn,
           CloseSession,
           AcceptedThere, ReadThere, EndThere, Leave
  <2> QED
    BY <1>0, <2>1, <2>3, <2>5, <2>6, <2>7, <2>8
<1> QED
  BY <1>1, <1>2, <1>3

LEMMA SessionsStep ==
    [Next]_vars => /\ UNCHANGED sharded
                   /\ \/ UNCHANGED locals \/ locals' = locals \ Swept
                      \/ \E c \in Conn : locals' = locals \cup {c}
                   /\ UNCHANGED remotes \/ HandleEvent
                   /\ \/ UNCHANGED <<attached, must>> \/ HandleEvent
                      \/ \E c \in Conn : attached' = attached \cup {c} /\ must' = must
                      \/ \E c \in attached : attached' = attached /\ must' = must \cup {c}
                      \/ \E S : attached' = attached /\ must' = must \ S
                      \/ attached' = attached \ Detachable /\ must' = must \ Detachable
<1> USE DEF mains, shards
<1> DEFINE Goal == /\ UNCHANGED sharded
                   /\ \/ UNCHANGED locals \/ locals' = locals \ Swept
                      \/ \E c \in Conn : locals' = locals \cup {c}
                   /\ UNCHANGED remotes \/ HandleEvent
                   /\ \/ UNCHANGED <<attached, must>> \/ HandleEvent
                      \/ \E c \in Conn : attached' = attached \cup {c} /\ must' = must
                      \/ \E c \in attached : attached' = attached /\ must' = must \cup {c}
                      \/ \E S : attached' = attached /\ must' = must \ S
                      \/ attached' = attached \ Detachable /\ must' = must \ Detachable
<1> SUFFICES ASSUME [Next]_vars PROVE Goal
  OBVIOUS
<1>1. ASSUME NEW c \in Conn, Accept(c) \/ Refuse(c) \/ Attach(c) \/ AcceptedHere(c) PROVE Goal
  BY <1>1 DEF Accept, Refuse, Attach, AcceptedHere
<1>2. ASSUME NEW c \in Conn, WroteOne(c) \/ EndHere(c) \/ Condemn(c) PROVE Goal
  BY <1>2 DEF WroteOne, EndHere, Condemn, Known
<1>b. ASSUME NEW S \in SUBSET Conn, CloseSession(S) PROVE Goal
  BY <1>b DEF CloseSession
<1>3. ASSUME NEW c \in Conn, ReadHere(c) PROVE Goal
  <2>1. UNCHANGED <<sharded, attached, locals, remotes>> /\ must' \in {must, must \cup ({c} \cap Known)}
    BY <1>3 DEF ReadHere
  <2>2. CASE c \in Known
    BY <2>1, <2>2 DEF Known
  <2>3. CASE c \notin Known
    BY <2>1, <2>3
  <2> QED
    BY <2>2, <2>3
<1>4. ASSUME NEW c \in Conn,
             AcceptedThere(c) \/ ReadThere(c) \/ WroteThere(c) \/ EndThere(c) \/ Leave(c)
      PROVE  Goal
  <2>1. UNCHANGED <<sharded, locals, remotes, attached, must>>
    <3>1. CASE AcceptedThere(c)
      BY <3>1 DEF AcceptedThere
    <3>2. CASE ReadThere(c)
      BY <3>2 DEF ReadThere
    <3>3. CASE WroteThere(c)
      BY <3>3 DEF WroteThere
    <3>4. CASE EndThere(c)
      BY <3>4 DEF EndThere
    <3>5. CASE Leave(c)
      BY <3>5 DEF Leave
    <3> QED
      BY <1>4, <3>1, <3>2, <3>3, <3>4, <3>5
  <2> QED
    BY <2>1
<1>5. CASE Shard
  BY <1>5 DEF Shard, RunHandler, TakeOutbox
<1>6. CASE TakeInbox \/ Access \/ FlushLocal
  <2>1. UNCHANGED <<sharded, locals, remotes, attached, must>>
    <3>1. CASE TakeInbox
      BY <3>1 DEF TakeInbox
    <3>2. CASE Access
      BY <3>2, Zenon DEF Access
    <3>3. CASE FlushLocal
      BY <3>3 DEF FlushLocal
    <3> QED
      BY <1>6, <3>1, <3>2, <3>3
  <2> QED
    BY <2>1
<1>a. CASE Sweep
  BY <1>a DEF Sweep
<1>7. ASSUME NEW c \in Conn, FlushRemote(c) PROVE Goal
  BY <1>7 DEF FlushRemote
<1>8. CASE HandleEvent
  BY <1>8 DEF HandleEvent
<1>9. CASE UNCHANGED vars
  BY <1>9 DEF vars
<1> HIDE DEF Goal
<1> QED
  BY <1>1, <1>2, <1>3, <1>4, <1>5, <1>6, <1>7, <1>8, <1>9, <1>a, <1>b DEF Next, Main

LEMMA SetsStep ==
    Shapes /\ [Next]_vars => /\ sharded' = sharded /\ locals' \subseteq Conn /\ remotes' \subseteq Conn
                             /\ attached' \subseteq Conn /\ must' \subseteq attached'
<1> SUFFICES ASSUME Shapes, [Next]_vars
             PROVE  /\ sharded' = sharded /\ locals' \subseteq Conn /\ remotes' \subseteq Conn
                    /\ attached' \subseteq Conn /\ must' \subseteq attached'
  OBVIOUS
<1> USE DEF mains, shards
<1>0. locals \subseteq Conn /\ remotes \subseteq Conn /\ attached \subseteq Conn /\ must \subseteq attached
  BY DEF Shapes
<1>1. sharded' = sharded
  BY SessionsStep
<1>2. locals' \subseteq Conn
  <2>1. UNCHANGED locals \/ (\E c \in Conn : locals' = locals \cup {c}) \/ locals' = locals \ Swept
    BY SessionsStep
  <2> QED
    BY <1>0, <2>1
<1>3. CASE HandleEvent
  <2>1. main.events # <<>>
    BY <1>3 DEF HandleEvent
  <2>2. PICK kind \in {"attach", "ack", "bad", "closed"}, c \in Conn :
            Head(main.events)[1] = kind /\ Head(main.events)[2] = c
    BY <2>1, EventAtHead
  <2>3. /\ remotes' = Registered(kind, c)
        /\ attached' = IF kind = "closed" THEN attached \ {c} ELSE attached
        /\ must' \in {must \cap attached'} \cup
                     (IF kind = "ack" THEN {must \cup ({c} \cap Known)} ELSE {})
    BY <1>3, <2>2 DEF HandleEvent
  <2>4. remotes' \subseteq Conn
    BY <1>0, <2>3 DEF Registered
  <2>5. attached' \subseteq Conn
    BY <1>0, <2>3
  <2>6. must' \subseteq attached'
    <3>1. CASE kind = "ack"
      BY <1>0, <2>3, <3>1 DEF Known
    <3>2. CASE kind # "ack"
      BY <1>0, <2>3, <3>2
    <3> QED
      BY <3>1, <3>2
  <2> QED
    BY <1>1, <1>2, <2>4, <2>5, <2>6
<1>4. CASE ~HandleEvent
  <2>1. UNCHANGED remotes
    BY <1>4, SessionsStep
  <2>2. \/ UNCHANGED <<attached, must>>
        \/ \E c \in Conn : attached' = attached \cup {c} /\ must' = must
        \/ \E c \in attached : attached' = attached /\ must' = must \cup {c}
        \/ \E S : attached' = attached /\ must' = must \ S
        \/ attached' = attached \ Detachable /\ must' = must \ Detachable
    BY <1>4, SessionsStep
  <2>3. attached' \subseteq Conn /\ must' \subseteq attached'
    BY <1>0, <2>2
  <2> QED
    BY <1>0, <1>1, <1>2, <2>1, <2>3
<1> QED
  BY <1>3, <1>4

LEMMA ShapesStep == Shapes /\ FrontIsWritten /\ [Next]_vars => Shapes'
<1> SUFFICES ASSUME Shapes, FrontIsWritten, [Next]_vars PROVE Shapes'
  OBVIOUS
<1>1. sharded' \in BOOLEAN
  BY SetsStep DEF Shapes
<1> QED
  BY <1>1, HereStep, ThereStep, MainStep, PostedStep, HistoryStep, SetsStep DEF Shapes

-----------------------------------------------------------------------------
(* The frames of a connection: the steps that move them.                   *)

KeptHere(c)  == here'[c].out = here[c].out /\ here'[c].cur = here[c].cur
KeptThere(c) == /\ there'[c].box = there[c].box /\ there'[c].queue = there[c].queue
                /\ there'[c].cur = there[c].cur
KeptGiven(c) == wire'[c] = wire[c] /\ given'[c].frames = given[c].frames
Kept(c)      == KeptHere(c) /\ KeptThere(c) /\ KeptGiven(c)

Pushed(c) ==
    /\ sharded /\ KeptHere(c) /\ wire'[c] = wire[c]
    /\ there'[c].queue = there[c].queue /\ there'[c].cur = there[c].cur
    /\ \E f \in Int : /\ there'[c].box = Append(there[c].box, f)
                      /\ given'[c].frames = Append(given[c].frames, f)
TookBox(c) ==
    /\ KeptHere(c) /\ KeptGiven(c) /\ there'[c].box = <<>>
    /\ there'[c].cur \o there'[c].queue = there[c].cur \o (there[c].queue \o there[c].box)
WroteShard(c) ==
    /\ sharded /\ KeptHere(c) /\ given'[c].frames = given[c].frames
    /\ wire'[c] = wire[c] \o there[c].cur
    /\ there'[c].cur \o there'[c].queue = there[c].queue /\ there'[c].box = there[c].box
RefusedNow(c) ==
    /\ ~sharded /\ KeptThere(c) /\ wire'[c] = wire[c]
    /\ here'[c].out # <<>> /\ given'[c].frames = Append(given[c].frames, Err)
WroteFront(c) ==
    /\ ~sharded /\ KeptThere(c) /\ given'[c].frames = given[c].frames
    /\ here[c].cur # <<>> /\ here[c].out # <<>> /\ wire'[c] = wire[c] \o here[c].cur
    /\ here'[c].out = Tail(here[c].out)
    /\ here'[c].cur = IF here'[c].out = <<>> THEN <<>> ELSE <<Head(here'[c].out)>>
QueuedHere(c) ==
    /\ KeptThere(c) /\ wire'[c] = wire[c]
    /\ \E fs \in Seq(Int) :
          /\ sharded => fs = <<>>
          /\ here'[c].out = here[c].out \o fs /\ given'[c].frames = given[c].frames \o fs
          /\ \/ here'[c].cur = here[c].cur
             \/ /\ here[c].cur = <<>> /\ here[c].out \o fs # <<>>
                /\ here'[c].cur = <<Head(here[c].out \o fs)>>

Moves(c) == \/ Kept(c) \/ Pushed(c) \/ TookBox(c) \/ WroteShard(c)
            \/ RefusedNow(c) \/ WroteFront(c) \/ QueuedHere(c)

LEMMA ElsewhereKept ==
    ASSUME NEW c \in Conn, UNCHANGED <<here, there, wire, given>>
    PROVE  Kept(c)
BY DEF Kept, KeptHere, KeptThere, KeptGiven

(* The main thread's session of one connection.                            *)
LEMMA HereMoves ==
    ASSUME Shapes, OneCarrier, FrontIsWritten, NEW c \in Conn, NEW d \in Conn,
           \/ Accept(d) \/ Refuse(d) \/ Attach(d) \/ AcceptedHere(d) \/ ReadHere(d)
           \/ WroteOne(d) \/ EndHere(d) \/ Condemn(d)
    PROVE  Moves(c)
<1> USE DEF mains, shards, Kept, KeptHere, KeptThere, KeptGiven
<1>0. /\ here \in [Conn -> HereRecord] /\ there \in [Conn -> ThereRecord]
      /\ given \in [Conn -> [frames : Seq(Int), why : {None, "bad", "must"}]]
      /\ wire \in [Conn -> Seq(Int)]
  BY DEF Shapes
<1>a. ASSUME NEW r \in HereRecord, here' = [here EXCEPT ![d] = r],
             r.out = here[d].out, r.cur = here[d].cur
      PROVE  KeptHere(c)
  BY <1>0, <1>a
<1>b. /\ \A st \in {"request", "accept"} :
            LET r == [here[d] EXCEPT !.st = st]
            IN  r \in HereRecord /\ r.out = here[d].out /\ r.cur = here[d].cur
      /\ LET r == [here[d] EXCEPT !.closed = TRUE]
         IN  r \in HereRecord /\ r.out = here[d].out /\ r.cur = here[d].cur
      /\ LET r == [here[d] EXCEPT !.closed = TRUE, !.transferred = TRUE]
         IN  r \in HereRecord /\ r.out = here[d].out /\ r.cur = here[d].cur
  BY <1>0, ZenonT(60) DEF HereRecord
<1>1. CASE Accept(d) \/ Refuse(d) \/ EndHere(d)
  <2>1. /\ \/ here' = [here EXCEPT ![d] = [here[d] EXCEPT !.st = "request"]]
           \/ here' = [here EXCEPT ![d] = [here[d] EXCEPT !.closed = TRUE]]
        /\ UNCHANGED <<there, wire, given>>
    BY <1>1 DEF Accept, Refuse, EndHere
  <2>2. KeptHere(c)
    BY <1>a, <1>b, <2>1
  <2> QED
    BY <2>1, <2>2 DEF Moves
<1>2. CASE Attach(d)
  <2>1. /\ \/ here' = [here EXCEPT ![d] = [here[d] EXCEPT !.st = "accept"]]
           \/ here' = [here EXCEPT ![d] = [here[d] EXCEPT !.closed = TRUE, !.transferred = TRUE]]
           \/ here' = [here EXCEPT ![d] = [here[d] EXCEPT !.closed = TRUE]]
        /\ UNCHANGED there \/ there' = [there EXCEPT ![d] = [there[d] EXCEPT !.st = "posted"]]
        /\ UNCHANGED <<wire, given>>
    BY <1>2 DEF Attach
  <2>2. KeptHere(c)
    BY <1>a, <1>b, <2>1
  <2>3. KeptThere(c)
    <3> DEFINE r == [there[d] EXCEPT !.st = "posted"]
    <3>1. r.box = there[d].box /\ r.queue = there[d].queue /\ r.cur = there[d].cur
      BY <1>0 DEF ThereRecord
    <3>2. UNCHANGED there \/ there' = [there EXCEPT ![d] = r]
      BY <2>1
    <3> HIDE DEF r
    <3> QED
      BY <1>0, <3>1, <3>2
  <2> QED
    BY <2>1, <2>2, <2>3 DEF Moves
<1>3. CASE AcceptedHere(d)
  <2> DEFINE s == [here[d] EXCEPT !.st = "open"]
  <2>1. here' = [here EXCEPT ![d] = EnqueueHere(s, <<>>)] /\ UNCHANGED <<there, wire, given>>
    BY <1>3 DEF AcceptedHere
  <2>2. s \in HereRecord /\ s.out = here[d].out /\ s.cur = here[d].cur
    BY <1>0, ZenonT(60) DEF HereRecord
  <2>3. <<>> \in Seq(Int)
    OBVIOUS
  <2> HIDE DEF s
  <2>4. /\ EnqueueHere(s, <<>>).out = s.out \o <<>>
        /\ \/ EnqueueHere(s, <<>>).cur = s.cur
           \/ /\ s.cur = <<>> /\ s.out \o <<>> # <<>>
              /\ EnqueueHere(s, <<>>).cur = <<Head(s.out \o <<>>)>>
    BY <2>2, <2>3, EnqueuesHere
  <2>5. CASE c = d
    <3>1. here'[c] = EnqueueHere(s, <<>>)
      BY <1>0, <2>1, <2>5
    <3>2. given'[c].frames = given[c].frames \o <<>>
      BY <1>0, <2>1
    <3> QED
      BY <2>1, <2>2, <2>3, <2>4, <2>5, <3>1, <3>2 DEF Moves, QueuedHere
  <2>6. CASE c # d
    BY <1>0, <2>1, <2>6 DEF Moves
  <2> QED
    BY <2>5, <2>6
<1>4. CASE ReadHere(d)
  <2>1. CASE UNCHANGED <<here, given>>
    BY <1>4, <2>1 DEF ReadHere, Moves
  <2>2. CASE ~UNCHANGED <<here, given>>
    <3>1. /\ here' = [here EXCEPT ![d] = RefuseHere(here[d])]
          /\ given' = [given EXCEPT ![d].frames = Append(@, Err), ![d].why = Because(d, "bad")]
          /\ UNCHANGED <<there, wire>> /\ here[d].st = "open"
      BY <1>4, <2>2 DEF ReadHere
    <3>2. ~sharded
      BY <3>1 DEF OneCarrier
    <3>3. CASE c = d
      <4>1. here'[c].out = <<Err>> \o here[c].out
        BY <1>0, <3>1, <3>3, RefusesHere
      <4>2. here'[c].out # <<>>
        <5>1. here[c].out \in Seq(Int)
          BY <1>0 DEF HereRecord
        <5> QED
          BY <4>1, <5>1
      <4>3. given'[c].frames = Append(given[c].frames, Err)
        BY <1>0, <3>1, <3>3
      <4> QED
        BY <3>1, <3>2, <4>2, <4>3 DEF Moves, RefusedNow
    <3>4. CASE c # d
      BY <1>0, <3>1, <3>4 DEF Moves
    <3> QED
      BY <3>3, <3>4
  <2> QED
    BY <2>1, <2>2
<1>5. CASE WroteOne(d)
  <2>1. /\ here[d].cur # <<>> /\ here' = [here EXCEPT ![d] = WroteHere(here[d])]
        /\ wire' = [wire EXCEPT ![d] = wire[d] \o here[d].cur] /\ UNCHANGED <<there, given>>
    BY <1>5 DEF WroteOne
  <2>2. ~sharded /\ here[d].out # <<>>
    BY <2>1 DEF OneCarrier, FrontIsWritten
  <2>3. /\ WroteHere(here[d]).out = Tail(here[d].out)
        /\ WroteHere(here[d]).cur = IF Tail(here[d].out) = <<>> THEN <<>>
                                    ELSE <<Head(Tail(here[d].out))>>
    BY <1>0, <2>2, WroteOneHere
  <2>4. CASE c = d
    <3>1. here'[c] = WroteHere(here[d]) /\ wire'[c] = wire[c] \o here[c].cur
      BY <1>0, <2>1, <2>4
    <3> QED
      BY <2>1, <2>2, <2>3, <2>4, <3>1 DEF Moves, WroteFront
  <2>5. CASE c # d
    BY <1>0, <2>1, <2>5 DEF Moves
  <2> QED
    BY <2>4, <2>5
<1>6. CASE Condemn(d)
  BY <1>6, ElsewhereKept DEF Condemn, Moves
<1> QED
  BY <1>1, <1>2, <1>3, <1>4, <1>5, <1>6

(* The shard's session of one connection.                                  *)
LEMMA ThereMoves ==
    ASSUME Shapes, OneCarrier, NEW c \in Conn,
           \/ RunHandler \/ TakeOutbox
           \/ \E d \in Conn : AcceptedThere(d) \/ ReadThere(d) \/ WroteThere(d) \/ EndThere(d) \/ Leave(d)
    PROVE  Moves(c)
<1> USE DEF mains, shards, Kept, KeptHere, KeptThere, KeptGiven
<1>0. /\ here \in [Conn -> HereRecord] /\ there \in [Conn -> ThereRecord]
      /\ given \in [Conn -> [frames : Seq(Int), why : {None, "bad", "must"}]]
      /\ wire \in [Conn -> Seq(Int)] /\ busy \in Conn \cup {None}
  BY DEF Shapes
<1>a. ASSUME NEW d \in Conn, NEW r \in ThereRecord, there' = [there EXCEPT ![d] = r],
             r.box = there[d].box, r.queue = there[d].queue, r.cur = there[d].cur
      PROVE  KeptThere(c)
  BY <1>0, <1>a
<1>b. ASSUME NEW d \in Conn
      PROVE  /\ \A st \in {"accept", "open", "erased"} :
                   LET r == [there[d] EXCEPT !.st = st]
                   IN  /\ r \in ThereRecord /\ r.box = there[d].box
                       /\ r.queue = there[d].queue /\ r.cur = there[d].cur
             /\ LET r == DoClose(there[d])
                IN  /\ r \in ThereRecord /\ r.box = there[d].box
                    /\ r.queue = there[d].queue /\ r.cur = there[d].cur
             /\ LET r == Unkick(there[d])
                IN  /\ r \in ThereRecord /\ r.box = there[d].box
                    /\ r.queue = there[d].queue /\ r.cur = there[d].cur
             /\ LET r == ReportClosed(there[d])
                IN  /\ r \in ThereRecord /\ r.box = there[d].box
                    /\ r.queue = there[d].queue /\ r.cur = there[d].cur
  BY <1>0, ZenonT(60) DEF ThereRecord, DoClose, Unkick, ReportClosed
<1>1. CASE RunHandler
  <2>1. PICK d \in Conn : Head(handlers)[2] = d
    BY <1>1, HandlerAtHead DEF RunHandler
  <2>2. /\ \/ there' = [there EXCEPT ![d] = [there[d] EXCEPT !.st = "accept"]]
           \/ there' = [there EXCEPT ![d] = Unkick(there[d])]
           \/ there' = [there EXCEPT ![d] = DoClose(there[d])]
           \/ there' = [there EXCEPT ![d] = there[d]]
           \/ there' = [there EXCEPT ![d] = [there[d] EXCEPT !.st = "erased"]]
        /\ UNCHANGED <<here, wire, given>>
    BY <1>1, <2>1 DEF RunHandler
  <2>3. KeptThere(c)
    BY <1>0, <1>a, <1>b, <2>2
  <2> QED
    BY <2>2, <2>3 DEF Moves
<1>2. CASE TakeOutbox
  <2> DEFINE s == Taken(there[busy])
             t == IF s.cur = <<>> THEN WriteThere(s) ELSE s
  <2>1. /\ busy \in Conn /\ there' = [there EXCEPT ![busy] = t]
        /\ UNCHANGED <<here, wire, given>>
    BY <1>0, <1>2 DEF TakeOutbox
  <2>2. /\ s \in ThereRecord /\ s.cur = there[busy].cur /\ s.box = <<>>
        /\ s.queue = there[busy].queue \o there[busy].box
    BY <1>0, <2>1, TakesOutbox
  <2> HIDE DEF s
  <2>3. /\ WriteThere(s).box = s.box /\ WriteThere(s).cur \o WriteThere(s).queue = s.queue
        /\ s.queue \in Seq(Int)
    BY <2>2, WritesThere DEF ThereRecord
  <2>4. t.box = <<>> /\ t.cur \o t.queue = there[busy].cur \o (there[busy].queue \o there[busy].box)
    <3>1. CASE s.cur = <<>>
      <4>1. <<>> \o s.queue = s.queue
        BY <2>3
      <4> QED
        BY <2>2, <2>3, <3>1, <4>1
    <3>2. CASE s.cur # <<>>
      BY <2>2, <3>2
    <3> QED
      BY <3>1, <3>2
  <2> HIDE DEF t
  <2>5. CASE c = busy
    <3>1. there'[c] = t
      BY <1>0, <2>1, <2>5
    <3> QED
      BY <2>1, <2>4, <2>5, <3>1 DEF Moves, TookBox
  <2>6. CASE c # busy
    BY <1>0, <2>1, <2>6 DEF Moves
  <2> QED
    BY <2>5, <2>6
<1>3. ASSUME NEW d \in Conn, AcceptedThere(d) \/ EndThere(d) PROVE Moves(c)
  <2>1. /\ \/ there' = [there EXCEPT ![d] = [there[d] EXCEPT !.st = "open"]]
           \/ there' = [there EXCEPT ![d] = ReportClosed(there[d])]
        /\ UNCHANGED <<here, wire, given>>
    BY <1>3 DEF AcceptedThere, EndThere
  <2>2. KeptThere(c)
    BY <1>a, <1>b, <2>1
  <2> QED
    BY <2>1, <2>2 DEF Moves
<1>4. ASSUME NEW d \in Conn, ReadThere(d) \/ Leave(d) PROVE Moves(c)
  BY <1>4, ElsewhereKept DEF ReadThere, Leave, Moves
<1>5. ASSUME NEW d \in Conn, WroteThere(d) PROVE Moves(c)
  <2>1. /\ there[d].cur # <<>> /\ wire' = [wire EXCEPT ![d] = wire[d] \o there[d].cur]
        /\ there' = [there EXCEPT ![d] = WriteThere(there[d])] /\ UNCHANGED <<here, given>>
    BY <1>5 DEF WroteThere
  <2>2. sharded
    BY <2>1 DEF OneCarrier
  <2>3. /\ WriteThere(there[d]).box = there[d].box
        /\ WriteThere(there[d]).cur \o WriteThere(there[d]).queue = there[d].queue
    BY <1>0, WritesThere
  <2>4. CASE c = d
    <3>1. there'[c] = WriteThere(there[d]) /\ wire'[c] = wire[c] \o there[c].cur
      BY <1>0, <2>1, <2>4
    <3> QED
      BY <2>1, <2>2, <2>3, <2>4, <3>1 DEF Moves, WroteShard
  <2>5. CASE c # d
    BY <1>0, <2>1, <2>5 DEF Moves
  <2> QED
    BY <2>4, <2>5
<1> QED
  BY <1>1, <1>2, <1>3, <1>4, <1>5

(* The main loop.                                                          *)
LEMMA MainMoves ==
    ASSUME Shapes, OneCarrier, NEW c \in Conn, Main
    PROVE  Moves(c)
<1> USE DEF mains, shards, Kept, KeptHere, KeptThere, KeptGiven
<1>0. /\ here \in [Conn -> HereRecord] /\ there \in [Conn -> ThereRecord]
      /\ given \in [Conn -> [frames : Seq(Int), why : {None, "bad", "must"}]]
      /\ wire \in [Conn -> Seq(Int)]
  BY DEF Shapes
<1>a. ASSUME NEW d \in Conn, NEW w, given' = [given EXCEPT ![d].why = w], UNCHANGED <<here, there, wire>>
      PROVE  Moves(c)
  <2>1. given'[c].frames = given[c].frames
    <3>1. CASE c = d
      BY <1>0, <1>a, <3>1
    <3>2. CASE c # d
      BY <1>0, <1>a, <3>2
    <3> QED
      BY <3>1, <3>2
  <2> QED
    BY <1>a, <2>1 DEF Moves
<1>1. CASE TakeInbox \/ Sweep
  BY <1>1, ElsewhereKept DEF TakeInbox, Sweep, Moves
<1>2. CASE HandleEvent
  <2>1. main.events # <<>>
    BY <1>2 DEF HandleEvent
  <2>2. PICK d \in Conn : Head(main.events)[2] = d
    BY <2>1, EventAtHead, SMTT(60)
  <2>3. /\ \E w : given' = [given EXCEPT ![d].why = w]
        /\ UNCHANGED <<here, there, wire>>
    BY <1>2, <2>2 DEF HandleEvent
  <2> QED
    BY <1>a, <2>3
<1>3. ASSUME NEW d \in Conn, FlushRemote(d) PROVE Moves(c)
  <2>1. /\ UNCHANGED given \/ \E w : given' = [given EXCEPT ![d].why = w]
        /\ UNCHANGED <<here, there, wire>>
    BY <1>3 DEF FlushRemote
  <2>2. CASE UNCHANGED given
    BY <2>1, <2>2, ElsewhereKept, SMTT(60) DEF Moves
  <2> QED
    BY <1>a, <2>1, <2>2
<1>4. CASE FlushLocal
  <2>1. PICK fs \in [Conn -> Seq(Int)] :
              /\ fs[c] # <<>> => c \in locals /\ c \in attached /\ ~here[c].closed
              /\ here'[c].out = here[c].out \o fs[c]
              /\ \/ here'[c].cur = here[c].cur
                 \/ /\ here[c].cur = <<>> /\ here[c].out \o fs[c] # <<>>
                    /\ here'[c].cur = <<Head(here[c].out \o fs[c])>>
              /\ given'[c].frames = given[c].frames \o fs[c]
    BY <1>4, FlushesLocal
  <2>2. sharded => fs[c] = <<>>
    BY <2>1, SMTT(60) DEF OneCarrier
  <2>3. UNCHANGED <<there, wire>> /\ fs[c] \in Seq(Int)
    BY <1>4, <2>1 DEF FlushLocal
  <2> QED
    BY <2>1, <2>2, <2>3 DEF Moves, QueuedHere
<1>5. CASE Access
  <2>1. main.script # <<>>
    BY <1>5, Zenon DEF Access
  <2>2. PICK op \in {"push", "kick", "flag", "post"}, d \in Conn, f \in Int :
              /\ Head(main.script)[1] = op /\ Head(main.script)[2] = d /\ Head(main.script)[3] = f
    BY <2>1, ScriptAtHead
  <2>3. sharded
    BY <2>1 DEF OneCarrier
  <2>4. /\ \/ /\ there' = [there EXCEPT ![d].box = Append(@, f)]
              /\ given' = [given EXCEPT ![d].frames = Append(@, f)]
           \/ there' = [there EXCEPT ![d].kick = TRUE] /\ given' = given
           \/ there' = [there EXCEPT ![d].close = TRUE] /\ given' = given
           \/ there' = there /\ given' = given
        /\ UNCHANGED <<here, wire>>
    BY <1>5, <2>2, ZenonT(60) DEF Access
  <2>5. CASE c # d
    <3>1. there'[c] = there[c] /\ given'[c] = given[c]
      BY <1>0, <2>4, <2>5
    <3> QED
      BY <2>4, <3>1 DEF Moves
  <2>6. ASSUME c = d, /\ there' = [there EXCEPT ![d].box = Append(@, f)]
                      /\ given' = [given EXCEPT ![d].frames = Append(@, f)]
        PROVE  Moves(c)
    <3> DEFINE b == Append(there[d].box, f)
               g == Append(given[d].frames, f)
    <3>1. there' = [there EXCEPT ![d].box = b] /\ given' = [given EXCEPT ![d].frames = g]
      BY <2>6
    <3> HIDE DEF b, g
    <3>2. /\ there'[d].box = b /\ there'[d].queue = there[d].queue /\ there'[d].cur = there[d].cur
          /\ given'[d].frames = g
      BY <1>0, <3>1 DEF ThereRecord
    <3> QED
      BY <2>3, <2>4, <2>6, <3>2 DEF Moves, Pushed, b, g
  <2>7. ASSUME c = d, /\ \/ there' = [there EXCEPT ![d].kick = TRUE]
                         \/ there' = [there EXCEPT ![d].close = TRUE]
                         \/ there' = there
                      /\ given' = given
        PROVE  Moves(c)
    <3>1. KeptThere(d)
      BY <1>0, <2>7 DEF ThereRecord
    <3> QED
      BY <2>4, <2>7, <3>1 DEF Moves
  <2> QED
    BY <2>4, <2>5, <2>6, <2>7
<1> QED
  BY <1>1, <1>2, <1>3, <1>4, <1>5 DEF Main

LEMMA FrameMoves ==
    ASSUME Shapes, OneCarrier, FrontIsWritten, [Next]_vars, NEW c \in Conn
    PROVE  Moves(c)
<1>1. CASE UNCHANGED vars
  BY <1>1, ElsewhereKept DEF vars, mains, shards, Moves
<1>2. ASSUME NEW S \in SUBSET Conn, CloseSession(S) PROVE Moves(c)
  BY <1>2, ElsewhereKept DEF CloseSession, shards, Moves
<1> QED
  BY <1>1, <1>2, MainMoves, ThereMoves, HereMoves DEF Next, Shard

(* What is written or refused stays so.                                    *)
LEMMA StaysRefused ==
    ASSUME NEW s \in Seq(Int), NEW t \in Seq(Int), NEW f \in Int
    PROVE  /\ Contains(s, Err) => Contains(s \o t, Err) /\ Contains(Append(s, f), Err)
           /\ Contains(Append(s, Err), Err)
<1>1. ASSUME Contains(s, Err) PROVE Contains(s \o t, Err) /\ Contains(Append(s, f), Err)
  <2>1. PICK i \in 1 .. Len(s) : s[i] = Err
    BY <1>1 DEF Contains
  <2>2. i \in 1 .. Len(s \o t) /\ (s \o t)[i] = Err
    BY <2>1
  <2>3. i \in 1 .. Len(Append(s, f)) /\ Append(s, f)[i] = Err
    BY <2>1
  <2> QED
    BY <2>2, <2>3 DEF Contains
<1>2. Contains(Append(s, Err), Err)
  <2>1. Len(s) + 1 \in 1 .. Len(Append(s, Err)) /\ Append(s, Err)[Len(s) + 1] = Err
    OBVIOUS
  <2> QED
    BY <2>1 DEF Contains
<1> QED
  BY <1>1, <1>2

LEMMA Joins ==
    ASSUME NEW a \in Seq(Int), NEW b \in Seq(Int), NEW d \in Seq(Int)
    PROVE  (a \o b) \o d = a \o (b \o d)
BY ConcatAssociative, SMTT(60)

LEMMA JoinsEmpty ==
    ASSUME NEW a \in Seq(Int)
    PROVE  a \o <<>> = a /\ <<>> \o a = a
OBVIOUS

LEMMA OrderStep ==
    ASSUME Shapes, Shapes', OneCarrier, FrontIsWritten, FramesKeepOrder, [Next]_vars, NEW c \in Conn
    PROVE  /\ sharded => here'[c].out = <<>> /\ here'[c].cur = <<>>
           /\ ~sharded => there'[c].cur = <<>> /\ there'[c].queue = <<>> /\ there'[c].box = <<>>
           /\ here'[c].cur # <<>> =>
                 here'[c].out # <<>> /\ (~Refused(c)' => here'[c].cur = <<Head(here'[c].out)>>)
           /\ sharded \/ ~Refused(c)' =>
                 given'[c].frames = wire'[c] \o
                     (IF sharded THEN (there'[c].cur \o there'[c].queue) \o there'[c].box
                                 ELSE here'[c].out)
<1> DEFINE o == here[c].out
           u == here[c].cur
           x == there[c].box
           q == there[c].queue
           p == there[c].cur
           w == wire[c]
           g == given[c].frames
           ox == here'[c].out
           ux == here'[c].cur
           xx == there'[c].box
           qx == there'[c].queue
           px == there'[c].cur
           wx == wire'[c]
           gx == given'[c].frames
           ref == Contains(g, Err)
           refx == Contains(gx, Err)
<1>0. /\ o \in Seq(Int) /\ u \in Seq(Int) /\ x \in Seq(Int) /\ q \in Seq(Int) /\ p \in Seq(Int)
      /\ w \in Seq(Int) /\ g \in Seq(Int)
  BY DEF Shapes, HereRecord, ThereRecord
<1>1. /\ ox \in Seq(Int) /\ ux \in Seq(Int) /\ xx \in Seq(Int) /\ qx \in Seq(Int) /\ px \in Seq(Int)
      /\ wx \in Seq(Int) /\ gx \in Seq(Int)
  BY DEF Shapes, HereRecord, ThereRecord
<1>2. /\ sharded => o = <<>> /\ u = <<>>
      /\ ~sharded => p = <<>> /\ q = <<>> /\ x = <<>>
      /\ u # <<>> => o # <<>> /\ (~ref => u = <<Head(o)>>)
  BY DEF OneCarrier, FrontIsWritten, Refused
<1>3. /\ sharded => g = w \o (p \o (q \o x))
      /\ ~sharded /\ ~ref => g = w \o o
  <2>2. sharded \/ ~ref => g = w \o (IF sharded THEN p \o q \o x ELSE o)
    BY DEF FramesKeepOrder, Refused, Waiting
  <2> HIDE DEF o, q, x, p, w, g, ref
  <2>1. (p \o q) \o x = p \o (q \o x)
    <3>1. p \in Seq(Int) /\ q \in Seq(Int) /\ x \in Seq(Int)
      BY <1>0, SMTT(60)
    <3> QED
      BY <3>1, Joins
  <2> QED
    BY <2>1, <2>2
<1>4. /\ \/ ox = o /\ ux = u /\ xx = x /\ qx = q /\ px = p /\ wx = w /\ gx = g
         \/ /\ sharded /\ ox = o /\ ux = u /\ wx = w /\ qx = q /\ px = p
            /\ \E f \in Int : xx = Append(x, f) /\ gx = Append(g, f)
         \/ /\ ox = o /\ ux = u /\ wx = w /\ gx = g /\ xx = <<>>
            /\ px \o qx = p \o (q \o x)
         \/ /\ sharded /\ ox = o /\ ux = u /\ gx = g /\ wx = w \o p /\ px \o qx = q /\ xx = x
         \/ /\ ~sharded /\ xx = x /\ qx = q /\ px = p /\ wx = w /\ ox # <<>> /\ gx = Append(g, Err)
         \/ /\ ~sharded /\ xx = x /\ qx = q /\ px = p /\ gx = g
            /\ u # <<>> /\ o # <<>> /\ wx = w \o u /\ ox = Tail(o)
            /\ ux = IF ox = <<>> THEN <<>> ELSE <<Head(ox)>>
         \/ /\ xx = x /\ qx = q /\ px = p /\ wx = w
            /\ \E fs \in Seq(Int) :
                  /\ sharded => fs = <<>>
                  /\ ox = o \o fs /\ gx = g \o fs
                  /\ ux = u \/ (u = <<>> /\ o \o fs # <<>> /\ ux = <<Head(o \o fs)>>)
  BY FrameMoves, ZenonT(60) DEF Moves, Kept, KeptHere, KeptThere, KeptGiven, Pushed, TookBox, WroteShard,
                    RefusedNow, WroteFront, QueuedHere
<1> DEFINE Goal == /\ sharded => ox = <<>> /\ ux = <<>>
                   /\ ~sharded => px = <<>> /\ qx = <<>> /\ xx = <<>>
                   /\ ux # <<>> => ox # <<>> /\ (~refx => ux = <<Head(ox)>>)
                   /\ sharded => gx = wx \o (px \o (qx \o xx))
                   /\ ~sharded /\ ~refx => gx = wx \o ox
<1>5. Goal
  <2> HIDE DEF o, u, x, q, p, w, g, ox, ux, xx, qx, px, wx, gx, ref, refx
  <2>1. CASE ox = o /\ ux = u /\ xx = x /\ qx = q /\ px = p /\ wx = w /\ gx = g
    BY <1>2, <1>3, <2>1 DEF ref, refx
  <2>2. ASSUME sharded /\ ox = o /\ ux = u /\ wx = w /\ qx = q /\ px = p,
               NEW f \in Int, xx = Append(x, f), gx = Append(g, f)
        PROVE  Goal
    <3>1. \A y, z \in Seq(Int) : y \o Append(z, f) = Append(y \o z, f)
      OBVIOUS
    <3>2. q \o x \in Seq(Int) /\ p \o (q \o x) \in Seq(Int)
      BY <1>0
    <3>3. gx = wx \o (px \o (qx \o xx))
      <4>1. qx \o xx = Append(q \o x, f)
        BY <1>0, <2>2, <3>1
      <4>2. px \o (qx \o xx) = Append(p \o (q \o x), f)
        BY <1>0, <2>2, <3>1, <3>2, <4>1, ZenonT(60)
      <4>3. w \o Append(p \o (q \o x), f) = Append(w \o (p \o (q \o x)), f)
        BY <1>0, <3>1, <3>2
      <4> QED
        BY <1>3, <2>2, <4>2, <4>3
    <3> QED
      BY <1>2, <2>2, <3>3
  <2>3. CASE /\ ox = o /\ ux = u /\ wx = w /\ gx = g /\ xx = <<>> /\ px \o qx = p \o (q \o x)
    <3>1. px \o (qx \o xx) = p \o (q \o x)
      <4>1. qx \o <<>> = qx
        BY <1>1
      <4> QED
        BY <2>3, <4>1
    <3>2. ~sharded => px \o qx = <<>>
      BY <1>2, <2>3
    <3>3. ~sharded => px = <<>> /\ qx = <<>>
      BY <1>1, <3>2
    <3> QED
      BY <1>2, <1>3, <2>3, <3>1, <3>3 DEF ref, refx
  <2>4. CASE sharded /\ ox = o /\ ux = u /\ gx = g /\ wx = w \o p /\ px \o qx = q /\ xx = x
    <3>1. px \o (qx \o xx) = q \o x
      <4>1. px \o (qx \o xx) = (px \o qx) \o xx
        <5>1. px \in Seq(Int) /\ qx \in Seq(Int) /\ xx \in Seq(Int)
          BY <1>1
        <5> QED
          BY <5>1, Joins
      <4> QED
        BY <2>4, <4>1
    <3> DEFINE y == q \o x
    <3>a. w \in Seq(Int) /\ p \in Seq(Int) /\ y \in Seq(Int)
      BY <1>0
    <3> HIDE DEF y
    <3>2. w \o (p \o y) = (w \o p) \o y
      <4>1. w \in Seq(Int) /\ p \in Seq(Int) /\ y \in Seq(Int)
        BY <3>a
      <4> QED
        BY <4>1, Joins
    <3> QED
      BY <1>2, <1>3, <2>4, <3>1, <3>2 DEF y
  <2>5. CASE ~sharded /\ xx = x /\ qx = q /\ px = p /\ wx = w /\ ox # <<>> /\ gx = Append(g, Err)
    <3>1. 0 \in Int /\ <<>> \in Seq(Int)
      OBVIOUS
    <3>2. refx
      BY <1>0, <2>5, <3>1, StaysRefused DEF refx
    <3> QED
      BY <1>2, <2>5, <3>2
  <2>6. CASE /\ ~sharded /\ xx = x /\ qx = q /\ px = p /\ gx = g
             /\ u # <<>> /\ o # <<>> /\ wx = w \o u /\ ox = Tail(o)
             /\ ux = IF ox = <<>> THEN <<>> ELSE <<Head(ox)>>
    <3>1. o = <<Head(o)>> \o Tail(o) /\ <<Head(o)>> \in Seq(Int) /\ Tail(o) \in Seq(Int)
      <4>1. o \in Seq(Int) /\ o # <<>>
        BY <1>0, <2>6
      <4> QED
        BY <4>1
    <3>2. ASSUME ~refx PROVE gx = wx \o ox
      <4>1. u = <<Head(o)>> /\ g = w \o o
        BY <1>2, <1>3, <2>6, <3>2 DEF ref, refx
      <4> DEFINE h == <<Head(o)>>
                 t == Tail(o)
      <4>2. o = h \o t /\ h \in Seq(Int) /\ t \in Seq(Int) /\ u = h /\ ox = t
        BY <2>6, <3>1, <4>1
      <4> HIDE DEF h, t
      <4>3. w \o (h \o t) = (w \o h) \o t
        <5>1. w \in Seq(Int) /\ h \in Seq(Int) /\ t \in Seq(Int)
          BY <1>0, <4>2
        <5> QED
          BY <5>1, Joins
      <4> QED
        BY <2>6, <4>1, <4>2, <4>3
    <3> QED
      BY <1>2, <2>6, <3>2
  <2>7. ASSUME xx = x /\ qx = q /\ px = p /\ wx = w, NEW fs \in Seq(Int),
               /\ sharded => fs = <<>>
               /\ ox = o \o fs /\ gx = g \o fs
               /\ ux = u \/ (u = <<>> /\ o \o fs # <<>> /\ ux = <<Head(o \o fs)>>)
        PROVE  Goal
    <3>1. ref => refx
      <4>1. 0 \in Int
        OBVIOUS
      <4> QED
        BY <1>0, <2>7, <4>1, StaysRefused DEF ref, refx
    <3>2. CASE sharded
      <4>1. ox = o /\ gx = g
        <5>1. o \o <<>> = o /\ g \o <<>> = g
          BY <1>0, JoinsEmpty
        <5> QED
          BY <2>7, <3>2, <5>1
      <4> QED
        BY <1>2, <1>3, <2>7, <3>2, <4>1
    <3>3. CASE ~sharded
      <4>1. u # <<>> => o \o fs # <<>> /\ Head(o \o fs) = Head(o)
        BY <1>0, <1>2
      <4>2. ux # <<>> => ox # <<>> /\ (~refx => ux = <<Head(ox)>>)
        BY <1>2, <2>7, <3>1, <4>1
      <4>3. (w \o o) \o fs = w \o (o \o fs)
        <5>1. w \in Seq(Int) /\ o \in Seq(Int) /\ fs \in Seq(Int)
          BY <1>0, <2>7
        <5> QED
          BY <5>1, Joins
      <4>4. ~refx => gx = wx \o ox
        BY <1>3, <2>7, <3>1, <3>3, <4>3
      <4> QED
        BY <1>2, <2>7, <3>3, <4>2, <4>4
    <3> QED
      BY <3>2, <3>3
  <2> HIDE DEF Goal
  <2> QED
    BY <1>4, <2>1, <2>2, <2>3, <2>4, <2>5, <2>6, <2>7
<1>7. Refused(c)' = refx
  BY DEF Refused
<1> HIDE DEF refx, px, qx, xx, wx, gx, ox, ux
<1>6. (px \o qx) \o xx = px \o (qx \o xx)
  <2>1. px \in Seq(Int) /\ qx \in Seq(Int) /\ xx \in Seq(Int)
    BY <1>1
  <2> QED
    BY <2>1, Joins
<1> QED
  BY <1>5, <1>6, <1>7 DEF px, qx, xx, wx, gx, ox, ux

-----------------------------------------------------------------------------
(* The life of a connection: what the events and the posted handlers of a   *)
(* connection say about it.                                                *)

Posted  == {c \in Conn : there[c].st = "posted"}
Started == {c \in Conn : there[c].st # "none"}
Told    == {c \in Conn : there[c].reported}

(* E: events, A: what the core knows, R: reported closed, S: handed over.   *)
EventOrder(E, A, R, S) ==
    \A i \in DOMAIN E, c \in Conn :
        /\ E[i][2] = c => c \in S
        /\ E[i] = <<"closed", c>> =>
              c \in R /\ \A j \in DOMAIN E : E[j] = <<"attach", c>> => j < i
        /\ E[i] = <<"attach", c>> => c \in A
(* H: handlers, P: handed over and not adopted yet.                         *)
HandlerOrder(H, P, A, R) ==
    \A i \in DOMAIN H, c \in Conn :
        /\ H[i] = <<"adopt", c>> =>
              c \in P /\ \A j \in DOMAIN H : H[j] = <<"adopt", c>> => j = i
        /\ H[i] = <<"erase", c>> => c \notin A /\ c \in R
Ending(E) == {c \in Conn : \E i \in DOMAIN E : E[i] = <<"closed", c>>}

LEMMA OrdersAreOrders ==
    /\ EventsInOrder <=> /\ main.at # "drain" => main.events = <<>>
                         /\ EventOrder(Events, attached, Told, Started)
    /\ HandlersInOrder <=> HandlerOrder(handlers, Posted, attached, Told)
    /\ \A c \in Conn : Reports(c) <=> c \in Ending(Events)
<1>1. EventsInOrder <=> /\ main.at # "drain" => main.events = <<>>
                        /\ EventOrder(Events, attached, Told, Started)
  BY DEF EventsInOrder, EventOrder, Told, Started
<1>2. HandlersInOrder <=> HandlerOrder(handlers, Posted, attached, Told)
  BY DEF HandlersInOrder, HandlerOrder, Posted, Told
<1> QED
  BY <1>1, <1>2 DEF Reports, Ending

(* An event handled leaves the others in order.                             *)
LEMMA EventHandled ==
    ASSUME NEW E \in Seq(Event), NEW A, NEW R, NEW S, E # <<>>, EventOrder(E, A, R, S),
           NEW kind \in {"attach", "ack", "bad", "closed"}, NEW c \in Conn, Head(E) = <<kind, c>>
    PROVE  /\ kind # "closed" => EventOrder(Tail(E), A, R, S) /\ Ending(E) \subseteq Ending(Tail(E))
           /\ kind = "closed" => /\ EventOrder(Tail(E), A \ {c}, R, S) /\ c \in R
                                 /\ Ending(E) \ {c} \subseteq Ending(Tail(E))
           /\ kind = "attach" => c \in A
           /\ c \in S
<1> DEFINE T == Tail(E)
           N == Len(E)
<1>1. /\ N \in Nat \ {0} /\ DOMAIN E = 1 .. N /\ DOMAIN T = 1 .. N - 1
      /\ \A i \in 1 .. N - 1 : T[i] = E[i + 1]
      /\ E[1] = <<kind, c>>
  BY DEF Event
<1> HIDE DEF T, N
<1>2. /\ c \in S /\ (kind = "attach" => c \in A)
      /\ kind = "closed" => c \in R /\ \A j \in DOMAIN E : E[j] # <<"attach", c>>
  <2>1. 1 \in DOMAIN E /\ E[1][2] = c /\ \A j \in DOMAIN E : ~(j < 1)
    BY <1>1
  <2> QED
    BY <1>1, <2>1 DEF EventOrder
<1>3. ASSUME NEW i \in DOMAIN T, NEW d \in Conn
      PROVE  /\ T[i][2] = d => d \in S
             /\ T[i] = <<"closed", d>> =>
                   d \in R /\ \A j \in DOMAIN T : T[j] = <<"attach", d>> => j < i
             /\ T[i] = <<"attach", d>> => d \in A /\ (kind = "closed" => d # c)
  <2>1. i + 1 \in DOMAIN E /\ T[i] = E[i + 1]
    BY <1>1
  <2>2. ASSUME T[i] = <<"closed", d>>, NEW j \in DOMAIN T, T[j] = <<"attach", d>> PROVE j < i
    <3>1. j + 1 \in DOMAIN E /\ T[j] = E[j + 1]
      BY <1>1
    <3>2. j + 1 < i + 1
      BY <2>1, <2>2, <3>1 DEF EventOrder
    <3>3. i \in Int /\ j \in Int
      BY <1>1
    <3> QED
      BY <3>2, <3>3
  <2>3. T[i][2] = d => d \in S
    BY <2>1 DEF EventOrder
  <2>4. T[i] = <<"closed", d>> => d \in R
    BY <2>1 DEF EventOrder
  <2>5. T[i] = <<"attach", d>> => d \in A /\ (kind = "closed" => d # c)
    BY <1>2, <2>1 DEF EventOrder
  <2> QED
    BY <2>2, <2>3, <2>4, <2>5
<1>4. ASSUME NEW d \in Ending(E), kind = "closed" => d # c PROVE d \in Ending(T)
  <2>1. PICK i \in DOMAIN E : E[i] = <<"closed", d>>
    BY DEF Ending
  <2>2. i # 1
    BY <1>1, <1>4, <2>1
  <2>3. i - 1 \in DOMAIN T /\ T[i - 1] = E[i]
    BY <1>1, <2>2
  <2> QED
    BY <2>1, <2>3 DEF Ending
<1>5. kind # "closed" => EventOrder(T, A, R, S)
  BY <1>3 DEF EventOrder
<1>6. kind = "closed" => EventOrder(T, A \ {c}, R, S)
  BY <1>3 DEF EventOrder
<1> QED
  BY <1>2, <1>4, <1>5, <1>6 DEF T

(* A new event comes last.                                                  *)
LEMMA EventPosted ==
    ASSUME NEW E \in Seq(Event), NEW A, NEW R, NEW S, NEW RR, NEW SS, EventOrder(E, A, R, S),
           NEW kind \in {"attach", "ack", "bad", "closed"}, NEW c \in Conn, c \in SS,
           R \subseteq RR, S \subseteq SS,
           kind = "closed" => c \in RR, kind = "attach" => c \in A /\ c \notin R
    PROVE  /\ EventOrder(Append(E, <<kind, c>>), A, RR, SS)
           /\ Ending(E) \subseteq Ending(Append(E, <<kind, c>>))
           /\ kind = "closed" => c \in Ending(Append(E, <<kind, c>>))
<1> DEFINE e == <<kind, c>>
           T == Append(E, e)
           N == Len(E)
<1>0. e = <<kind, c>> /\ e[2] = c
  OBVIOUS
<1> HIDE DEF e
<1>1. /\ N \in Nat /\ DOMAIN E = 1 .. N /\ DOMAIN T = 1 .. N + 1
      /\ \A i \in 1 .. N : T[i] = E[i]
      /\ T[N + 1] = e
  OBVIOUS
<1> HIDE DEF T, N
<1>2. ASSUME NEW i \in DOMAIN T, NEW d \in Conn
      PROVE  /\ T[i][2] = d => d \in SS
             /\ T[i] = <<"closed", d>> =>
                   d \in RR /\ \A j \in DOMAIN T : T[j] = <<"attach", d>> => j < i
             /\ T[i] = <<"attach", d>> => d \in A
  <2>1. CASE i \in DOMAIN E
    <3>1. T[i] = E[i] /\ i \in Int /\ i < N + 1
      BY <1>1, <2>1
    <3>2. T[i][2] = d => d \in SS
      BY <2>1, <3>1 DEF EventOrder
    <3>3. T[i] = <<"attach", d>> => d \in A
      BY <2>1, <3>1 DEF EventOrder
    <3>4. T[i] = <<"closed", d>> => d \in R
      BY <2>1, <3>1 DEF EventOrder
    <3>5. ASSUME T[i] = <<"closed", d>>, NEW j \in DOMAIN T, T[j] = <<"attach", d>> PROVE j < i
      <4>1. CASE j \in DOMAIN E
        <5>1. T[j] = E[j]
          BY <1>1, <4>1
        <5> QED
          BY <2>1, <3>1, <3>5, <4>1, <5>1 DEF EventOrder
      <4>2. CASE j \notin DOMAIN E
        <5>1. T[j] = e
          BY <1>1, <4>2
        <5>2. kind = "attach" /\ c = d
          BY <1>0, <3>5, <5>1
        <5> QED
          BY <3>4, <3>5, <5>2
      <4> QED
        BY <4>1, <4>2
    <3> QED
      BY <3>2, <3>3, <3>4, <3>5
  <2>2. CASE i \notin DOMAIN E
    <3>1. i = N + 1 /\ T[i] = e
      BY <1>1, <2>2
    <3>2. T[i][2] = d => d \in SS
      BY <1>0, <3>1
    <3>3. T[i] = <<"attach", d>> => d \in A
      BY <1>0, <3>1
    <3>4. ASSUME T[i] = <<"closed", d>> PROVE d \in RR
      BY <1>0, <3>1, <3>4
    <3>5. ASSUME T[i] = <<"closed", d>>, NEW j \in DOMAIN T, T[j] = <<"attach", d>> PROVE j < i
      <4>1. j # i
        BY <3>5
      <4> QED
        BY <1>1, <3>1, <4>1
    <3> QED
      BY <3>2, <3>3, <3>4, <3>5
  <2> QED
    BY <2>1, <2>2
<1>3. ASSUME NEW d \in Ending(E) PROVE d \in Ending(T)
  <2>1. PICK i \in DOMAIN E : E[i] = <<"closed", d>>
    BY DEF Ending
  <2>2. i \in DOMAIN T /\ T[i] = E[i]
    BY <1>1
  <2> QED
    BY <2>1, <2>2 DEF Ending
<1>4. kind = "closed" => c \in Ending(T)
  <2>1. N + 1 \in DOMAIN T
    BY <1>1
  <2> QED
    BY <1>0, <1>1, <2>1 DEF Ending
<1>5. EventOrder(T, A, RR, SS)
  BY <1>2 DEF EventOrder
<1> QED
  BY <1>3, <1>4, <1>5 DEF T, e

LEMMA EventsStand ==
    ASSUME NEW E, NEW A, NEW R, NEW S, NEW AA, NEW RR, NEW SS, EventOrder(E, A, R, S),
           R \subseteq RR, S \subseteq SS, A \cap S \subseteq AA
    PROVE  EventOrder(E, AA, RR, SS)
<1> SUFFICES ASSUME NEW i \in DOMAIN E, NEW c \in Conn
             PROVE  /\ E[i][2] = c => c \in SS
                    /\ E[i] = <<"closed", c>> =>
                          c \in RR /\ \A j \in DOMAIN E : E[j] = <<"attach", c>> => j < i
                    /\ E[i] = <<"attach", c>> => c \in AA
  BY DEF EventOrder
<1>1. E[i] = <<"attach", c>> => E[i][2] = c
  OBVIOUS
<1> QED
  BY <1>1 DEF EventOrder

LEMMA HandlersStand ==
    ASSUME NEW H, NEW P, NEW A, NEW R, NEW PP, NEW AA, NEW RR, HandlerOrder(H, P, A, R),
           P \subseteq PP, R \subseteq RR, AA \cap R \subseteq A
    PROVE  HandlerOrder(H, PP, AA, RR)
BY DEF HandlerOrder

(* A new handler comes last.                                                *)
LEMMA HandlerPosted ==
    ASSUME NEW H \in Seq(Handler), NEW P, NEW A, NEW R, NEW PP, NEW AA, NEW RR,
           HandlerOrder(H, P, A, R), P \subseteq PP, R \subseteq RR, AA \cap R \subseteq A,
           NEW op \in {"adopt", "drain", "close", "erase"}, NEW c \in Conn,
           op = "adopt" => c \in PP /\ c \notin P, op = "erase" => c \notin AA /\ c \in RR
    PROVE  HandlerOrder(Append(H, <<op, c>>), PP, AA, RR)
<1> DEFINE h == <<op, c>>
           T == Append(H, h)
           N == Len(H)
<1>0. h = <<op, c>>
  OBVIOUS
<1> HIDE DEF h
<1>1. /\ N \in Nat /\ DOMAIN H = 1 .. N /\ DOMAIN T = 1 .. N + 1
      /\ \A i \in 1 .. N : T[i] = H[i]
      /\ T[N + 1] = h
  OBVIOUS
<1> HIDE DEF T, N
<1>2. ASSUME NEW i \in DOMAIN T, NEW d \in Conn
      PROVE  /\ T[i] = <<"adopt", d>> =>
                   d \in PP /\ \A j \in DOMAIN T : T[j] = <<"adopt", d>> => j = i
             /\ T[i] = <<"erase", d>> => d \notin AA /\ d \in RR
  <2>1. CASE i \in DOMAIN H
    <3>1. T[i] = H[i]
      BY <1>1, <2>1
    <3>2. T[i] = <<"erase", d>> => d \notin AA /\ d \in RR
      BY <2>1, <3>1 DEF HandlerOrder
    <3>3. T[i] = <<"adopt", d>> => d \in P
      BY <2>1, <3>1 DEF HandlerOrder
    <3>4. ASSUME T[i] = <<"adopt", d>>, NEW j \in DOMAIN T, T[j] = <<"adopt", d>> PROVE j = i
      <4>1. CASE j \in DOMAIN H
        <5>1. T[j] = H[j]
          BY <1>1, <4>1
        <5> QED
          BY <2>1, <3>1, <3>4, <4>1, <5>1 DEF HandlerOrder
      <4>2. CASE j \notin DOMAIN H
        <5>1. T[j] = h
          BY <1>1, <4>2
        <5>2. op = "adopt" /\ c = d
          BY <1>0, <3>4, <5>1
        <5> QED
          BY <3>3, <3>4, <5>2
      <4> QED
        BY <4>1, <4>2
    <3> QED
      BY <3>2, <3>3, <3>4
  <2>2. CASE i \notin DOMAIN H
    <3>1. i = N + 1 /\ T[i] = h
      BY <1>1, <2>2
    <3>2. T[i] = <<"erase", d>> => d \notin AA /\ d \in RR
      BY <1>0, <3>1
    <3>3. ASSUME T[i] = <<"adopt", d>> PROVE d \in PP /\ d \notin P
      BY <1>0, <3>1, <3>3
    <3>4. ASSUME T[i] = <<"adopt", d>>, NEW j \in DOMAIN T, T[j] = <<"adopt", d>> PROVE j = i
      <4>1. CASE j \in DOMAIN H
        <5>1. T[j] = H[j]
          BY <1>1, <4>1
        <5>2. d \in P
          BY <3>4, <4>1, <5>1 DEF HandlerOrder
        <5> QED
          BY <3>3, <3>4, <5>2
      <4>2. CASE j \notin DOMAIN H
        BY <1>1, <3>1, <4>2
      <4> QED
        BY <4>1, <4>2
    <3> QED
      BY <3>2, <3>3, <3>4
  <2> QED
    BY <2>1, <2>2
<1>3. HandlerOrder(T, PP, AA, RR)
  BY <1>2 DEF HandlerOrder
<1> QED
  BY <1>3 DEF T, h

(* A handler run leaves the others in order.                                *)
LEMMA HandlerDone ==
    ASSUME NEW H \in Seq(Handler), NEW P, NEW A, NEW R, H # <<>>, HandlerOrder(H, P, A, R),
           NEW op \in {"adopt", "drain", "close", "erase"}, NEW c \in Conn, Head(H) = <<op, c>>
    PROVE  /\ HandlerOrder(Tail(H), P, A, R)
           /\ op = "adopt" => c \in P /\ HandlerOrder(Tail(H), P \ {c}, A, R)
           /\ op = "erase" => c \notin A /\ c \in R
<1> DEFINE T == Tail(H)
           N == Len(H)
<1>1. /\ N \in Nat \ {0} /\ DOMAIN H = 1 .. N /\ DOMAIN T = 1 .. N - 1
      /\ \A i \in 1 .. N - 1 : T[i] = H[i + 1]
      /\ H[1] = <<op, c>>
  BY DEF Handler
<1> HIDE DEF T, N
<1>2. /\ op = "adopt" => c \in P /\ \A j \in DOMAIN H : H[j] = <<"adopt", c>> => j = 1
      /\ op = "erase" => c \notin A /\ c \in R
  <2>1. 1 \in DOMAIN H
    BY <1>1
  <2> QED
    BY <1>1, <2>1 DEF HandlerOrder
<1>3. ASSUME NEW i \in DOMAIN T, NEW d \in Conn
      PROVE  /\ T[i] = <<"adopt", d>> =>
                   /\ d \in P /\ (op = "adopt" => d # c)
                   /\ \A j \in DOMAIN T : T[j] = <<"adopt", d>> => j = i
             /\ T[i] = <<"erase", d>> => d \notin A /\ d \in R
  <2>1. i + 1 \in DOMAIN H /\ T[i] = H[i + 1] /\ i + 1 # 1 /\ i \in Int
    BY <1>1
  <2>2. ASSUME T[i] = <<"adopt", d>>, NEW j \in DOMAIN T, T[j] = <<"adopt", d>> PROVE j = i
    <3>1. j + 1 \in DOMAIN H /\ T[j] = H[j + 1] /\ j \in Int
      BY <1>1
    <3>2. j + 1 = i + 1
      BY <2>1, <2>2, <3>1 DEF HandlerOrder
    <3> QED
      BY <2>1, <3>1, <3>2
  <2>3. T[i] = <<"erase", d>> => d \notin A /\ d \in R
    BY <2>1 DEF HandlerOrder
  <2>4. T[i] = <<"adopt", d>> => d \in P /\ (op = "adopt" => d # c)
    BY <1>2, <2>1 DEF HandlerOrder
  <2> QED
    BY <2>2, <2>3, <2>4
<1>4. HandlerOrder(T, P, A, R)
  BY <1>3 DEF HandlerOrder
<1>5. op = "adopt" => HandlerOrder(T, P \ {c}, A, R)
  BY <1>3 DEF HandlerOrder
<1> QED
  BY <1>2, <1>4, <1>5 DEF T

-----------------------------------------------------------------------------
(* The life of a connection, step by step.                                 *)

AllHere   == \A c \in Conn : SameHere(here'[c], here[c])
AllThere  == \A c \in Conn : SameThere(there'[c], there[c])
HereIs(d, st, closed, transferred) ==
    /\ here'[d].st = st /\ here'[d].closed = closed /\ here'[d].transferred = transferred
    /\ \A c \in Conn \ {d} : SameHere(here'[c], here[c])
ThereIs(d, st, reported) ==
    /\ there'[d].st = st /\ there'[d].reported = reported
    /\ \A c \in Conn \ {d} : SameThere(there'[c], there[c])

LEMMA HereBecomes ==
    ASSUME Shapes, NEW d \in Conn, NEW st \in {"none", "request", "accept", "open"}
    PROVE  /\ here' = [here EXCEPT ![d].st = st] =>
                 HereIs(d, st, here[d].closed, here[d].transferred)
           /\ here' = [here EXCEPT ![d].closed = TRUE] =>
                 HereIs(d, here[d].st, TRUE, here[d].transferred)
           /\ here' = [here EXCEPT ![d].closed = TRUE, ![d].transferred = TRUE] =>
                 HereIs(d, here[d].st, TRUE, TRUE)
           /\ \A r : here' = [here EXCEPT ![d] = r] => HereIs(d, r.st, r.closed, r.transferred)
<1>0. here \in [Conn -> HereRecord]
  BY DEF Shapes
<1>1. ASSUME NEW r, here' = [here EXCEPT ![d] = r]
      PROVE  here'[d] = r /\ HereIs(d, r.st, r.closed, r.transferred)
  BY <1>0, <1>1 DEF HereIs, SameHere
<1>2. /\ LET r == [here[d] EXCEPT !.st = st]
         IN  r.st = st /\ r.closed = here[d].closed /\ r.transferred = here[d].transferred
      /\ LET r == [here[d] EXCEPT !.closed = TRUE]
         IN  r.st = here[d].st /\ r.closed = TRUE /\ r.transferred = here[d].transferred
      /\ LET r == [here[d] EXCEPT !.closed = TRUE, !.transferred = TRUE]
         IN  r.st = here[d].st /\ r.closed = TRUE /\ r.transferred = TRUE
  BY <1>0 DEF HereRecord
<1>3. /\ [here EXCEPT ![d].st = st] = [here EXCEPT ![d] = [here[d] EXCEPT !.st = st]]
      /\ [here EXCEPT ![d].closed = TRUE] = [here EXCEPT ![d] = [here[d] EXCEPT !.closed = TRUE]]
      /\ [here EXCEPT ![d].closed = TRUE, ![d].transferred = TRUE]
           = [here EXCEPT ![d] = [here[d] EXCEPT !.closed = TRUE, !.transferred = TRUE]]
  BY <1>0
<1>4. here' = [here EXCEPT ![d].st = st] => HereIs(d, st, here[d].closed, here[d].transferred)
  BY <1>1, <1>2, <1>3
<1>5. here' = [here EXCEPT ![d].closed = TRUE] => HereIs(d, here[d].st, TRUE, here[d].transferred)
  BY <1>1, <1>2, <1>3, ZenonT(60)
<1>6. here' = [here EXCEPT ![d].closed = TRUE, ![d].transferred = TRUE] =>
          HereIs(d, here[d].st, TRUE, TRUE)
  BY <1>1, <1>2, <1>3, ZenonT(60)
<1> QED
  BY <1>1, <1>4, <1>5, <1>6

LEMMA ThereBecomes ==
    ASSUME Shapes, NEW d \in Conn, NEW st \in {"none", "posted", "accept", "open", "erased"}
    PROVE  /\ there' = [there EXCEPT ![d].st = st] => ThereIs(d, st, there[d].reported)
           /\ there' = [there EXCEPT ![d] = ReportClosed(@)] => ThereIs(d, there[d].st, TRUE)
           /\ \A r : there' = [there EXCEPT ![d] = r] => ThereIs(d, r.st, r.reported)
<1>0. there \in [Conn -> ThereRecord]
  BY DEF Shapes
<1>1. ASSUME NEW r, there' = [there EXCEPT ![d] = r]
      PROVE  there'[d] = r /\ ThereIs(d, r.st, r.reported)
  BY <1>0, <1>1 DEF ThereIs, SameThere
<1>2. /\ LET r == [there[d] EXCEPT !.st = st] IN r.st = st /\ r.reported = there[d].reported
      /\ LET r == [there[d] EXCEPT !.reported = TRUE] IN r.st = there[d].st /\ r.reported = TRUE
  BY <1>0 DEF ThereRecord
<1>3. /\ [there EXCEPT ![d].st = st] = [there EXCEPT ![d] = [there[d] EXCEPT !.st = st]]
      /\ [there EXCEPT ![d] = ReportClosed(@)]
           = [there EXCEPT ![d] = [there[d] EXCEPT !.reported = TRUE]]
  BY <1>0 DEF ReportClosed
<1>4. there' = [there EXCEPT ![d].st = st] => ThereIs(d, st, there[d].reported)
  BY <1>1, <1>2, <1>3
<1>5. there' = [there EXCEPT ![d] = ReportClosed(@)] => ThereIs(d, there[d].st, TRUE)
  BY <1>1, <1>2, <1>3
<1> QED
  BY <1>1, <1>4, <1>5

(* Who carries a connection, with the closed events that are still coming.  *)
Closing   == Ending(Events)
OneSide   ==
    /\ sharded => \A c \in Conn : /\ here[c].st \in {"none", "request"}
                                  /\ c \in attached => here[c].closed
    /\ ~sharded => /\ remotes = {} /\ Events = <<>> /\ \A c \in Conn : there[c].st = "none"
KnownEnd  ==
    \A c \in attached :
        \/ c \in locals /\ ~here[c].transferred
        \/ there[c].st \in {"posted", "accept", "open"} /\ (there[c].reported => c \in Closing)
LiveKnown ==
    \A c \in Conn :
        /\ here[c].st \in {"accept", "open"} /\ ~here[c].closed => c \in attached
        /\ there[c].st # "none" /\ ~there[c].reported => c \in attached
Carried   == OneSide /\ Lives /\ KnownEnd /\ LiveKnown /\ RemotesAreOwed

LifeInv ==
    /\ Carried
    /\ EventOrder(Events, attached, Told, Started)
    /\ HandlerOrder(handlers, Posted, attached, Told)

(* Steps that change neither who carries a connection nor what was reported. *)
LEMMA LifeStays ==
    ASSUME Shapes, Shapes', LifeInv, UNCHANGED <<sharded, attached, locals, remotes, Events>>,
           AllHere, AllThere,
           \/ UNCHANGED handlers
           \/ \E op \in {"drain", "close"}, c \in Conn : handlers' = Append(handlers, <<op, c>>)
    PROVE  LifeInv'
<1>1. Told' = Told /\ Started' = Started /\ Posted' = Posted
  BY DEF Told, Started, Posted, AllThere, SameThere
<1>2. Closing' = Closing
  BY DEF Closing
<1>3. EventOrder(Events, attached, Told, Started)'
  BY <1>1 DEF LifeInv, EventOrder
<1>4. HandlerOrder(handlers', Posted, attached, Told)
  <2>1. handlers \in Seq(Handler) /\ HandlerOrder(handlers, Posted, attached, Told)
    BY DEF Shapes, LifeInv
  <2>2. ASSUME NEW op \in {"drain", "close"}, NEW c \in Conn
        PROVE  HandlerOrder(Append(handlers, <<op, c>>), Posted, attached, Told)
    BY <2>1, HandlerPosted
  <2> QED
    BY <2>1, <2>2
<1>5. HandlerOrder(handlers, Posted, attached, Told)'
  BY <1>1, <1>4 DEF HandlerOrder
<1>6. Carried'
  <2>1. OneSide /\ Lives /\ KnownEnd /\ LiveKnown /\ RemotesAreOwed
    BY DEF LifeInv, Carried
  <2>2. /\ \A c \in Conn : /\ here'[c].st = here[c].st /\ here'[c].closed = here[c].closed
                           /\ here'[c].transferred = here[c].transferred
                           /\ there'[c].st = there[c].st /\ there'[c].reported = there[c].reported
        /\ attached \subseteq Conn /\ Events' = Events
        /\ UNCHANGED sharded /\ UNCHANGED attached /\ UNCHANGED locals /\ UNCHANGED remotes
    BY DEF AllHere, AllThere, SameHere, SameThere, Shapes
  <2>3. Lives'
    BY <2>1, <2>2 DEF Lives
  <2>4. OneSide'
    BY <2>1, <2>2 DEF OneSide
  <2>5. KnownEnd'
    BY <1>2, <2>1, <2>2 DEF KnownEnd
  <2>6. LiveKnown'
    BY <2>1, <2>2 DEF LiveKnown
  <2>7. RemotesAreOwed'
    BY <2>1, <2>2 DEF RemotesAreOwed
  <2> QED
    BY <2>3, <2>4, <2>5, <2>6, <2>7 DEF Carried
<1> QED
  BY <1>3, <1>5, <1>6 DEF LifeInv

(* A step of the main thread's session of d.                                *)
LEMMA HereLives ==
    ASSUME Shapes, LifeInv, NEW d \in Conn, NEW st, NEW closed \in BOOLEAN,
           HereIs(d, st, closed, here[d].transferred), locals \subseteq locals',
           UNCHANGED sharded, UNCHANGED attached, UNCHANGED remotes, UNCHANGED there,
           UNCHANGED handlers, Events' = Events,
           here[d].closed => closed, st # "none" /\ ~closed => d \in locals',
           sharded => st \in {"none", "request"},
           st \in {"accept", "open"} /\ ~closed => d \in attached
    PROVE  LifeInv'
<1>1. /\ here'[d].st = st /\ here'[d].closed = closed /\ here'[d].transferred = here[d].transferred
      /\ \A c \in Conn \ {d} : /\ here'[c].st = here[c].st /\ here'[c].closed = here[c].closed
                               /\ here'[c].transferred = here[c].transferred
      /\ attached \subseteq Conn
  BY DEF HereIs, SameHere, Shapes
<1>2. OneSide /\ Lives /\ KnownEnd /\ LiveKnown /\ RemotesAreOwed
  BY DEF LifeInv, Carried
<1>3. OneSide'
  BY <1>1, <1>2 DEF OneSide
<1>4. Lives'
  BY <1>1, <1>2 DEF Lives
<1>5. KnownEnd'
  <2>1. Closing' = Closing
    BY DEF Closing
  <2> QED
    BY <1>1, <1>2, <2>1 DEF KnownEnd
<1>6. LiveKnown'
  BY <1>1, <1>2 DEF LiveKnown
<1>7. RemotesAreOwed'
  BY <1>2 DEF RemotesAreOwed
<1>8. Told' = Told /\ Started' = Started /\ Posted' = Posted
  BY DEF Told, Started, Posted
<1>9. EventOrder(Events, attached, Told, Started)' /\ HandlerOrder(handlers, Posted, attached, Told)'
  BY <1>8 DEF LifeInv, EventOrder, HandlerOrder
<1> QED
  BY <1>3, <1>4, <1>5, <1>6, <1>7, <1>9 DEF LifeInv, Carried

(* on_request() attaches d: here, on a shard, or on neither.                *)
LEMMA AttachLives ==
    ASSUME Shapes, LifeInv, NEW d \in Conn, Attach(d)
    PROVE  LifeInv'
<1> USE DEF mains, shards
<1>1. /\ here[d].st = "request" /\ ~here[d].closed /\ attached' = attached \cup {d}
      /\ UNCHANGED sharded /\ UNCHANGED locals /\ UNCHANGED remotes
      /\ UNCHANGED main /\ UNCHANGED inbox
  BY DEF Attach
<1>2. OneSide /\ Lives /\ KnownEnd /\ LiveKnown /\ RemotesAreOwed
  BY DEF LifeInv, Carried
<1>3. /\ ~here[d].transferred /\ d \in locals /\ there[d].st = "none" /\ ~there[d].reported
      /\ d \notin Told /\ d \notin Posted /\ d \notin Started
  BY <1>1, <1>2 DEF Lives, Told, Posted, Started
<1>4. Events' = Events
  BY <1>1 DEF Events
<1>5. Closing' = Closing
  BY <1>4 DEF Closing
<1>6. attached \subseteq Conn /\ handlers \in Seq(Handler)
  BY DEF Shapes
<1>7. /\ EventOrder(Events, attached, Told, Started) /\ HandlerOrder(handlers, Posted, attached, Told)
  BY DEF LifeInv
<1>8. ASSUME UNCHANGED there, UNCHANGED handlers, NEW st \in {"accept", "request"},
             NEW closed \in BOOLEAN, sharded => closed /\ st = "request", ~closed => st = "accept",
             HereIs(d, st, closed, FALSE)
      PROVE  LifeInv'
  <2>1. /\ here'[d].st = st /\ here'[d].closed = closed /\ here'[d].transferred = FALSE
        /\ \A c \in Conn \ {d} : /\ here'[c].st = here[c].st /\ here'[c].closed = here[c].closed
                                 /\ here'[c].transferred = here[c].transferred
    BY <1>8 DEF HereIs, SameHere
  <2>2. OneSide'
    BY <1>1, <1>2, <1>4, <1>8, <2>1 DEF OneSide
  <2>3. Lives'
    BY <1>1, <1>2, <1>3, <1>8, <2>1 DEF Lives
  <2>4. KnownEnd'
    BY <1>1, <1>2, <1>3, <1>5, <1>6, <1>8, <2>1 DEF KnownEnd
  <2>5. LiveKnown'
    BY <1>1, <1>2, <1>8, <2>1 DEF LiveKnown
  <2>6. RemotesAreOwed'
    BY <1>1, <1>2 DEF RemotesAreOwed
  <2>7. Told' = Told /\ Started' = Started /\ Posted' = Posted
    BY <1>8 DEF Told, Started, Posted
  <2>8. EventOrder(Events, attached \cup {d}, Told, Started)
    BY <1>7, EventsStand
  <2>9. HandlerOrder(handlers, Posted, attached \cup {d}, Told)
    BY <1>3, <1>7, HandlersStand
  <2>10. EventOrder(Events, attached, Told, Started)' /\ HandlerOrder(handlers, Posted, attached, Told)'
    BY <1>1, <1>4, <1>8, <2>7, <2>8, <2>9 DEF EventOrder, HandlerOrder
  <2> QED
    BY <2>2, <2>3, <2>4, <2>5, <2>6, <2>10 DEF LifeInv, Carried
<1>9. ASSUME sharded, HereIs(d, "request", TRUE, TRUE), ThereIs(d, "posted", FALSE),
             handlers' = Append(handlers, <<"adopt", d>>)
      PROVE  LifeInv'
  <2>1. /\ here'[d].st = "request" /\ here'[d].closed = TRUE /\ here'[d].transferred = TRUE
        /\ \A c \in Conn \ {d} : /\ here'[c].st = here[c].st /\ here'[c].closed = here[c].closed
                                 /\ here'[c].transferred = here[c].transferred
        /\ there'[d].st = "posted" /\ there'[d].reported = FALSE
        /\ \A c \in Conn \ {d} : there'[c].st = there[c].st /\ there'[c].reported = there[c].reported
    BY <1>9 DEF HereIs, SameHere, ThereIs, SameThere
  <2>2. OneSide'
    BY <1>1, <1>2, <1>9, <2>1 DEF OneSide
  <2>3. Lives'
    BY <1>1, <1>2, <1>9, <2>1 DEF Lives
  <2>4. KnownEnd'
    BY <1>1, <1>2, <1>5, <1>6, <1>9, <2>1 DEF KnownEnd
  <2>5. LiveKnown'
    BY <1>1, <1>2, <1>9, <2>1 DEF LiveKnown
  <2>6. RemotesAreOwed'
    BY <1>1, <1>2 DEF RemotesAreOwed
  <2>7. Told' = Told /\ Started' = Started \cup {d} /\ Posted' = Posted \cup {d}
    BY <1>3, <2>1 DEF Told, Started, Posted
  <2>8. EventOrder(Events, attached \cup {d}, Told, Started \cup {d})
    BY <1>7, EventsStand
  <2>9. HandlerOrder(Append(handlers, <<"adopt", d>>), Posted \cup {d}, attached \cup {d}, Told)
    BY <1>3, <1>6, <1>7, HandlerPosted
  <2>10. EventOrder(Events, attached, Told, Started)' /\ HandlerOrder(handlers, Posted, attached, Told)'
    BY <1>1, <1>4, <1>9, <2>7, <2>8, <2>9 DEF EventOrder, HandlerOrder
  <2> QED
    BY <2>2, <2>3, <2>4, <2>5, <2>6, <2>10 DEF LifeInv, Carried
<1>10. \/ /\ ~sharded /\ UNCHANGED there /\ UNCHANGED handlers
          /\ HereIs(d, "accept", FALSE, FALSE)
       \/ /\ sharded /\ HereIs(d, "request", TRUE, TRUE) /\ ThereIs(d, "posted", FALSE)
          /\ handlers' = Append(handlers, <<"adopt", d>>)
       \/ /\ sharded /\ UNCHANGED there /\ UNCHANGED handlers
          /\ HereIs(d, "request", TRUE, FALSE)
  <2>1. \/ /\ ~sharded /\ UNCHANGED there /\ UNCHANGED handlers
           /\ here' = [here EXCEPT ![d].st = "accept"]
        \/ /\ sharded /\ handlers' = Append(handlers, <<"adopt", d>>)
           /\ here' = [here EXCEPT ![d].closed = TRUE, ![d].transferred = TRUE]
           /\ there' = [there EXCEPT ![d].st = "posted"]
        \/ /\ sharded /\ UNCHANGED there /\ UNCHANGED handlers
           /\ here' = [here EXCEPT ![d].closed = TRUE]
    BY DEF Attach
  <2>2. here[d].closed = FALSE /\ here[d].transferred = FALSE /\ there[d].reported = FALSE
    BY <1>1, <1>3 DEF Shapes, HereRecord, ThereRecord
  <2>3. CASE ~sharded
    BY <2>1, <2>2, <2>3, HereBecomes
  <2>4. CASE /\ sharded /\ handlers' = Append(handlers, <<"adopt", d>>)
             /\ here' = [here EXCEPT ![d].closed = TRUE, ![d].transferred = TRUE]
             /\ there' = [there EXCEPT ![d].st = "posted"]
    BY <1>1, <2>2, <2>4, HereBecomes, ThereBecomes
  <2>5. CASE /\ sharded /\ UNCHANGED there /\ UNCHANGED handlers
             /\ here' = [here EXCEPT ![d].closed = TRUE]
    BY <1>1, <2>2, <2>5, HereBecomes
  <2> QED
    BY <2>1, <2>3, <2>4, <2>5
<1> QED
  BY <1>8, <1>9, <1>10

(* A step of the shard's session of d.                                      *)
LEMMA ThereCarries ==
    ASSUME Shapes, Carried, NEW d \in Conn, NEW st, NEW reported \in BOOLEAN,
           ThereIs(d, st, reported), there[d].st # "none",
           UNCHANGED sharded, UNCHANGED here, UNCHANGED attached, UNCHANGED locals,
           UNCHANGED remotes, Closing \subseteq Closing',
           st \notin {"none", "posted"}, ~reported => d \in attached,
           d \in attached => st \in {"accept", "open"} /\ (reported => d \in Closing')
    PROVE  Carried'
<1>1. /\ there'[d].st = st /\ there'[d].reported = reported
      /\ \A c \in Conn \ {d} : there'[c].st = there[c].st /\ there'[c].reported = there[c].reported
      /\ attached \subseteq Conn
  BY DEF ThereIs, SameThere, Shapes
<1>2. OneSide /\ Lives /\ KnownEnd /\ LiveKnown /\ RemotesAreOwed
  BY DEF Carried
<1>3. OneSide'
  <2>1. sharded
    BY <1>2 DEF OneSide
  <2> QED
    BY <1>2, <2>1 DEF OneSide
<1>4. Lives'
  BY <1>1, <1>2 DEF Lives
<1>5. KnownEnd'
  BY <1>1, <1>2 DEF KnownEnd
<1>6. LiveKnown'
  BY <1>1, <1>2 DEF LiveKnown
<1>7. RemotesAreOwed'
  BY <1>2 DEF RemotesAreOwed
<1> QED
  BY <1>3, <1>4, <1>5, <1>6, <1>7 DEF Carried

LEMMA HandlerLives ==
    ASSUME Shapes, LifeInv, RunHandler
    PROVE  LifeInv'
<1> USE DEF mains, shards
<1>1. /\ handlers # <<>> /\ handlers' = Tail(handlers) /\ handlers \in Seq(Handler)
      /\ UNCHANGED sharded /\ UNCHANGED here /\ UNCHANGED attached /\ UNCHANGED locals
      /\ UNCHANGED remotes /\ UNCHANGED main /\ UNCHANGED inbox
  BY DEF RunHandler, Shapes
<1>2. PICK op \in {"adopt", "drain", "close", "erase"}, d \in Conn :
          Head(handlers) = <<op, d>> /\ Head(handlers)[1] = op /\ Head(handlers)[2] = d
  BY <1>1, HandlerAtHead
<1>3. /\ HandlerOrder(Tail(handlers), Posted, attached, Told)
      /\ op = "adopt" => d \in Posted /\ HandlerOrder(Tail(handlers), Posted \ {d}, attached, Told)
      /\ op = "erase" => d \notin attached /\ d \in Told
  <2>1. /\ HandlerOrder(handlers, Posted, attached, Told)
        /\ handlers \in Seq(Handler) /\ handlers # <<>> /\ Head(handlers) = <<op, d>>
    BY <1>1, <1>2 DEF LifeInv
  <2> QED
    BY <2>1, HandlerDone, SMTT(60)
<1>4. Events' = Events /\ Closing' = Closing
  BY <1>1 DEF Events, Closing
<1>5. EventOrder(Events, attached, Told, Started) /\ Carried
  BY DEF LifeInv
<1>6. there \in [Conn -> ThereRecord]
  BY DEF Shapes
<1>7. CASE op = "adopt"
  <2>1. ThereIs(d, "accept", there[d].reported)
    <3>1. there' = [there EXCEPT ![d].st = "accept"]
      BY <1>2, <1>7 DEF RunHandler
    <3> QED
      BY <3>1, ThereBecomes
  <2>2. there[d].st = "posted" /\ ~there[d].reported /\ there[d].reported \in BOOLEAN
    BY <1>3, <1>5, <1>6, <1>7 DEF Posted, Carried, Lives, ThereRecord
  <2>3. d \in attached
    BY <1>5, <2>2 DEF Carried, LiveKnown
  <2>4. Carried'
    BY <1>1, <1>4, <1>5, <2>1, <2>2, <2>3, ThereCarries
  <2>5. /\ there'[d].st = "accept" /\ there'[d].reported = there[d].reported
        /\ \A c \in Conn \ {d} : there'[c].st = there[c].st /\ there'[c].reported = there[c].reported
    BY <2>1 DEF ThereIs, SameThere
  <2>6. Told' = Told /\ Started' = Started /\ Posted' = Posted \ {d}
    BY <2>2, <2>5 DEF Told, Started, Posted
  <2>7. EventOrder(Events, attached, Told, Started)' /\ HandlerOrder(handlers, Posted, attached, Told)'
    BY <1>1, <1>3, <1>4, <1>5, <1>7, <2>6 DEF EventOrder, HandlerOrder
  <2> QED
    BY <2>4, <2>7 DEF LifeInv
<1>8. CASE op \in {"drain", "close"}
  <2>1. PICK r : there' = [there EXCEPT ![d] = r] /\ r.st = there[d].st /\ r.reported = there[d].reported
    <3>1. \/ there' = [there EXCEPT ![d] = Unkick(there[d])]
          \/ there' = [there EXCEPT ![d] = DoClose(there[d])]
          \/ there' = [there EXCEPT ![d] = there[d]]
      BY <1>2, <1>8 DEF RunHandler
    <3>2. /\ Unkick(there[d]).st = there[d].st /\ Unkick(there[d]).reported = there[d].reported
          /\ DoClose(there[d]).st = there[d].st /\ DoClose(there[d]).reported = there[d].reported
      BY <1>6 DEF Unkick, DoClose, ThereRecord
    <3> QED
      BY <3>1, <3>2
  <2>2. AllThere
    <3>1. ThereIs(d, there[d].st, there[d].reported)
      BY <1>6, <2>1, ThereBecomes
    <3> QED
      BY <3>1 DEF ThereIs, SameThere, AllThere
  <2>3. Told' = Told /\ Started' = Started /\ Posted' = Posted
    BY <2>2 DEF Told, Started, Posted, AllThere, SameThere
  <2>4. /\ \A c \in Conn : there'[c].st = there[c].st /\ there'[c].reported = there[c].reported
        /\ attached \subseteq Conn
    BY <2>2 DEF AllThere, SameThere, Shapes
  <2>5. OneSide /\ Lives /\ KnownEnd /\ LiveKnown /\ RemotesAreOwed
    BY <1>5 DEF Carried
  <2>6. OneSide'
    BY <1>1, <1>4, <2>4, <2>5 DEF OneSide
  <2>7. Lives'
    BY <1>1, <2>4, <2>5 DEF Lives
  <2>8. KnownEnd'
    BY <1>1, <1>4, <2>4, <2>5 DEF KnownEnd
  <2>9. LiveKnown'
    BY <1>1, <2>4, <2>5 DEF LiveKnown
  <2>10. RemotesAreOwed'
    BY <1>1, <2>5 DEF RemotesAreOwed
  <2>11. EventOrder(Events, attached, Told, Started)' /\ HandlerOrder(handlers, Posted, attached, Told)'
    BY <1>1, <1>3, <1>4, <1>5, <2>3 DEF EventOrder, HandlerOrder
  <2> QED
    BY <2>6, <2>7, <2>8, <2>9, <2>10, <2>11 DEF LifeInv, Carried
<1>9. CASE op = "erase"
  <2>1. ThereIs(d, "erased", there[d].reported)
    <3>1. there' = [there EXCEPT ![d].st = "erased"]
      BY <1>2, <1>9 DEF RunHandler
    <3> QED
      BY <3>1, ThereBecomes
  <2>2. d \notin attached /\ there[d].reported /\ there[d].reported \in BOOLEAN
    BY <1>3, <1>6, <1>9 DEF Told, ThereRecord
  <2>3. there[d].st \notin {"none", "posted"}
    BY <1>5, <2>2 DEF Carried, Lives
  <2>4. Carried'
    BY <1>1, <1>4, <1>5, <2>1, <2>2, <2>3, ThereCarries
  <2>5. /\ there'[d].st = "erased" /\ there'[d].reported = there[d].reported
        /\ \A c \in Conn \ {d} : there'[c].st = there[c].st /\ there'[c].reported = there[c].reported
    BY <2>1 DEF ThereIs, SameThere
  <2>6. Told' = Told /\ Started' = Started /\ Posted' = Posted
    BY <2>3, <2>5 DEF Told, Started, Posted
  <2>7. EventOrder(Events, attached, Told, Started)' /\ HandlerOrder(handlers, Posted, attached, Told)'
    BY <1>1, <1>3, <1>4, <1>5, <2>6 DEF EventOrder, HandlerOrder
  <2> QED
    BY <2>4, <2>7 DEF LifeInv
<1> QED
  BY <1>7, <1>8, <1>9

(* The shard reports an event of d.                                         *)
LEMMA EventAppended ==
    ASSUME Shapes, UNCHANGED main, NEW e \in Event, inbox' = Append(inbox, e)
    PROVE  Events' = Append(Events, e) /\ Events \in Seq(Event)
<1>1. main.events \in Seq(Event) /\ inbox \in Seq(Event)
  BY DEF Shapes
<1>2. \A x, y \in Seq(Event) : x \o y \in Seq(Event) /\ x \o Append(y, e) = Append(x \o y, e)
  OBVIOUS
<1> QED
  BY <1>1, <1>2 DEF Events

LEMMA ReportLives ==
    ASSUME Shapes, LifeInv, NEW d \in Conn, AcceptedThere(d) \/ ReadThere(d) \/ EndThere(d)
    PROVE  LifeInv'
<1> USE DEF mains, shards
<1>1. /\ UNCHANGED sharded /\ UNCHANGED here /\ UNCHANGED attached /\ UNCHANGED locals
      /\ UNCHANGED remotes /\ UNCHANGED main /\ UNCHANGED handlers
      /\ there[d].st \in {"accept", "open"} /\ ~there[d].reported
  <2>1. CASE AcceptedThere(d)
    BY <2>1 DEF AcceptedThere
  <2>2. CASE ReadThere(d)
    BY <2>2 DEF ReadThere
  <2>3. CASE EndThere(d)
    BY <2>3 DEF EndThere
  <2> QED
    BY <2>1, <2>2, <2>3
<1>2. EventOrder(Events, attached, Told, Started) /\ Carried /\ HandlerOrder(handlers, Posted, attached, Told)
  BY DEF LifeInv
<1>3. d \in attached /\ d \notin Posted /\ d \in Started /\ d \notin Told /\ there[d].reported = FALSE
  <2>1. d \in attached
    BY <1>1, <1>2 DEF Carried, LiveKnown
  <2>2. there[d].reported = FALSE
    BY <1>1 DEF Shapes, ThereRecord
  <2> QED
    BY <1>1, <2>1, <2>2 DEF Posted, Started, Told
<1>4. PICK kind \in {"attach", "ack", "bad", "closed"}, st \in {"accept", "open"}, rep \in BOOLEAN :
          /\ inbox' = Append(inbox, <<kind, d>>) /\ ThereIs(d, st, rep) /\ (kind = "closed" <=> rep)
  <2>1. CASE AcceptedThere(d)
    <3>1. inbox' = Append(inbox, <<"attach", d>>) /\ there' = [there EXCEPT ![d].st = "open"]
      BY <2>1 DEF AcceptedThere
    <3>2. ThereIs(d, "open", FALSE)
      BY <1>3, <3>1, ThereBecomes
    <3> QED
      BY <3>1, <3>2
  <2>2. CASE ReadThere(d)
    <3>1. \/ inbox' = Append(inbox, <<"ack", d>>)
          \/ inbox' = Append(inbox, <<"bad", d>>)
      BY <2>2 DEF ReadThere
    <3>2. ThereIs(d, there[d].st, FALSE)
      BY <1>3, <2>2 DEF ReadThere, ThereIs, SameThere
    <3> QED
      BY <1>1, <3>1, <3>2
  <2>3. CASE EndThere(d)
    <3>1. inbox' = Append(inbox, <<"closed", d>>) /\ there' = [there EXCEPT ![d] = ReportClosed(@)]
      BY <1>1, <2>3 DEF EndThere, Closed
    <3>2. ThereIs(d, there[d].st, TRUE)
      BY <1>1, <3>1, ThereBecomes
    <3> QED
      BY <1>1, <3>1, <3>2
  <2> QED
    BY <2>1, <2>2, <2>3
<1>5. Events' = Append(Events, <<kind, d>>) /\ Events \in Seq(Event)
  <2>1. <<kind, d>> \in Event
    BY DEF Event
  <2> QED
    BY <1>1, <1>4, <2>1, EventAppended
<1>6. /\ there'[d].st = st /\ there'[d].reported = rep
      /\ \A c \in Conn \ {d} : there'[c].st = there[c].st /\ there'[c].reported = there[c].reported
  BY <1>4 DEF ThereIs, SameThere
<1>7. /\ Told' = IF rep THEN Told \cup {d} ELSE Told
      /\ Started' = Started /\ Posted' = Posted
  BY <1>1, <1>3, <1>4, <1>6 DEF Told, Started, Posted
<1>8. /\ EventOrder(Append(Events, <<kind, d>>), attached, Told', Started)
      /\ Ending(Events) \subseteq Ending(Append(Events, <<kind, d>>))
      /\ kind = "closed" => d \in Ending(Append(Events, <<kind, d>>))
  <2> DEFINE TT == Told'
  <2>1. /\ Told \subseteq TT /\ (kind = "closed" => d \in TT) /\ (kind = "attach" => d \in attached /\ d \notin Told)
        /\ d \in Started /\ Events \in Seq(Event) /\ EventOrder(Events, attached, Told, Started)
    BY <1>2, <1>3, <1>4, <1>5, <1>7
  <2> HIDE DEF TT
  <2>2. /\ EventOrder(Append(Events, <<kind, d>>), attached, TT, Started)
        /\ Ending(Events) \subseteq Ending(Append(Events, <<kind, d>>))
        /\ kind = "closed" => d \in Ending(Append(Events, <<kind, d>>))
    BY <2>1, EventPosted
  <2> QED
    BY <2>2 DEF TT
<1>9. Closing \subseteq Closing' /\ (rep => d \in Closing')
  BY <1>4, <1>5, <1>8 DEF Closing
<1>10. Carried'
  BY <1>1, <1>2, <1>3, <1>4, <1>9, ThereCarries
<1>11. EventOrder(Events, attached, Told, Started)'
  BY <1>1, <1>5, <1>7, <1>8 DEF EventOrder
<1>12. HandlerOrder(handlers, Posted, attached, Told')
  <2> DEFINE TT == Told'
  <2>1. Told \subseteq TT /\ attached \cap Told \subseteq attached
    BY <1>7
  <2> HIDE DEF TT
  <2>2. HandlerOrder(handlers, Posted, attached, TT)
    BY <1>2, <2>1, HandlersStand
  <2> QED
    BY <2>2 DEF TT
<1>13. HandlerOrder(handlers, Posted, attached, Told)'
  BY <1>1, <1>7, <1>12 DEF HandlerOrder
<1> QED
  BY <1>10, <1>11, <1>13 DEF LifeInv

(* drain_inbox() handles the event at the head.                             *)
LEMMA EventTaken ==
    ASSUME Shapes, main.events # <<>>, main'.events = Tail(main.events), UNCHANGED inbox
    PROVE  /\ Events \in Seq(Event) /\ Events # <<>> /\ Head(Events) = Head(main.events)
           /\ Events' = Tail(Events)
<1>1. main.events \in Seq(Event) /\ inbox \in Seq(Event)
  BY DEF Shapes
<1>2. ASSUME NEW x \in Seq(Event), NEW y \in Seq(Event), x # <<>>
      PROVE  /\ x \o y \in Seq(Event) /\ x \o y # <<>> /\ Head(x \o y) = Head(x)
             /\ Tail(x) \o y = Tail(x \o y)
  <2>1. x \o y \in Seq(Event) /\ x \o y # <<>> /\ Head(x \o y) = Head(x)
    BY <1>2
  <2>2. Tail(x) \in Seq(Event) /\ Tail(x) \o y \in Seq(Event) /\ Tail(x \o y) \in Seq(Event)
    BY <1>2, <2>1
  <2>3. Len(Tail(x) \o y) = Len(Tail(x \o y))
    BY <1>2, <2>1
  <2>4. ASSUME NEW i \in 1 .. Len(Tail(x) \o y) PROVE (Tail(x) \o y)[i] = Tail(x \o y)[i]
    BY <1>2, <2>1
  <2> DEFINE l == Tail(x) \o y
             r == Tail(x \o y)
  <2>5. l \in Seq(Event) /\ r \in Seq(Event) /\ Len(l) = Len(r) /\ \A i \in 1 .. Len(l) : l[i] = r[i]
    BY <2>2, <2>3, <2>4
  <2> HIDE DEF l, r
  <2>6. l = r
    BY <2>5, SeqEqual
  <2> QED
    BY <2>1, <2>6 DEF l, r
<1> QED
  BY <1>1, <1>2, SMTT(60) DEF Events

LEMMA EventLives ==
    ASSUME Shapes, LifeInv, HandleEvent
    PROVE  LifeInv'
<1> USE DEF mains, shards
<1>1. /\ main.events # <<>>
      /\ UNCHANGED sharded /\ UNCHANGED here /\ UNCHANGED there /\ UNCHANGED locals
      /\ UNCHANGED inbox
  BY DEF HandleEvent
<1>2. PICK kind \in {"attach", "ack", "bad", "closed"}, d \in Conn :
          /\ Head(main.events) = <<kind, d>>
          /\ Head(main.events)[1] = kind /\ Head(main.events)[2] = d
  BY <1>1, EventAtHead
<1>3. /\ remotes' = Registered(kind, d)
      /\ attached' = IF kind = "closed" THEN attached \ {d} ELSE attached
      /\ handlers' = IF kind = "closed" THEN Append(handlers, <<"erase", d>>) ELSE handlers
  BY <1>2 DEF HandleEvent
<1>4. main'.events = Tail(main.events)
  <2> DEFINE r == IF kind = "bad" THEN RefuseThere(d) ELSE <<>>
  <2>1. main' = [main EXCEPT !.events = Tail(main.events), !.script = r]
    BY <1>2 DEF HandleEvent
  <2> HIDE DEF r
  <2>2. main \in [at : {"io", "drain", "flush"}, events : Seq(Event), todo : SUBSET Conn,
                  script : Seq(Script)]
    BY DEF Shapes
  <2> QED
    BY <2>1, <2>2
<1>5. /\ Events \in Seq(Event) /\ Events # <<>> /\ Head(Events) = <<kind, d>>
      /\ Events' = Tail(Events)
  BY <1>1, <1>2, <1>4, EventTaken
<1>6. EventOrder(Events, attached, Told, Started) /\ Carried /\ HandlerOrder(handlers, Posted, attached, Told)
  BY DEF LifeInv
<1>7. OneSide /\ Lives /\ KnownEnd /\ LiveKnown /\ RemotesAreOwed /\ sharded
  <2>1. OneSide /\ Lives /\ KnownEnd /\ LiveKnown /\ RemotesAreOwed
    BY <1>6 DEF Carried
  <2> QED
    BY <1>5, <2>1 DEF OneSide
<1>8. /\ kind # "closed" => /\ EventOrder(Tail(Events), attached, Told, Started)
                            /\ Ending(Events) \subseteq Ending(Tail(Events))
      /\ kind = "closed" => /\ EventOrder(Tail(Events), attached \ {d}, Told, Started) /\ d \in Told
                            /\ Ending(Events) \ {d} \subseteq Ending(Tail(Events))
      /\ kind = "attach" => d \in attached
      /\ d \in Started
  <2>1. EventOrder(Events, attached, Told, Started)
    BY <1>6
  <2> QED
    BY <1>5, <2>1, EventHandled
<1>9. attached \subseteq Conn /\ handlers \in Seq(Handler)
  BY DEF Shapes
<1>10. Told' = Told /\ Started' = Started /\ Posted' = Posted
  BY <1>1 DEF Told, Started, Posted
<1>11. attached' \subseteq attached /\ there[d].st # "none"
  BY <1>3, <1>8 DEF Started
<1>12. OneSide'
  BY <1>1, <1>7, <1>11 DEF OneSide
<1>13. Lives'
  <2>1. remotes' \subseteq remotes \cup {d}
    BY <1>3 DEF Registered
  <2> QED
    BY <1>1, <1>7, <1>11, <2>1 DEF Lives
<1>14. KnownEnd'
  <2>1. Closing \ (IF kind = "closed" THEN {d} ELSE {}) \subseteq Closing'
    BY <1>5, <1>8 DEF Closing
  <2>2. kind = "closed" => d \notin attached'
    BY <1>3
  <2> QED
    BY <1>1, <1>7, <1>11, <2>1, <2>2 DEF KnownEnd
<1>15. LiveKnown'
  <2>1. \A c \in Conn : here[c].st \notin {"accept", "open"}
    BY <1>7 DEF OneSide
  <2>2. \A c \in Conn : c \in attached => c \in attached' \/ (c = d /\ there[d].reported)
    BY <1>3, <1>8 DEF Told
  <2> QED
    BY <1>1, <1>7, <2>1, <2>2 DEF LiveKnown
<1>16. RemotesAreOwed'
  BY <1>3, <1>7, <1>8 DEF RemotesAreOwed, Registered
<1>17. EventOrder(Tail(Events), attached', Told, Started)
  BY <1>3, <1>8
<1>18. HandlerOrder(handlers', Posted, attached', Told)
  <2>1. CASE kind = "closed"
    <3>1. /\ attached \ {d} \subseteq attached /\ d \in Told /\ d \notin attached \ {d}
          /\ HandlerOrder(handlers, Posted, attached, Told)
      BY <1>6, <1>8, <2>1
    <3>2. HandlerOrder(Append(handlers, <<"erase", d>>), Posted, attached \ {d}, Told)
      BY <1>9, <3>1, HandlerPosted
    <3> QED
      BY <1>3, <2>1, <3>2
  <2>2. CASE kind # "closed"
    BY <1>3, <1>6, <2>2
  <2> QED
    BY <2>1, <2>2
<1>19. EventOrder(Events, attached, Told, Started)' /\ HandlerOrder(handlers, Posted, attached, Told)'
  BY <1>5, <1>10, <1>17, <1>18 DEF EventOrder, HandlerOrder
<1> QED
  BY <1>12, <1>13, <1>14, <1>15, <1>16, <1>19 DEF LifeInv, Carried

(* sweep_local().                                                           *)
LEMMA SweepLives ==
    ASSUME Shapes, LifeInv, Sweep
    PROVE  LifeInv'
<1> USE DEF mains, shards
<1>1. /\ locals' = locals \ Swept /\ attached' = attached \ Detachable
      /\ UNCHANGED sharded /\ UNCHANGED here /\ UNCHANGED there /\ UNCHANGED remotes
      /\ UNCHANGED inbox /\ UNCHANGED handlers /\ main' = [main EXCEPT !.at = "io"]
  BY DEF Sweep
<1>2. Events' = Events
  <2>1. main'.events = main.events
    BY <1>1 DEF Shapes
  <2> QED
    BY <1>1, <2>1 DEF Events
<1>3. EventOrder(Events, attached, Told, Started) /\ Carried /\ HandlerOrder(handlers, Posted, attached, Told)
  BY DEF LifeInv
<1>4. OneSide /\ Lives /\ KnownEnd /\ LiveKnown /\ RemotesAreOwed
  BY <1>3 DEF Carried
<1>5. \A c \in Conn : c \in Detachable => /\ here[c].closed /\ ~here[c].transferred /\ c \in locals
                                          /\ there[c].st = "none"
  BY <1>4 DEF Detachable, Swept, Lives
<1>6. attached \subseteq Conn /\ remotes \subseteq Conn /\ locals \subseteq Conn
  BY DEF Shapes
<1>7. OneSide'
  BY <1>1, <1>2, <1>4 DEF OneSide
<1>8. Lives'
  BY <1>1, <1>4 DEF Lives, Swept
<1>9. KnownEnd'
  <2>1. Closing' = Closing
    BY <1>2 DEF Closing
  <2> QED
    BY <1>1, <1>4, <1>6, <2>1 DEF KnownEnd, Swept, Detachable
<1>10. LiveKnown'
  BY <1>1, <1>4, <1>5 DEF LiveKnown
<1>11. RemotesAreOwed'
  BY <1>1, <1>4, <1>5, <1>6 DEF RemotesAreOwed, Lives
<1>12. Told' = Told /\ Started' = Started /\ Posted' = Posted
  BY <1>1 DEF Told, Started, Posted
<1>13. EventOrder(Events, attached', Told, Started)
  <2> DEFINE AA == attached'
  <2>1. attached \cap Started \subseteq AA
    BY <1>1, <1>5, <1>6 DEF Started
  <2> HIDE DEF AA
  <2>2. EventOrder(Events, AA, Told, Started)
    BY <1>3, <2>1, EventsStand
  <2> QED
    BY <2>2 DEF AA
<1>14. HandlerOrder(handlers, Posted, attached', Told)
  <2> DEFINE AA == attached'
  <2>1. AA \cap Told \subseteq attached
    BY <1>1
  <2> HIDE DEF AA
  <2>2. HandlerOrder(handlers, Posted, AA, Told)
    BY <1>3, <2>1, HandlersStand
  <2> QED
    BY <2>2 DEF AA
<1>15. EventOrder(Events, attached, Told, Started)' /\ HandlerOrder(handlers, Posted, attached, Told)'
  BY <1>1, <1>2, <1>12, <1>13, <1>14 DEF EventOrder, HandlerOrder
<1> QED
  BY <1>7, <1>8, <1>9, <1>10, <1>11, <1>15 DEF LifeInv, Carried

-----------------------------------------------------------------------------
(* The main loop, and the steps that leave the life of a connection alone.  *)

LoopInv ==
    /\ main.at # "drain" => main.events = <<>>
    /\ ~sharded => main.todo = {} /\ main.script = <<>>

LEMMA FlushesOne ==
    ASSUME Shapes, NEW c \in Conn, FlushRemote(c)
    PROVE  /\ main.at = "flush" /\ c \in main.todo
           /\ main'.at = main.at /\ main'.events = main.events
<1>1. main.at = "flush" /\ c \in main.todo
  BY DEF FlushRemote, Idle
<1>2. main \in [at : {"io", "drain", "flush"}, events : Seq(Event), todo : SUBSET Conn,
                script : Seq(Script)]
  BY DEF Shapes
<1> DEFINE p == EnqueueThere(c, taken[c] + 1)
           q == RequestClose(c)
           d == main.todo \ {c}
<1>3. \/ main' = [main EXCEPT !.todo = d, !.script = q]
      \/ main' = [main EXCEPT !.script = p]
      \/ main' = [main EXCEPT !.todo = d]
  BY DEF FlushRemote
<1> HIDE DEF p, q, d
<1> QED
  BY <1>1, <1>2, <1>3

LEMMA LoopStep ==
    ASSUME Shapes, OneSide, LoopInv, [Next]_vars
    PROVE  LoopInv'
<1> USE DEF mains, shards
<1>0. /\ main \in [at : {"io", "drain", "flush"}, events : Seq(Event), todo : SUBSET Conn,
                   script : Seq(Script)]
      /\ inbox \in Seq(Event)
  BY DEF Shapes
<1>1. sharded' = sharded
  BY SessionsStep
<1>2. ~sharded => main.events = <<>> /\ remotes = {}
  <2>1. ASSUME main.events # <<>> PROVE Events # <<>>
    BY <1>0, <2>1 DEF Events
  <2> QED
    BY <2>1 DEF OneSide
<1>3. CASE TakeInbox
  <2>1. main'.at = "drain" /\ main'.todo = main.todo /\ main'.script = main.script
    <3>1. main' = [main EXCEPT !.at = "drain", !.events = inbox]
      BY <1>3 DEF TakeInbox
    <3> QED
      BY <1>0, <3>1
  <2> QED
    BY <1>1, <2>1 DEF LoopInv
<1>4. CASE HandleEvent
  <2> DEFINE e == Tail(main.events)
             p == IF Head(main.events)[1] = "bad" THEN RefuseThere(Head(main.events)[2]) ELSE <<>>
  <2>1. /\ main.events # <<>> /\ main.at = "drain"
        /\ main' = [main EXCEPT !.events = e, !.script = p]
    BY <1>4 DEF HandleEvent, Idle
  <2> HIDE DEF e, p
  <2>2. main'.at = "drain"
    BY <1>0, <2>1
  <2> QED
    BY <1>1, <1>2, <2>1, <2>2 DEF LoopInv
<1>5. CASE Access
  <2>1. main.script # <<>>
    BY <1>5, Zenon DEF Access
  <2>2. \E p : main' = [main EXCEPT !.script = p]
    BY <1>5, Zenon DEF Access
  <2>3. main'.at = main.at /\ main'.events = main.events
    BY <1>0, <2>2
  <2> QED
    BY <1>1, <2>1, <2>3 DEF LoopInv
<1>6. CASE FlushLocal
  <2>1. main.events = <<>> /\ main.script = <<>> /\ main' = [main EXCEPT !.at = "flush", !.todo = remotes]
    BY <1>6 DEF FlushLocal, Idle
  <2>2. main'.events = <<>> /\ main'.script = <<>> /\ main'.todo = remotes
    BY <1>0, <2>1
  <2> QED
    BY <1>1, <1>2, <2>2 DEF LoopInv
<1>7. CASE Sweep
  <2>1. main.at = "flush" /\ main' = [main EXCEPT !.at = "io"]
    BY <1>7 DEF Sweep, Idle
  <2>2. main'.events = main.events /\ main'.script = main.script /\ main'.todo = main.todo
    BY <1>0, <2>1
  <2> QED
    BY <1>1, <2>1, <2>2 DEF LoopInv
<1>8. ASSUME NEW c \in Conn, FlushRemote(c) PROVE LoopInv'
  <2>1. /\ main.at = "flush" /\ c \in main.todo
        /\ main'.at = main.at /\ main'.events = main.events
    BY <1>8, FlushesOne
  <2> QED
    BY <1>1, <2>1 DEF LoopInv
<1>9. CASE UNCHANGED main
  BY <1>1, <1>9, SMTT(60) DEF LoopInv
<1>10. \/ UNCHANGED main \/ TakeInbox \/ HandleEvent \/ Access \/ FlushLocal \/ Sweep
       \/ \E c \in Conn : FlushRemote(c)
  BY ZenonT(60) DEF Next, vars, Main, Shard, RunHandler, TakeOutbox, Accept, Refuse, Attach, AcceptedHere,
         ReadHere, WroteOne, EndHere, Condemn, CloseSession, AcceptedThere, ReadThere, WroteThere,
         EndThere, Leave
<1> QED
  BY <1>3, <1>4, <1>5, <1>6, <1>7, <1>8, <1>9, <1>10

LEMMA QuietLives ==
    ASSUME Shapes, Shapes', FrontIsWritten, LifeInv, LoopInv, [Next]_vars,
           \/ UNCHANGED vars \/ TakeInbox \/ Access \/ FlushLocal \/ TakeOutbox
           \/ \E S \in SUBSET Conn : CloseSession(S)
           \/ \E c \in Conn : \/ FlushRemote(c) \/ ReadHere(c) \/ WroteOne(c) \/ Condemn(c)
                              \/ WroteThere(c) \/ Leave(c)
    PROVE  LifeInv'
<1> USE DEF mains, shards
<1>0. /\ here \in [Conn -> HereRecord] /\ there \in [Conn -> ThereRecord]
      /\ main \in [at : {"io", "drain", "flush"}, events : Seq(Event), todo : SUBSET Conn,
                   script : Seq(Script)]
      /\ inbox \in Seq(Event) /\ busy \in Conn \cup {None}
  BY DEF Shapes
<1> DEFINE Same == UNCHANGED sharded /\ UNCHANGED attached /\ UNCHANGED locals /\ UNCHANGED remotes
<1>a. ASSUME Same, UNCHANGED handlers, Events' = Events, AllHere, AllThere PROVE LifeInv'
  BY <1>a, LifeStays
<1>b. ASSUME UNCHANGED here PROVE AllHere
  BY <1>b DEF AllHere, SameHere
<1>c. ASSUME UNCHANGED there PROVE AllThere
  BY <1>c DEF AllThere, SameThere
<1>d. ASSUME UNCHANGED inbox, main'.events = main.events PROVE Events' = Events
  BY <1>d DEF Events
<1>e. ASSUME NEW d \in Conn, HereIs(d, here[d].st, here[d].closed, here[d].transferred) PROVE AllHere
  BY <1>e DEF AllHere, HereIs, SameHere
<1>f. ASSUME NEW d \in Conn, ThereIs(d, there[d].st, there[d].reported) PROVE AllThere
  BY <1>f DEF AllThere, ThereIs, SameThere
<1>1. CASE UNCHANGED vars
  BY <1>1, <1>a, <1>b, <1>c, <1>d DEF vars
<1>2. CASE TakeInbox
  <2>1. /\ Same /\ UNCHANGED handlers /\ UNCHANGED here /\ UNCHANGED there
        /\ main' = [main EXCEPT !.at = "drain", !.events = inbox] /\ inbox' = <<>>
        /\ main.at = "io"
    BY <1>2 DEF TakeInbox, Idle
  <2>2. Events' = Events
    <3>1. main.events = <<>> /\ main'.events = inbox
      BY <1>0, <2>1 DEF LoopInv
    <3>2. inbox \o <<>> = <<>> \o inbox
      BY <1>0
    <3> QED
      BY <2>1, <3>1, <3>2 DEF Events
  <2> QED
    BY <1>a, <1>b, <1>c, <2>1, <2>2
<1>3. CASE FlushLocal
  <2>1. /\ Same /\ UNCHANGED handlers /\ UNCHANGED there /\ UNCHANGED inbox
        /\ main' = [main EXCEPT !.at = "flush", !.todo = remotes]
    BY <1>3 DEF FlushLocal
  <2>2. AllHere
    BY <1>3, FlushesLocal DEF AllHere
  <2>3. main'.events = main.events
    BY <1>0, <2>1
  <2> QED
    BY <1>a, <1>c, <1>d, <2>1, <2>2, <2>3
<1>4. CASE TakeOutbox
  <2> DEFINE s == Taken(there[busy])
             t == IF s.cur = <<>> THEN WriteThere(s) ELSE s
  <2>1. /\ Same /\ UNCHANGED handlers /\ UNCHANGED here /\ UNCHANGED inbox /\ UNCHANGED main
        /\ busy \in Conn /\ there' = [there EXCEPT ![busy] = t]
    BY <1>0, <1>4 DEF TakeOutbox
  <2>2. s \in ThereRecord /\ SameThere(s, there[busy])
    BY <1>0, <2>1, TakesOutbox
  <2> HIDE DEF s
  <2>3. t.st = there[busy].st /\ t.reported = there[busy].reported
    BY <2>2, WritesThere DEF SameThere
  <2> HIDE DEF t
  <2>4. AllThere
    BY <1>f, <2>1, <2>3, ThereBecomes
  <2> QED
    BY <1>a, <1>b, <1>d, <2>1, <2>4
<1>5. ASSUME NEW d \in Conn, FlushRemote(d) PROVE LifeInv'
  <2>1. Same /\ UNCHANGED handlers /\ UNCHANGED here /\ UNCHANGED there /\ UNCHANGED inbox
    BY <1>5, Zenon DEF FlushRemote
  <2>2. main'.events = main.events
    BY <1>5, FlushesOne
  <2> QED
    BY <1>a, <1>b, <1>c, <1>d, <2>1, <2>2
<1>6. ASSUME NEW d \in Conn, ReadHere(d) PROVE LifeInv'
  <2>1. /\ Same /\ UNCHANGED handlers /\ UNCHANGED there /\ UNCHANGED inbox /\ UNCHANGED main
        /\ UNCHANGED here \/ here' = [here EXCEPT ![d] = RefuseHere(here[d])]
    BY <1>6 DEF ReadHere
  <2>2. RefuseHere(here[d]) \in HereRecord /\ SameHere(RefuseHere(here[d]), here[d])
    BY <1>0, RefusesHere
  <2>3. AllHere
    <3>1. CASE UNCHANGED here
      BY <1>b, <3>1
    <3>2. CASE here' = [here EXCEPT ![d] = RefuseHere(here[d])]
      <4> DEFINE r == RefuseHere(here[d])
      <4>1. here' = [here EXCEPT ![d] = r] /\ SameHere(r, here[d])
        BY <2>2, <3>2
      <4> HIDE DEF r
      <4>2. HereIs(d, r.st, r.closed, r.transferred)
        <5>1. "open" \in {"none", "request", "accept", "open"}
          OBVIOUS
        <5> QED
          BY <4>1, <5>1, HereBecomes
      <4> QED
        BY <1>e, <4>1, <4>2 DEF SameHere
    <3> QED
      BY <2>1, <3>1, <3>2
  <2> QED
    BY <1>a, <1>c, <1>d, <2>1, <2>3
<1>7. ASSUME NEW d \in Conn, WroteOne(d) PROVE LifeInv'
  <2> DEFINE r == WroteHere(here[d])
  <2>1. /\ Same /\ UNCHANGED handlers /\ UNCHANGED there /\ UNCHANGED inbox /\ UNCHANGED main
        /\ here' = [here EXCEPT ![d] = r] /\ here[d].cur # <<>>
    BY <1>7 DEF WroteOne
  <2>2. SameHere(r, here[d])
    BY <1>0, <2>1, WroteOneHere DEF FrontIsWritten
  <2> HIDE DEF r
  <2>3. AllHere
    <3>1. "open" \in {"none", "request", "accept", "open"}
      OBVIOUS
    <3>2. HereIs(d, r.st, r.closed, r.transferred)
      BY <2>1, <3>1, HereBecomes
    <3> QED
      BY <1>e, <2>2, <3>2 DEF SameHere
  <2> QED
    BY <1>a, <1>c, <1>d, <2>1, <2>3
<1>8. ASSUME NEW d \in Conn, WroteThere(d) PROVE LifeInv'
  <2> DEFINE r == WriteThere(there[d])
  <2>1. /\ Same /\ UNCHANGED handlers /\ UNCHANGED here /\ UNCHANGED inbox /\ UNCHANGED main
        /\ there' = [there EXCEPT ![d] = r]
    BY <1>8 DEF WroteThere
  <2>2. r.st = there[d].st /\ r.reported = there[d].reported
    BY <1>0, WritesThere DEF SameThere
  <2> HIDE DEF r
  <2>3. AllThere
    <3>1. "open" \in {"none", "posted", "accept", "open", "erased"}
      OBVIOUS
    <3> QED
      BY <1>f, <2>1, <2>2, <3>1, ThereBecomes
  <2> QED
    BY <1>a, <1>b, <1>d, <2>1, <2>3
<1>9. CASE \/ \E S \in SUBSET Conn : CloseSession(S)
           \/ \E d \in Conn : Condemn(d) \/ Leave(d)
  <2>1. /\ Same /\ UNCHANGED handlers /\ UNCHANGED here /\ UNCHANGED there /\ UNCHANGED inbox
        /\ UNCHANGED main
    BY <1>9 DEF Condemn, CloseSession, Leave
  <2> QED
    BY <1>a, <1>b, <1>c, <1>d, <2>1
<1>10. CASE Access
  <2>1. main.script # <<>>
    BY <1>10, Zenon DEF Access
  <2>2. PICK op \in {"push", "kick", "flag", "post"}, d \in Conn, f \in Int :
              /\ Head(main.script)[1] = op /\ Head(main.script)[2] = d /\ Head(main.script)[3] = f
    BY <2>1, ScriptAtHead
  <2>3. /\ \/ there' = [there EXCEPT ![d].box = Append(@, f)]
           \/ there' = [there EXCEPT ![d].kick = TRUE]
           \/ there' = [there EXCEPT ![d].close = TRUE]
           \/ there' = there
        /\ Same /\ UNCHANGED here /\ UNCHANGED inbox
    BY <1>10, <2>2, ZenonT(60) DEF Access
  <2>4. UNCHANGED handlers \/ \E o \in {"drain", "close"} : handlers' = Append(handlers, <<o, d>>)
    BY <1>10, <2>2, ZenonT(60) DEF Access
  <2>5. \E p : main' = [main EXCEPT !.script = p]
    BY <1>10, Zenon DEF Access
  <2>6. main'.events = main.events
    BY <1>0, <2>5
  <2>7. AllThere
    <3>1. PICK r : /\ there' = [there EXCEPT ![d] = r]
                   /\ r.st = there[d].st /\ r.reported = there[d].reported
      <4> DEFINE b == Append(there[d].box, f)
      <4>1. \/ there' = [there EXCEPT ![d] = [there[d] EXCEPT !.box = b]]
            \/ there' = [there EXCEPT ![d] = [there[d] EXCEPT !.kick = TRUE]]
            \/ there' = [there EXCEPT ![d] = [there[d] EXCEPT !.close = TRUE]]
            \/ there' = [there EXCEPT ![d] = there[d]]
        BY <1>0, <2>3
      <4> HIDE DEF b
      <4>2. /\ \A x : LET r == [there[d] EXCEPT !.box = x]
                      IN  r.st = there[d].st /\ r.reported = there[d].reported
            /\ LET r == [there[d] EXCEPT !.kick = TRUE]
               IN  r.st = there[d].st /\ r.reported = there[d].reported
            /\ LET r == [there[d] EXCEPT !.close = TRUE]
               IN  r.st = there[d].st /\ r.reported = there[d].reported
        BY <1>0 DEF ThereRecord
      <4>3. CASE there' = [there EXCEPT ![d] = [there[d] EXCEPT !.box = b]]
        BY <4>2, <4>3
      <4>4. CASE there' = [there EXCEPT ![d] = [there[d] EXCEPT !.kick = TRUE]]
        BY <4>2, <4>4
      <4>5. CASE there' = [there EXCEPT ![d] = [there[d] EXCEPT !.close = TRUE]]
        BY <4>2, <4>5
      <4>6. CASE there' = [there EXCEPT ![d] = there[d]]
        BY <4>6
      <4> QED
        BY <4>1, <4>3, <4>4, <4>5, <4>6
    <3>2. "open" \in {"none", "posted", "accept", "open", "erased"}
      OBVIOUS
    <3> QED
      BY <1>f, <3>1, <3>2, ThereBecomes
  <2> QED
    BY <1>b, <1>d, <2>3, <2>4, <2>6, <2>7, LifeStays
<1> QED
  BY <1>1, <1>2, <1>3, <1>4, <1>5, <1>6, <1>7, <1>8, <1>9, <1>10

LEMMA LifeStep ==
    ASSUME Shapes, Shapes', FrontIsWritten, LifeInv, LoopInv, [Next]_vars
    PROVE  LifeInv'
<1> USE DEF mains, shards
<1>0. here \in [Conn -> HereRecord] /\ locals \subseteq Conn
  BY DEF Shapes
<1>1. OneSide /\ Lives /\ LiveKnown
  BY DEF LifeInv, Carried
<1>2. ASSUME UNCHANGED main, UNCHANGED inbox PROVE Events' = Events
  BY <1>2 DEF Events
<1>3. ASSUME NEW d \in Conn, Accept(d) PROVE LifeInv'
  <2>1. /\ UNCHANGED sharded /\ UNCHANGED attached /\ UNCHANGED remotes /\ UNCHANGED there
        /\ UNCHANGED handlers /\ UNCHANGED main /\ UNCHANGED inbox
        /\ locals' = locals \cup {d} /\ here' = [here EXCEPT ![d].st = "request"]
    BY <1>3 DEF Accept
  <2>2. HereIs(d, "request", here[d].closed, here[d].transferred) /\ here[d].closed \in BOOLEAN
    <3>1. "request" \in {"none", "request", "accept", "open"} /\ here[d].closed \in BOOLEAN
      BY <1>0 DEF HereRecord
    <3> QED
      BY <2>1, <3>1, HereBecomes
  <2>3. locals \subseteq locals' /\ d \in locals'
    BY <2>1
  <2> QED
    BY <1>2, <2>1, <2>2, <2>3, HereLives
<1>4. ASSUME NEW d \in Conn, Refuse(d) \/ EndHere(d) PROVE LifeInv'
  <2>1. /\ UNCHANGED sharded /\ UNCHANGED attached /\ UNCHANGED remotes /\ UNCHANGED there
        /\ UNCHANGED handlers /\ UNCHANGED main /\ UNCHANGED inbox /\ UNCHANGED locals
        /\ here' = [here EXCEPT ![d].closed = TRUE]
    BY <1>4 DEF Refuse, EndHere
  <2>2. HereIs(d, here[d].st, TRUE, here[d].transferred)
    <3>1. "open" \in {"none", "request", "accept", "open"}
      OBVIOUS
    <3> QED
      BY <2>1, <3>1, HereBecomes
  <2>3. sharded => here[d].st \in {"none", "request"}
    BY <1>1 DEF OneSide
  <2> QED
    BY <1>2, <2>1, <2>2, <2>3, HereLives
<1>5. ASSUME NEW d \in Conn, AcceptedHere(d) PROVE LifeInv'
  <2> DEFINE s == [here[d] EXCEPT !.st = "open"]
             r == EnqueueHere(s, <<>>)
  <2>1. /\ UNCHANGED sharded /\ UNCHANGED attached /\ UNCHANGED remotes /\ UNCHANGED there
        /\ UNCHANGED handlers /\ UNCHANGED main /\ UNCHANGED inbox /\ UNCHANGED locals
        /\ here[d].st = "accept" /\ ~here[d].closed
        /\ here' = [here EXCEPT ![d] = r]
    BY <1>5 DEF AcceptedHere
  <2>2. /\ s \in HereRecord /\ s.st = "open" /\ s.closed = here[d].closed
        /\ s.transferred = here[d].transferred
    BY <1>0 DEF HereRecord
  <2> HIDE DEF s
  <2>3. SameHere(r, s)
    <3>1. <<>> \in Seq(Int)
      OBVIOUS
    <3> QED
      BY <2>2, <3>1, EnqueuesHere
  <2> HIDE DEF r
  <2>4. r.st = "open" /\ r.closed = FALSE /\ r.transferred = here[d].transferred
    <3>1. here[d].closed = FALSE
      BY <1>0, <2>1 DEF HereRecord
    <3> QED
      BY <2>2, <2>3, <3>1 DEF SameHere
  <2>5. HereIs(d, "open", FALSE, here[d].transferred)
    <3>1. "open" \in {"none", "request", "accept", "open"}
      OBVIOUS
    <3>2. HereIs(d, r.st, r.closed, r.transferred)
      BY <2>1, <3>1, HereBecomes
    <3> QED
      BY <2>4, <3>2
  <2>6. ~sharded /\ d \in locals /\ d \in attached
    BY <1>1, <2>1 DEF OneSide, Lives, LiveKnown
  <2> QED
    BY <1>2, <2>1, <2>5, <2>6, HereLives
<1>6. CASE HandleEvent
  BY <1>6, EventLives
<1>7. CASE Sweep
  BY <1>7, SweepLives
<1>8. CASE RunHandler
  BY <1>8, HandlerLives
<1>9. ASSUME NEW d \in Conn, AcceptedThere(d) \/ ReadThere(d) \/ EndThere(d) PROVE LifeInv'
  BY <1>9, ReportLives
<1>10. ASSUME NEW d \in Conn, Attach(d) PROVE LifeInv'
  BY <1>10, AttachLives
<1>11. CASE \/ UNCHANGED vars \/ TakeInbox \/ Access \/ FlushLocal \/ TakeOutbox
            \/ \E S \in SUBSET Conn : CloseSession(S)
            \/ \E c \in Conn : \/ FlushRemote(c) \/ ReadHere(c) \/ WroteOne(c) \/ Condemn(c)
                               \/ WroteThere(c) \/ Leave(c)
  BY <1>11, QuietLives
<1> QED
  BY <1>3, <1>4, <1>5, <1>6, <1>7, <1>8, <1>9, <1>10, <1>11 DEF Next, Main, Shard

-----------------------------------------------------------------------------
(* The theorems.                                                           *)

Empty   ==
    /\ sharded => \A c \in Conn : here[c].out = <<>> /\ here[c].cur = <<>>
    /\ ~sharded => \A c \in Conn :
          there[c].cur = <<>> /\ there[c].queue = <<>> /\ there[c].box = <<>>
InParts == Shapes /\ FrontIsWritten /\ FramesKeepOrder /\ LifeInv /\ LoopInv /\ Empty

LEMMA InvInParts == TransportInv <=> InParts
<1>1. EventsInOrder /\ HandlersInOrder <=>
          /\ main.at # "drain" => main.events = <<>>
          /\ EventOrder(Events, attached, Told, Started)
          /\ HandlerOrder(handlers, Posted, attached, Told)
  BY OrdersAreOrders
<1>2. Shapes => (EndsAreOwed <=> KnownEnd /\ LiveKnown)
  <2>1. Shapes => \A c \in attached : Reports(c) <=> c \in Closing
    BY OrdersAreOrders DEF Shapes, Closing
  <2> QED
    BY <2>1 DEF EndsAreOwed, CarriedHere, CarriedThere, LiveHere, LiveThere, KnownEnd, LiveKnown
<1>3. OneCarrier /\ (main.at # "drain" => main.events = <<>>) <=> OneSide /\ LoopInv /\ Empty
  <2>1. OneCarrier <=> OneSide /\ (~sharded => main.todo = {} /\ main.script = <<>>) /\ Empty
    BY DEF OneCarrier, OneSide, Empty
  <2> QED
    BY <2>1 DEF LoopInv
<1>4. TransportInv <=> /\ Shapes /\ FrontIsWritten /\ FramesKeepOrder /\ LifeInv /\ LoopInv /\ Empty
  <2>1. TransportInv <=> /\ Shapes /\ OneCarrier /\ FrontIsWritten /\ FramesKeepOrder
                         /\ Lives /\ HandlersInOrder /\ EventsInOrder /\ KnownEnd /\ LiveKnown
                         /\ RemotesAreOwed
    BY <1>2 DEF TransportInv
  <2>2. LifeInv <=> /\ OneSide /\ Lives /\ KnownEnd /\ LiveKnown /\ RemotesAreOwed
                    /\ EventOrder(Events, attached, Told, Started)
                    /\ HandlerOrder(handlers, Posted, attached, Told)
    BY DEF LifeInv, Carried
  <2>3. LoopInv => (main.at # "drain" => main.events = <<>>)
    BY DEF LoopInv
  <2> QED
    BY <1>1, <1>3, <2>1, <2>2, <2>3
<1> QED
  BY <1>4 DEF InParts

LEMMA TransportStarts == Init => TransportInv
<1> SUFFICES ASSUME Init PROVE TransportInv
  OBVIOUS
<1>1. <<>> \in Seq(Int) /\ <<>> \in Seq(Event) /\ <<>> \in Seq(Handler) /\ <<>> \in Seq(Script)
  OBVIOUS
<1>2. NewHere \in HereRecord /\ NewThere \in ThereRecord
  BY <1>1 DEF NewHere, NewThere, HereRecord, ThereRecord
<1>3. Shapes
  <2>1. sharded \in BOOLEAN
    BY TransportConstants DEF Init
  <2>2. given \in [Conn -> [frames : Seq(Int), why : {None, "bad", "must"}]]
    BY <1>1 DEF Init
  <2>3. /\ main \in [at : {"io", "drain", "flush"}, events : Seq(Event), todo : SUBSET Conn,
                     script : Seq(Script)]
    BY <1>1 DEF Init
  <2>4. here \in [Conn -> HereRecord] /\ there \in [Conn -> ThereRecord]
    BY <1>2 DEF Init
  <2>5. /\ wire \in [Conn -> Seq(Int)] /\ taken \in [Conn -> Int]
    BY <1>1 DEF Init
  <2>6. /\ busy \in Conn \cup {None} /\ handlers \in Seq(Handler) /\ inbox \in Seq(Event)
        /\ locals \subseteq Conn /\ remotes \subseteq Conn /\ attached \subseteq Conn
        /\ must \subseteq attached
    BY <1>1 DEF Init
  <2> QED
    BY <2>1, <2>2, <2>3, <2>4, <2>5, <2>6 DEF Shapes
<1>4. \A c \in Conn : /\ here[c].st = "none" /\ here[c].out = <<>> /\ here[c].cur = <<>>
                      /\ ~here[c].closed /\ ~here[c].transferred
                      /\ there[c].st = "none" /\ there[c].cur = <<>> /\ there[c].queue = <<>>
                      /\ there[c].box = <<>> /\ ~there[c].reported
                      /\ wire[c] = <<>> /\ given[c].frames = <<>>
  BY DEF Init, NewHere, NewThere
<1>5. /\ attached = {} /\ locals = {} /\ remotes = {} /\ handlers = <<>> /\ inbox = <<>>
      /\ main.at = "io" /\ main.events = <<>> /\ main.todo = {} /\ main.script = <<>>
  BY DEF Init
<1>6. Events = <<>>
  BY <1>5 DEF Events
<1>7. OneCarrier
  BY <1>4, <1>5, <1>6 DEF OneCarrier
<1>8. FrontIsWritten
  BY <1>4 DEF FrontIsWritten
<1>9. FramesKeepOrder
  <2>1. <<>> \o <<>> = <<>>
    OBVIOUS
  <2>2. \A c \in Conn : Waiting(c) = <<>>
    BY <1>4, <2>1 DEF Waiting
  <2> QED
    BY <1>4, <2>1, <2>2 DEF FramesKeepOrder
<1>10. Lives
  BY <1>4, <1>5 DEF Lives
<1>11. HandlersInOrder
  BY <1>5 DEF HandlersInOrder
<1>12. EventsInOrder
  BY <1>5, <1>6 DEF EventsInOrder
<1>13. EndsAreOwed
  BY <1>4, <1>5 DEF EndsAreOwed, LiveHere, LiveThere
<1>14. RemotesAreOwed
  BY <1>5 DEF RemotesAreOwed
<1> QED
  BY <1>3, <1>7, <1>8, <1>9, <1>10, <1>11, <1>12, <1>13, <1>14 DEF TransportInv

LEMMA TransportStep == TransportInv /\ [Next]_vars => TransportInv'
<1> SUFFICES ASSUME TransportInv, [Next]_vars PROVE TransportInv'
  OBVIOUS
<1>1. Shapes /\ OneCarrier /\ FrontIsWritten /\ FramesKeepOrder /\ LifeInv /\ LoopInv
  BY InvInParts DEF TransportInv, InParts
<1>2. Shapes' /\ sharded' = sharded
  BY <1>1, ShapesStep, SetsStep
<1>3. LifeInv'
  BY <1>1, <1>2, LifeStep
<1>4. LoopInv'
  BY <1>1, LoopStep DEF LifeInv, Carried
<1>5. ASSUME NEW c \in Conn
      PROVE  /\ sharded => here'[c].out = <<>> /\ here'[c].cur = <<>>
             /\ ~sharded => there'[c].cur = <<>> /\ there'[c].queue = <<>> /\ there'[c].box = <<>>
             /\ here'[c].cur # <<>> =>
                   here'[c].out # <<>> /\ (~Refused(c)' => here'[c].cur = <<Head(here'[c].out)>>)
             /\ sharded \/ ~Refused(c)' =>
                   given'[c].frames = wire'[c] \o
                       (IF sharded THEN (there'[c].cur \o there'[c].queue) \o there'[c].box
                                   ELSE here'[c].out)
  BY <1>1, <1>2, OrderStep
<1>6. FrontIsWritten'
  BY <1>5 DEF FrontIsWritten
<1>7. FramesKeepOrder'
  BY <1>2, <1>5 DEF FramesKeepOrder, Waiting
<1>8. Empty'
  BY <1>2, <1>5 DEF Empty
<1>9. (TransportInv <=> InParts)'
  BY InvInParts, PTL
<1>10. InParts'
  BY <1>2, <1>3, <1>4, <1>6, <1>7, <1>8 DEF InParts
<1> QED
  BY <1>9, <1>10

(* The inductive invariant: a connection is carried by one of its two       *)
(* sessions, what is registered, posted and reported agrees with its state, *)
(* and what the core gave it is on the wire or in its queues, in order.     *)
THEOREM TransportInvariant == Spec => []TransportInv
<1> QED
  BY TransportStarts, TransportStep, PTL DEF Spec

(* No frame is lost, repeated or overtaken between next_outbound() and the  *)
(* socket: through ws_session's queue, or through the outbox, the posted    *)
(* drain_outbox() handlers and the write queue of shard_session.            *)
THEOREM FramesStayInOrder == Spec => []FramesKeepOrder
<1>1. TransportInv => FramesKeepOrder
  BY DEF TransportInv
<1> QED
  BY <1>1, TransportInvariant, PTL

(* A connection in the core's table is carried by a live session or its     *)
(* closed event is on its way to drain_inbox(), so a hand-over leaks none;  *)
(* and a live session is missing from the table only after close_session(). *)
THEOREM CoreKnowsLiveSessions == Spec => []CoreMatchesSessions
<1>1. TransportInv => CoreMatchesSessions
  BY DEF TransportInv, EndsAreOwed, CoreMatchesSessions, Known
<1> QED
  BY <1>1, TransportInvariant, PTL

(* flush_remote() meets no shard session that has ended unless its closed   *)
(* event is on its way, and asks next_outbound() for a connection the core  *)
(* has forgotten only when close_session() took it.                         *)
THEOREM RemotesAreAttached == Spec => []NoStaleRemote
<1>1. TransportInv => NoStaleRemote
  <2> SUFFICES ASSUME TransportInv, NEW c \in remotes
               PROVE  c \in Known \cup ended /\ (there[c].reported => Reports(c))
    BY DEF NoStaleRemote
  <2>1. c \in attached /\ c \in Conn
    BY DEF TransportInv, RemotesAreOwed, Shapes
  <2>2. here[c].transferred
    BY <2>1 DEF TransportInv, Lives
  <2>3. CarriedThere(c)
    BY <2>1, <2>2 DEF TransportInv, EndsAreOwed, CarriedHere
  <2> QED
    BY <2>1, <2>3 DEF Known, CarriedThere
<1> QED
  BY <1>1, TransportInvariant, PTL
=============================================================================
