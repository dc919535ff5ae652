------------------------ MODULE ClientStream_proofs ------------------------
(***************************************************************************)
(* The two encoders of a state frame are one function, and whatever an     *)
(* encoder lets through is decoded at the other end unless the message as  *)
(* a whole is larger, or has more or deeper tables, than that end reads:   *)
(* for every limit, every world and every number of messages.  The         *)
(* thin client has one read and one write at a time, the exit code of      *)
(* the reference client tells what became of its command, and the buffer a *)
(* viewer renders from follows its replica.                                *)
(***************************************************************************)
EXTENDS ClientStream, SequenceTheorems, WellFoundedInduction, TLAPS

StateKinds == {"keyframe", "delta"}

-----------------------------------------------------------------------------
(* The codec.                                                              *)

(* The table the direct encoder writes is one the protocol's encoder lets   *)
(* through, and of an entity with its fields it is the wire structure.      *)
LEMMA DirectTableIsEncoded ==
    ASSUME NEW e
    PROVE  DirectEntity(e) <=> EncodeEntity(DirectTable(e))
BY DEF DirectEntity, EncodeEntity, DirectTable, DirectBag, EncodeBag, DirectStrings, EncodeStrings

LEMMA DirectTableIsWire ==
    ASSUME NEW e, DOMAIN e = Fields \cup {"attrs"}
    PROVE  DirectTable(e) = ToWireEntity(e)
<1>1. DOMAIN e \ {"attrs"} = Fields
  BY DEF Fields
<1>2. DOMAIN ToWireEntity(e) = Fields /\ \A k \in Fields : ToWireEntity(e)[k] = e[k]
  BY <1>1 DEF ToWireEntity
<1>3. DOMAIN DirectTable(e) = Fields /\ \A k \in Fields : DirectTable(e)[k] = e[k]
  BY DEF DirectTable, Fields
<1>4. ToWireEntity(e) = [k \in Fields |-> ToWireEntity(e)[k]]
  BY <1>2 DEF ToWireEntity
<1>5. DirectTable(e) = [k \in Fields |-> DirectTable(e)[k]]
  BY <1>3 DEF DirectTable
<1> HIDE DEF Fields
<1> QED
  BY <1>2, <1>3, <1>4, <1>5

(* What is encoded of an entity is decoded.                                *)
LEMMA EntityDecoded ==
    ASSUME NEW e, EncodeEntity(e)
    PROVE  DecodeEntity(e) = ""
<1>1. Text(e.type) /\ Text(e.text) /\ e.rels <= MaxRelations
  BY DEF EncodeEntity, EncodeStrings
<1>2. DecodeBag(e.props, e.text) = "" /\ DecodeBag(e.state, e.text) = ""
  BY DEF EncodeEntity, EncodeBag, DecodeBag
<1> QED
  BY <1>1, <1>2 DEF DecodeEntity

(* The tables of a frame.                                                  *)
LEMMA DirectParts ==
    ASSUME NEW f
    PROVE  /\ DirectFrame(f).kind = f.kind /\ DirectFrame(f).leaves = f.leaves
           /\ DOMAIN DirectFrame(f).enters = DOMAIN f.enters
           /\ DOMAIN DirectFrame(f).updates = DOMAIN f.updates
           /\ \A w \in DOMAIN f.enters : DirectFrame(f).enters[w] = DirectTable(f.enters[w])
           /\ \A w \in DOMAIN f.updates : DirectFrame(f).updates[w] = DirectTable(f.updates[w])
BY DEF DirectFrame, DirectTables

(* The wire structures of a frame.                                         *)
LEMMA WireParts ==
    ASSUME NEW f
    PROVE  /\ ToWireFrame(f).kind = f.kind /\ ToWireFrame(f).leaves = f.leaves
           /\ DOMAIN ToWireFrame(f).enters = DOMAIN f.enters
           /\ DOMAIN ToWireFrame(f).updates = DOMAIN f.updates
           /\ \A w \in DOMAIN f.enters : ToWireFrame(f).enters[w] = ToWireEntity(f.enters[w])
           /\ \A w \in DOMAIN f.updates : ToWireFrame(f).updates[w] = ToWireEntity(f.updates[w])
BY DEF ToWireFrame

(* encode_state_frame_into() refuses a frame when, and only when, the      *)
(* protocol's encoder would refuse the tables it writes.                   *)
LEMMA DirectIsEncoded ==
    ASSUME NEW f, f.kind \in StateKinds
    PROVE  EncodeStateFrame(f) = EncodeServerFrame(DirectFrame(f))
<1> DEFINE g == DirectFrame(f)
<1>1. /\ g.kind = f.kind /\ g.leaves = f.leaves
      /\ DOMAIN g.enters = DOMAIN f.enters /\ DOMAIN g.updates = DOMAIN f.updates
      /\ \A w \in DOMAIN f.enters : g.enters[w] = DirectTable(f.enters[w])
      /\ \A w \in DOMAIN f.updates : g.updates[w] = DirectTable(f.updates[w])
  BY DirectParts
<1> HIDE DEF g
<1>2. DirectEnters(f.enters) <=> EncodeEnters(g.enters)
  BY <1>1, DirectTableIsEncoded DEF DirectEnters, EncodeEnters
<1>3. (\A w \in DOMAIN f.updates : DirectEntity(f.updates[w])) <=> EncodeUpdates(g.updates)
  BY <1>1, DirectTableIsEncoded DEF EncodeUpdates
<1>4. Changes(f) = Changes(g)
  BY <1>1 DEF Changes
<1>5. CASE f.kind = "keyframe"
  <2>1. DirectKeyframe(f) <=> EncodeKeyframe(g)
    BY <1>1, <1>2 DEF DirectKeyframe, EncodeKeyframe
  <2> QED
    BY <1>1, <1>5, <2>1 DEF EncodeStateFrame, EncodeServerFrame, g
<1>6. CASE f.kind = "delta"
  <2>1. DirectDelta(f) <=> EncodeDelta(g)
    BY <1>1, <1>2, <1>3, <1>4 DEF DirectDelta, EncodeDelta
  <2> QED
    BY <1>1, <1>6, <2>1 DEF EncodeStateFrame, EncodeServerFrame, g
<1> QED
  BY <1>5, <1>6 DEF StateKinds

(* encode_state_frame_into() is encode_server_frame_into(to_wire_frame()), *)
(* refusals and sizes included (frame_codec.cpp:129, 203-355), for frames  *)
(* of entities that have every field of a projection.                      *)
LEMMA DirectEncoderIsTheOther ==
    ASSUME NEW f, f.kind \in StateKinds, HasValues(f.enters), HasValues(f.updates)
    PROVE  EncodeStateFrame(f) = EncodeServerFrame(ToWireFrame(f))
<1>1. \A w \in DOMAIN f.enters : DirectTable(f.enters[w]) = ToWireEntity(f.enters[w])
  BY DirectTableIsWire DEF HasValues
<1>2. \A w \in DOMAIN f.updates : DirectTable(f.updates[w]) = ToWireEntity(f.updates[w])
  BY DirectTableIsWire DEF HasValues
<1>3. DirectFrame(f) = ToWireFrame(f)
  BY <1>1, <1>2 DEF DirectFrame, ToWireFrame, DirectTables
<1> QED
  BY <1>3, DirectIsEncoded

(* What encode_server_frame() lets through, decode_server_frame() accepts  *)
(* unless the frame as a whole is too large or has more or deeper tables   *)
(* than the verifier reads (codec.cpp:612).                                *)
THEOREM EncodedIsDecoded ==
    ASSUME NEW f, f.kind \in StateKinds, Verified(f),
           EncodeServerFrame(f).size \in 1 .. MaxFrame
    PROVE  DecodeServerFrame(EncodeServerFrame(f)) = ""
<1> DEFINE b == EncodeServerFrame(f)
<1>0. MaxFrame \in Nat
  BY WireLimits DEF ValidLimits
<1>1. NoBytes.size = 0
  BY DEF NoBytes
<1>2. \A es : EncodeEnters(es) => DecodeEnters(es) = ""
  BY EntityDecoded DEF EncodeEnters, DecodeEnters
<1>3. \A es : EncodeUpdates(es) => DecodeEnters(es) = ""
  BY EntityDecoded DEF EncodeUpdates, DecodeEnters
<1>4. CASE f.kind = "keyframe"
  <2>1. EncodeKeyframe(f)
    BY <1>0, <1>1, <1>4 DEF EncodeServerFrame
  <2>2. b = Finished("GWSF", FrameSize(f), f)
    BY <1>4, <2>1 DEF EncodeServerFrame
  <2>3. b.id = "GWSF" /\ b.body = f
    BY <2>2 DEF Finished
  <2>6. b.size \in 1 .. MaxFrame
    OBVIOUS
  <2> HIDE DEF b
  <2>4. DecodeHeader(b, "GWSF") = ""
    <3>1. b.size # 0 /\ ~(b.size > MaxFrame) /\ b.id = "GWSF" /\ Verified(b.body)
      BY <1>0, <2>3, <2>6
    <3> QED
      BY <2>6, <3>1, Zenon DEF DecodeHeader
  <2>5. DecodeKeyframe(f) = ""
    BY <1>2, <2>1 DEF EncodeKeyframe, DecodeKeyframe
  <2> QED
    BY <1>4, <2>3, <2>4, <2>5 DEF DecodeServerFrame, b
<1>5. CASE f.kind = "delta"
  <2>1. EncodeDelta(f)
    BY <1>0, <1>1, <1>5 DEF EncodeServerFrame
  <2>2. b = Finished("GWSF", FrameSize(f), f)
    BY <1>5, <2>1 DEF EncodeServerFrame
  <2>3. b.id = "GWSF" /\ b.body = f
    BY <2>2 DEF Finished
  <2>6. b.size \in 1 .. MaxFrame
    OBVIOUS
  <2> HIDE DEF b
  <2>4. DecodeHeader(b, "GWSF") = ""
    <3>1. b.size # 0 /\ ~(b.size > MaxFrame) /\ b.id = "GWSF" /\ Verified(b.body)
      BY <1>0, <2>3, <2>6
    <3> QED
      BY <2>6, <3>1, Zenon DEF DecodeHeader
  <2>5. DecodeDelta(f) = ""
    BY <1>2, <1>3, <2>1 DEF EncodeDelta, DecodeDelta
  <2> QED
    BY <1>5, <2>3, <2>4, <2>5 DEF DecodeServerFrame, b
<1> QED
  BY <1>4, <1>5 DEF StateKinds

-----------------------------------------------------------------------------
(* What is under way.                                                      *)

Deliverable(m) ==
    Sized(m.bytes) /\ Verified(m.bytes.body) => DecodeServerFrame(m.bytes) = ""
Control(b) ==
    Sized(b) /\ Verified(b.body) => DecodeClientControl(b) = ""

Thins(S) ==
    [phase : {"connecting", "up", "failed"}, reading : BOOLEAN, reads : Int, paused : BOOLEAN,
     kicks : Int, pauses : Int, out : Seq(S), writing : BOOLEAN, writes : Int,
     closed : BOOLEAN, stopping : BOOLEAN]

(* All that is sent is what the other end accepts; the flags of the thin   *)
(* client say which of its operations are under way.                       *)
DownInv == \E S : down \in Seq(S) /\ \A m \in S : Deliverable(m)
UpInv   == \E S : up \in Seq(S) /\ \A b \in S : Control(b)
OutInv  == \E S : thin \in Thins(S) /\ \A b \in S : Control(b)
OperationInv ==
    /\ thin.reads = IF thin.reading THEN 1 ELSE 0
    /\ thin.writes \in {0, 1}
    /\ thin.writes = 1 => thin.writing
    /\ thin.writing <=> thin.out # <<>>

StreamInv == DownInv /\ UpInv /\ OutInv /\ OperationInv

(* Limits are positive numbers.                                            *)
LEMMA LimitsArePositive ==
    /\ MaxFrame \in Nat /\ MaxFrame >= 1
    /\ MaxString \in Nat /\ MaxString >= 1
BY WireLimits DEF ValidLimits

(* State frames.                                                           *)
LEMMA StateIsDeliverable ==
    ASSUME NEW f, f.kind \in StateKinds
    PROVE  Deliverable(Message(f))
<1> DEFINE b == EncodeServerFrame(DirectFrame(f))
<1>1. Message(f).bytes = b
  BY DirectIsEncoded DEF Message
<1>2. DirectFrame(f).kind \in StateKinds
  BY DirectParts
<1>3. b = NoBytes \/ b.body = DirectFrame(f)
  BY <1>2 DEF EncodeServerFrame, Finished, StateKinds
<1>4. NoBytes.size = 0
  BY DEF NoBytes
<1>5. Sized(b) /\ Verified(b.body) => DecodeServerFrame(b) = ""
  <2> SUFFICES ASSUME Sized(b), Verified(b.body)
               PROVE  DecodeServerFrame(b) = ""
    OBVIOUS
  <2>1. b.size \in 1 .. MaxFrame
    BY DEF Sized
  <2>2. Verified(DirectFrame(f))
    BY <1>3, <1>4, <2>1
  <2> QED
    BY <1>2, <2>1, <2>2, EncodedIsDecoded
<1> HIDE DEF b
<1> QED
  BY <1>1, <1>5 DEF Deliverable

(* The checks before the tables.                                           *)
LEMMA HeaderPasses ==
    ASSUME NEW b, NEW id, Sized(b), b.id = id, Verified(b.body)
    PROVE  DecodeHeader(b, id) = ""
<1>1. b.size # 0 /\ ~(b.size > MaxFrame) /\ b.size \in 1 .. MaxFrame
  BY LimitsArePositive DEF Sized
<1> QED
  BY <1>1, Zenon DEF DecodeHeader

(* A message of one table that is let through.                             *)
LEMMA SmallIsDecoded ==
    ASSUME NEW f, f.kind \in {"receipt", "error", "heartbeat"},
           f.kind = "receipt" => f.status \in Statuses, NEW size
    PROVE  Deliverable(Reliable(Finished("GWSF", size, f)))
<1> DEFINE b == Finished("GWSF", size, f)
<1>1. b.id = "GWSF" /\ b.body = f
  BY DEF Finished
<1>2. Reliable(b).bytes = b
  BY DEF Reliable
<1> HIDE DEF b
<1>3. DecodeReliable(f) = ""
  BY DEF DecodeReliable
<1>4. Sized(b) /\ Verified(b.body) => DecodeServerFrame(b) = ""
  BY <1>1, <1>3, HeaderPasses DEF DecodeServerFrame
<1> QED
  BY <1>2, <1>4 DEF Deliverable, b

(* Receipts, heartbeats and errors.                                        *)
LEMMA ReliableIsDeliverable ==
    /\ Deliverable(Reliable(Receipt))
    /\ Deliverable(Reliable(EncodeHeartbeat))
    /\ \A code : Deliverable(Reliable(EncodeProtocolError(code)))
<1>1. \A n : n = 1 => Text(n)
  BY LimitsArePositive DEF Text
<1>2. ASSUME NEW status \in Statuses
      PROVE  Deliverable(Reliable(EncodeReceipt(status)))
  <2> DEFINE f == [kind |-> "receipt", status |-> status, text |-> 1]
  <2>1. EncodeServerFrame(f) = Finished("GWSF", FrameSize(f), f)
    BY <1>1 DEF EncodeServerFrame, EncodeReliable
  <2> QED
    BY <2>1, SmallIsDecoded DEF EncodeReceipt
<1>3. Deliverable(Reliable(Receipt))
  BY <1>2 DEF Receipt, Statuses
<1>4. Deliverable(Reliable(EncodeHeartbeat))
  <2> DEFINE f == [kind |-> "heartbeat"]
  <2>1. EncodeServerFrame(f) = Finished("GWSF", FrameSize(f), f)
    BY DEF EncodeServerFrame
  <2> QED
    BY <2>1, SmallIsDecoded DEF EncodeHeartbeat
<1>5. ASSUME NEW code
      PROVE  Deliverable(Reliable(EncodeProtocolError(code)))
  <2> DEFINE f == [kind |-> "error", code |-> code, text |-> 1]
  <2>1. EncodeServerFrame(f) = Finished("GWSF", FrameSize(f), f)
    BY <1>1 DEF EncodeServerFrame, EncodeReliable
  <2> QED
    BY <2>1, SmallIsDecoded DEF EncodeProtocolError
<1> QED
  BY <1>3, <1>4, <1>5

(* Acknowledgements and requests.                                          *)
LEMMA ControlIsDecoded ==
    ASSUME NEW c, c.kind \in {"ack", "request"}
    PROVE  Control(EncodeClientControl(c))
<1> DEFINE b == EncodeClientControl(c)
<1>1. CASE c.kind = "request" /\ ~Text(c.text)
  <2>1. b = NoBytes
    BY <1>1 DEF EncodeClientControl
  <2>2. NoBytes.size = 0
    BY DEF NoBytes
  <2>3. ~Sized(NoBytes)
    BY <2>2, LimitsArePositive DEF Sized
  <2> QED
    BY <2>1, <2>3 DEF Control
<1>2. CASE ~(c.kind = "request" /\ ~Text(c.text))
  <2>1. b = Finished("GWCF", FrameSize(c), c)
    BY <1>2 DEF EncodeClientControl
  <2>2. b.id = "GWCF" /\ b.body = c
    BY <2>1 DEF Finished
  <2> HIDE DEF b
  <2>3. Sized(b) /\ Verified(b.body) => DecodeClientControl(b) = ""
    BY <1>2, <2>2, HeaderPasses DEF DecodeClientControl
  <2> QED
    BY <2>3 DEF Control, b
<1> QED
  BY <1>1, <1>2

(* One message more.                                                       *)
LEMMA LongerDown ==
    ASSUME DownInv, NEW m, Deliverable(m), down' = Append(down, m)
    PROVE  DownInv'
<1>1. PICK S : down \in Seq(S) /\ \A x \in S : Deliverable(x)
  BY DEF DownInv
<1>2. down' \in Seq(S \cup {m}) /\ \A x \in S \cup {m} : Deliverable(x)
  BY <1>1
<1> QED
  BY <1>2, Zenon DEF DownInv

LEMMA LongerUp ==
    ASSUME UpInv, NEW b, Control(b), up' = Append(up, b)
    PROVE  UpInv'
<1>1. PICK S : up \in Seq(S) /\ \A x \in S : Control(x)
  BY DEF UpInv
<1>2. up' \in Seq(S \cup {b}) /\ \A x \in S \cup {b} : Control(x)
  BY <1>1
<1> QED
  BY <1>2, Zenon DEF UpInv

LEMMA ShorterDown ==
    ASSUME DownInv, down # <<>>, down' = Tail(down)
    PROVE  DownInv'
BY DEF DownInv

LEMMA ShorterUp ==
    ASSUME UpInv, up # <<>>, up' = Tail(up)
    PROVE  UpInv'
BY DEF UpInv

LEMMA SameDown == ASSUME DownInv, down' = down PROVE DownInv'
BY DEF DownInv

LEMMA SameUp == ASSUME UpInv, up' = up PROVE UpInv'
BY DEF UpInv

LEMMA SameThin ==
    ASSUME OutInv, OperationInv, thin' = thin
    PROVE  OutInv' /\ OperationInv'
BY DEF OutInv, OperationInv

(* What one round of the daemon sends.                                     *)
LEMMA TickDown ==
    ASSUME DownInv, NEW edit, NEW w, NEW key, Tick(edit, w, key)
    PROVE  DownInv'
<1> DEFINE now   == Edited(Executed, edit, w)
           frame == StateFrame(now, key \/ srv.key)
           state == srv.attached /\ (key \/ srv.key \/ Changes(frame) > 0)
           first == IF Verdict # cmd THEN <<Reliable(Receipt)>> ELSE <<>>
           beat  == ~state /\ srv.attached /\ srv.tick + 1 - srv.beat >= HeartbeatTicks
           alive == IF beat THEN <<Reliable(EncodeHeartbeat)>> ELSE <<>>
           last  == IF state THEN <<Message(frame)>> ELSE <<>>
<1>1. PICK S : down \in Seq(S) /\ \A x \in S : Deliverable(x)
  BY DEF DownInv
<1>2. down' = IF ~srv.attached THEN down ELSE down \o first \o alive \o last
  BY Zenon DEF Tick
<1>3. frame.kind \in StateKinds
  BY DEF StateFrame, StateKinds
<1>4. Deliverable(Message(frame))
  BY <1>3, StateIsDeliverable
<1> DEFINE T == S \cup {Reliable(Receipt), Reliable(EncodeHeartbeat), Message(frame)}
<1>5. \A x \in T : Deliverable(x)
  BY <1>1, <1>4, ReliableIsDeliverable
<1>6. first \in Seq(T) /\ alive \in Seq(T) /\ last \in Seq(T) /\ down \in Seq(T)
  <2>1. \A x \in T : <<x>> \in Seq(T) /\ <<>> \in Seq(T)
    OBVIOUS
  <2>2. Reliable(Receipt) \in T /\ Reliable(EncodeHeartbeat) \in T /\ Message(frame) \in T
    OBVIOUS
  <2>3. down \in Seq(T)
    BY <1>1
  <2> HIDE DEF T, state, beat
  <2> QED
    BY <2>1, <2>2, <2>3
<1>7. down' \in Seq(T)
  <2> HIDE DEF T, first, alive, last
  <2> QED
    BY <1>2, <1>6
<1> HIDE DEF T
<1> QED
  BY <1>5, <1>7, Zenon DEF DownInv

(* What the transport reads, and what it answers.                          *)
LEMMA ServerReadsKeeps ==
    ASSUME DownInv, UpInv, ServerReads
    PROVE  DownInv' /\ UpInv'
<1>1. UpInv'
  BY ShorterUp DEF ServerReads
<1>2. DownInv'
  <2>1. CASE DecodeClientControl(Head(up)) # ""
    BY <2>1, LongerDown, ReliableIsDeliverable DEF ServerReads
  <2>2. CASE DecodeClientControl(Head(up)) = ""
    <3>1. down' = down
      BY <2>2 DEF ServerReads
    <3> QED
      BY <3>1, SameDown
  <2> QED
    BY <2>1, <2>2
<1> QED
  BY <1>1, <1>2

LEMMA AckIsDecoded == ASSUME NEW f PROVE Control(Ack(f))
<1>1. [kind |-> "ack", snap |-> f.snap, text |-> 0].kind = "ack"
  OBVIOUS
<1> QED
  BY <1>1, ControlIsDecoded DEF Ack

(* What the clients that block send.                                       *)
LEMMA BlockingUp ==
    ASSUME UpInv, Read \/ View \/ \E n \in 1 .. 2 : RequestKeyframe(n)
    PROVE  UpInv'
<1>1. CASE Read
  <2>1. up' = up \/ up' = Append(up, Ack(Head(down).bytes.body))
    <3>1. CASE DecodeServerFrame(Head(down).bytes) # ""
      BY <1>1, <3>1 DEF Read
    <3>2. CASE DecodeServerFrame(Head(down).bytes) = ""
      BY <1>1, <3>2 DEF Read
    <3> QED
      BY <3>1, <3>2
  <2> QED
    BY <2>1, SameUp, LongerUp, AckIsDecoded
<1>2. CASE View
  <2>1. up' = up \/ up' = Append(up, Ack(Head(down).bytes.body))
    BY <1>2 DEF View
  <2> QED
    BY <2>1, SameUp, LongerUp, AckIsDecoded
<1>3. ASSUME NEW n \in 1 .. 2, RequestKeyframe(n)
      PROVE  UpInv'
  <2> DEFINE c == [kind |-> "request", text |-> n]
  <2>1. up' = Append(up, EncodeClientControl(c))
    BY <1>3 DEF RequestKeyframe
  <2>2. Control(EncodeClientControl(c))
    BY ControlIsDecoded
  <2> QED
    BY <2>1, <2>2, LongerUp
<1> QED
  BY <1>1, <1>2, <1>3

-----------------------------------------------------------------------------
(* The thin client.                                                        *)

Operations(t) ==
    /\ t.reads = IF t.reading THEN 1 ELSE 0
    /\ t.writes \in {0, 1}
    /\ t.writes = 1 => t.writing
    /\ t.writing <=> t.out # <<>>

(* One field changed.                                                      *)
LEMMA Set ==
    ASSUME NEW S, NEW t \in Thins(S)
    PROVE  /\ \A x \in BOOLEAN : [t EXCEPT !.reading = x] \in Thins(S)
           /\ \A x \in BOOLEAN : [t EXCEPT !.writing = x] \in Thins(S)
           /\ \A x \in BOOLEAN : [t EXCEPT !.paused = x] \in Thins(S)
           /\ \A x \in Int : [t EXCEPT !.reads = x] \in Thins(S)
           /\ \A x \in Int : [t EXCEPT !.writes = x] \in Thins(S)
           /\ \A x \in Seq(S) : [t EXCEPT !.out = x] \in Thins(S)
<1>1. \A x \in BOOLEAN : [t EXCEPT !.reading = x] \in Thins(S)
  BY DEF Thins
<1>2. \A x \in BOOLEAN : [t EXCEPT !.writing = x] \in Thins(S)
  BY DEF Thins
<1>3. \A x \in BOOLEAN : [t EXCEPT !.paused = x] \in Thins(S)
  BY DEF Thins
<1>4. \A x \in Int : [t EXCEPT !.reads = x] \in Thins(S)
  BY DEF Thins
<1>5. \A x \in Int : [t EXCEPT !.writes = x] \in Thins(S)
  BY DEF Thins
<1>6. \A x \in Seq(S) : [t EXCEPT !.out = x] \in Thins(S)
  BY DEF Thins
<1> QED
  BY <1>1, <1>2, <1>3, <1>4, <1>5, <1>6

(* maybe_read() begins a read only when none is under way.                 *)
LEMMA MaybeReadKeeps ==
    ASSUME NEW S, NEW t \in Thins(S), Operations(t)
    PROVE  MaybeRead(t) \in Thins(S) /\ Operations(MaybeRead(t))
<1> DEFINE u == [t EXCEPT !.reading = TRUE, !.reads = @ + 1]
<1>1. CASE t.paused \/ t.reading \/ t.closed
  BY <1>1 DEF MaybeRead
<1>2. CASE ~(t.paused \/ t.reading \/ t.closed)
  <2>1. MaybeRead(t) = u
    BY <1>2 DEF MaybeRead
  <2>2. u \in Thins(S)
    <3> DEFINE v == [t EXCEPT !.reading = TRUE]
    <3>1. v \in Thins(S)
      BY Set
    <3>2. u = [v EXCEPT !.reads = v.reads + 1]
      BY DEF Thins
    <3> HIDE DEF u, v
    <3>3. v.reads + 1 \in Int
      BY <3>1 DEF Thins
    <3> QED
      BY <3>1, <3>2, <3>3, Set
  <2>3. u.reading = TRUE /\ u.reads = t.reads + 1 /\ u.writes = t.writes
        /\ u.writing = t.writing /\ u.out = t.out
    BY DEF Thins
  <2>4. t.reads = 0
    BY <1>2 DEF Operations
  <2> HIDE DEF u
  <2>5. Operations(u)
    BY <2>3, <2>4 DEF Operations
  <2> QED
    BY <2>1, <2>2, <2>5
<1> QED
  BY <1>1, <1>2

(* enqueue_ack() begins a write only when none is under way.               *)
LEMMA EnqueueAckKeeps ==
    ASSUME NEW S, NEW t \in Thins(S), Operations(t), NEW ack \in S
    PROVE  EnqueueAck(t, ack) \in Thins(S) /\ Operations(EnqueueAck(t, ack))
<1>1. Append(t.out, ack) \in Seq(S) /\ Append(t.out, ack) # <<>>
  BY DEF Thins
<1> DEFINE q == [t EXCEPT !.out = Append(@, ack)]
<1>2. q \in Thins(S) /\ q.out # <<>> /\ q.reads = t.reads /\ q.reading = t.reading
      /\ q.writes = t.writes /\ q.writing = t.writing
  BY <1>1 DEF Thins
<1>3. EnqueueAck(t, ack) = IF t.writing THEN q ELSE [q EXCEPT !.writing = TRUE, !.writes = @ + 1]
  BY DEF EnqueueAck
<1>4. CASE t.writing
  BY <1>2, <1>3, <1>4 DEF Operations, Thins
<1>5. CASE ~t.writing
  <2>1. t.writes = 0
    BY <1>5 DEF Operations
  <2> DEFINE u == [q EXCEPT !.writing = TRUE, !.writes = @ + 1]
  <2> HIDE DEF q
  <2>2. EnqueueAck(t, ack) = u
    BY <1>3, <1>5
  <2>3. u \in Thins(S)
    <3> DEFINE v == [q EXCEPT !.writing = TRUE]
    <3>1. v \in Thins(S)
      BY <1>2, Set
    <3>2. u = [v EXCEPT !.writes = v.writes + 1]
      BY <1>2 DEF Thins
    <3> HIDE DEF u, v
    <3>3. v.writes + 1 \in Int
      BY <3>1 DEF Thins
    <3> QED
      BY <3>1, <3>2, <3>3, Set
  <2>4. u.writing = TRUE /\ u.writes = 1 /\ u.out # <<>> /\ u.reads = t.reads
        /\ u.reading = t.reading
    BY <1>2, <2>1 DEF Thins
  <2> HIDE DEF u
  <2>5. Operations(u)
    BY <2>4 DEF Operations
  <2> QED
    BY <2>2, <2>3, <2>5
<1> QED
  BY <1>4, <1>5

(* A read that has ended.                                                  *)
ReadEnded(t) == [t EXCEPT !.reading = FALSE, !.reads = @ - 1]

LEMMA ReadEndedKeeps ==
    ASSUME NEW S, NEW t \in Thins(S), Operations(t), t.reads > 0
    PROVE  ReadEnded(t) \in Thins(S) /\ Operations(ReadEnded(t))
<1> DEFINE u == ReadEnded(t)
<1>1. t.reads = 1
  BY DEF Operations
<1>2. u \in Thins(S)
  <2> DEFINE v == [t EXCEPT !.reading = FALSE]
  <2>1. v \in Thins(S)
    BY Set
  <2>2. u = [v EXCEPT !.reads = v.reads - 1]
    BY DEF Thins, ReadEnded
  <2> HIDE DEF u, v
  <2>3. v.reads - 1 \in Int
    BY <2>1 DEF Thins
  <2> QED
    BY <2>1, <2>2, <2>3, Set
<1>3. u.reading = FALSE /\ u.reads = 0 /\ u.writes = t.writes /\ u.writing = t.writing
      /\ u.out = t.out
  BY <1>1 DEF Thins, ReadEnded
<1> HIDE DEF u
<1>4. Operations(u)
  BY <1>3 DEF Operations
<1> QED
  BY <1>2, <1>4 DEF u

LEMMA ClosedKeeps ==
    ASSUME NEW S, NEW t \in Thins(S), Operations(t)
    PROVE  /\ MarkClosed(t) \in Thins(S) /\ Operations(MarkClosed(t))
           /\ [t EXCEPT !.closed = TRUE] \in Thins(S) /\ Operations([t EXCEPT !.closed = TRUE])
BY DEF Thins, Operations, MarkClosed

(* The two halves of the invariant, for one universe of controls.          *)
LEMMA ThinMeans ==
    ASSUME NEW S, \A b \in S : Control(b), thin' \in Thins(S), Operations(thin')
    PROVE  OutInv' /\ OperationInv'
BY DEF OutInv, OperationInv, Operations

LEMMA ThinStep ==
    ASSUME StreamInv, Thin
    PROVE  OutInv' /\ OperationInv' /\ UpInv' /\ DownInv'
<1>1. PICK S : thin \in Thins(S) /\ \A b \in S : Control(b)
  BY DEF StreamInv, OutInv
<1>2. Operations(thin)
  BY DEF StreamInv, OperationInv, Operations
<1>3. UpInv /\ DownInv
  BY DEF StreamInv
<1>4. ASSUME NEW ok \in BOOLEAN, ThinConnect(ok)
      PROVE  OutInv' /\ OperationInv' /\ UpInv' /\ DownInv'
  <2>1. up' = up /\ down' = down
    BY <1>4 DEF ThinConnect
  <2> DEFINE t == [thin EXCEPT !.phase = "up"]
  <2>2. t \in Thins(S) /\ Operations(t)
    BY <1>1, <1>2 DEF Thins, Operations
  <2>3. [thin EXCEPT !.phase = "failed"] \in Thins(S) /\ Operations([thin EXCEPT !.phase = "failed"])
    BY <1>1, <1>2 DEF Thins, Operations
  <2>4. thin' = MaybeRead(t) \/ thin' = [thin EXCEPT !.phase = "failed"]
    BY <1>4 DEF ThinConnect
  <2> HIDE DEF t
  <2>5. thin' \in Thins(S) /\ Operations(thin')
    BY <2>2, <2>3, <2>4, MaybeReadKeeps
  <2> QED
    BY <1>1, <1>3, <2>1, <2>5, ThinMeans, SameUp, SameDown
<1>5. CASE ThinRead
  <2> DEFINE b == Head(down).bytes
             t == ReadEnded(thin)
             T == S \cup {Ack(b.body)}
  <2>1. up' = up /\ down # <<>> /\ down' = Tail(down)
    BY <1>5 DEF ThinRead
  <2>2. thin.reads > 0
    BY <1>5 DEF ThinRead
  <2>3. \A c \in T : Control(c)
    BY <1>1, AckIsDecoded
  <2>4. thin \in Thins(T)
    <3>1. thin.out \in Seq(S)
      BY <1>1 DEF Thins
    <3>2. thin.out \in Seq(T)
      BY <3>1
    <3> HIDE DEF T
    <3> QED
      BY <1>1, <3>2 DEF Thins
  <2>5. Ack(b.body) \in T
    OBVIOUS
  <2>6. thin' \in {MarkClosed(t), [t EXCEPT !.closed = TRUE],
                   MaybeRead(EnqueueAck(t, Ack(b.body))), MaybeRead(t)}
    BY <1>5 DEF ThinRead, ReadEnded
  <2> HIDE DEF T, t, b
  <2>7. t \in Thins(T) /\ Operations(t)
    BY <1>2, <2>2, <2>4, ReadEndedKeeps DEF t
  <2>8. MaybeRead(EnqueueAck(t, Ack(b.body))) \in Thins(T)
        /\ Operations(MaybeRead(EnqueueAck(t, Ack(b.body))))
    BY <2>5, <2>7, EnqueueAckKeeps, MaybeReadKeeps
  <2>9. thin' \in Thins(T) /\ Operations(thin')
    BY <2>6, <2>7, <2>8, MaybeReadKeeps, ClosedKeeps
  <2> QED
    BY <1>3, <2>1, <2>3, <2>9, ThinMeans, SameUp, ShorterDown
<1>6. CASE ThinReadFails
  <2>1. up' = up /\ down' = down /\ thin.reads > 0 /\ thin' = MarkClosed(ReadEnded(thin))
    BY <1>6 DEF ThinReadFails, ReadEnded
  <2>2. thin' \in Thins(S) /\ Operations(thin')
    BY <1>1, <1>2, <2>1, ReadEndedKeeps, ClosedKeeps
  <2> QED
    BY <1>1, <1>3, <2>1, <2>2, ThinMeans, SameUp, SameDown
<1>7. CASE ThinWritten
  <2>1. thin.writes = 1 /\ thin.out # <<>> /\ thin.out \in Seq(S)
    BY <1>1, <1>2, <1>7 DEF ThinWritten, Operations, Thins
  <2>2. down' = down
    BY <1>7 DEF ThinWritten
  <2>3. Head(thin.out) \in S /\ Tail(thin.out) \in Seq(S)
    BY <2>1
  <2>4. UpInv'
    <3>1. up' = Append(up, Head(thin.out)) \/ up' = up
      BY <1>7 DEF ThinWritten
    <3>2. Control(Head(thin.out))
      BY <1>1, <2>3
    <3> QED
      BY <1>3, <3>1, <3>2, LongerUp, SameUp
  <2>5. thin' \in Thins(S) /\ Operations(thin')
    <3>1. CASE srv.attached /\ Len(thin.out) = 1
      <4>1. thin' = [thin EXCEPT !.out = <<>>, !.writing = FALSE, !.writes = @ - 1]
        BY <1>7, <3>1 DEF ThinWritten
      <4>2. thin' \in Thins(S)
        <5> DEFINE u == [thin EXCEPT !.out = <<>>]
                   v == [u EXCEPT !.writing = FALSE]
        <5>1. u \in Thins(S)
          <6>1. <<>> \in Seq(S)
            OBVIOUS
          <6> QED
            BY <1>1, <6>1, Set
        <5>2. v \in Thins(S)
          <6> HIDE DEF u
          <6> QED
            BY <5>1, Set
        <5>3. thin' = [v EXCEPT !.writes = v.writes - 1]
          BY <1>1, <4>1 DEF Thins
        <5> HIDE DEF u, v
        <5>4. v.writes - 1 \in Int
          BY <5>2 DEF Thins
        <5> QED
          BY <5>2, <5>3, <5>4, Set
      <4>3. thin'.out = <<>> /\ thin'.writing = FALSE /\ thin'.writes = 0
            /\ thin'.reads = thin.reads /\ thin'.reading = thin.reading
        BY <1>1, <2>1, <4>1 DEF Thins
      <4> QED
        BY <1>2, <4>2, <4>3 DEF Operations
    <3>2. CASE srv.attached /\ Len(thin.out) # 1
      <4>1. thin' = [thin EXCEPT !.out = Tail(@)]
        BY <1>7, <3>2 DEF ThinWritten
      <4>2. Tail(thin.out) # <<>>
        <5> DEFINE o == thin.out
        <5> HIDE DEF o
        <5>1. o \in Seq(S) /\ o # <<>> /\ Len(o) # 1
          BY <2>1, <3>2 DEF o
        <5>2. Len(Tail(o)) # 0
          BY <5>1
        <5>4. Len(<<>>) = 0
          OBVIOUS
        <5>3. Tail(o) # <<>>
          BY <5>2, <5>4, Zenon
        <5> QED
          BY <5>3 DEF o
      <4>3. thin' \in Thins(S)
        BY <1>1, <2>3, <4>1 DEF Thins
      <4>4. thin'.out # <<>> /\ thin'.writing = thin.writing /\ thin'.writes = thin.writes
            /\ thin'.reads = thin.reads /\ thin'.reading = thin.reading
        BY <1>1, <4>1, <4>2 DEF Thins
      <4> QED
        BY <1>2, <2>1, <4>3, <4>4 DEF Operations
    <3>3. CASE ~srv.attached
      <4> DEFINE t == [thin EXCEPT !.writes = @ - 1]
      <4>1. thin' = MarkClosed(t)
        BY <1>7, <3>3 DEF ThinWritten
      <4>2. t \in Thins(S) /\ Operations(t)
        BY <1>1, <1>2, <2>1 DEF Thins, Operations
      <4> HIDE DEF t
      <4> QED
        BY <4>1, <4>2, ClosedKeeps
    <3> QED
      BY <3>1, <3>2, <3>3
  <2> QED
    BY <1>1, <1>3, <2>2, <2>4, <2>5, ThinMeans, SameDown
<1>8. CASE Kick
  <2> DEFINE t == [thin EXCEPT !.kicks = @ - 1]
  <2>1. up' = up /\ down' = down /\ thin' = MaybeRead(t)
    BY <1>8 DEF Kick
  <2>2. t \in Thins(S) /\ Operations(t)
    BY <1>1, <1>2 DEF Thins, Operations
  <2> HIDE DEF t
  <2>3. thin' \in Thins(S) /\ Operations(thin')
    BY <2>1, <2>2, MaybeReadKeeps
  <2> QED
    BY <1>1, <1>3, <2>1, <2>3, ThinMeans, SameUp, SameDown
<1>9. CASE Pause \/ Resume \/ SetStopping
  <2>1. up' = up /\ down' = down
    BY <1>9 DEF Pause, Resume, SetStopping
  <2>2. thin' \in Thins(S)
    <3>1. CASE Pause
      <4> DEFINE v == [thin EXCEPT !.paused = TRUE]
      <4>1. v \in Thins(S)
        BY <1>1, Set
      <4>2. thin' = [v EXCEPT !.pauses = v.pauses + 1]
        BY <1>1, <3>1 DEF Pause, Thins
      <4> HIDE DEF v
      <4> QED
        BY <4>1, <4>2 DEF Thins
    <3>2. CASE Resume
      <4> DEFINE v == [thin EXCEPT !.paused = FALSE]
      <4>1. v \in Thins(S)
        BY <1>1, Set
      <4>2. thin' = [v EXCEPT !.kicks = v.kicks + 1]
        BY <1>1, <3>2 DEF Resume, Thins
      <4> HIDE DEF v
      <4> QED
        BY <4>1, <4>2 DEF Thins
    <3>3. CASE SetStopping
      BY <1>1, <3>3 DEF SetStopping, Thins
    <3> QED
      BY <1>9, <3>1, <3>2, <3>3
  <2>3. thin'.out = thin.out /\ thin'.writing = thin.writing /\ thin'.writes = thin.writes
        /\ thin'.reads = thin.reads /\ thin'.reading = thin.reading
    BY <1>1, <1>9 DEF Pause, Resume, SetStopping, Thins
  <2>4. Operations(thin')
    BY <1>2, <2>3 DEF Operations
  <2> QED
    BY <1>1, <1>3, <2>1, <2>2, <2>4, ThinMeans, SameUp, SameDown
<1> QED
  BY <1>4, <1>5, <1>6, <1>7, <1>8, <1>9 DEF Thin

-----------------------------------------------------------------------------
(* The messages under way to the clients and back, and the operations of   *)
(* the thin client, in every reachable state.                              *)
THEOREM StreamInvariant == Spec => []StreamInv
<1>1. Init => StreamInv
  <2> SUFFICES ASSUME Init PROVE StreamInv
    OBVIOUS
  <2>1. <<>> \in Seq({}) /\ Fresh \in Thins({}) /\ Operations(Fresh)
    BY DEF Fresh, Thins, Operations
  <2>2. DownInv /\ UpInv /\ OutInv
    BY <2>1, SMTT(60) DEF Init, DownInv, UpInv, OutInv
  <2>3. OperationInv
    BY <2>1 DEF Init, OperationInv, Operations
  <2> QED
    BY <2>2, <2>3 DEF StreamInv
<1>2. StreamInv /\ [Next]_vars => StreamInv'
  <2> SUFFICES ASSUME StreamInv, [Next]_vars PROVE StreamInv'
    OBVIOUS
  <2>0. DownInv /\ UpInv /\ OutInv /\ OperationInv
    BY DEF StreamInv
  <2>1. ASSUME NEW edit, NEW w, NEW key, Tick(edit, w, key)
        PROVE  StreamInv'
    <3>1. up' = up /\ thin' = thin
      BY <2>1 DEF Tick
    <3> QED
      BY <2>0, <2>1, <3>1, TickDown, SameUp, SameThin DEF StreamInv
  <2>2. CASE ServerReads
    <3>1. thin' = thin
      BY <2>2 DEF ServerReads
    <3> QED
      BY <2>0, <2>2, <3>1, ServerReadsKeeps, SameThin DEF StreamInv
  <2>3. CASE ServerCloses
    <3>1. up' = up /\ thin' = thin /\ down' = down
      BY <2>3 DEF ServerCloses
    <3> QED
      BY <2>0, <3>1, SameUp, SameDown, SameThin DEF StreamInv
  <2>4. CASE Read \/ View
    <3>1. thin' = thin /\ down # <<>> /\ down' = Tail(down)
      BY <2>4 DEF Read, View
    <3> QED
      BY <2>0, <2>4, <3>1, BlockingUp, ShorterDown, SameThin DEF StreamInv
  <2>5. ASSUME NEW n \in 1 .. 2, RequestKeyframe(n)
        PROVE  StreamInv'
    <3>1. thin' = thin /\ down' = down
      BY <2>5 DEF RequestKeyframe
    <3> QED
      BY <2>0, <2>5, <3>1, BlockingUp, SameDown, SameThin DEF StreamInv
  <2>6. CASE \/ \E ok \in BOOLEAN : Call(ok)
             \/ \E ok, served \in BOOLEAN : Connect(ok, served)
             \/ \E answer \in {"accepted", "refused", "late", "lost"} : Submit(answer)
             \/ ReadFails
             \/ UNCHANGED vars
    <3>1. up' = up /\ thin' = thin /\ down' = down
      BY <2>6 DEF Call, Connect, Submit, ReadFails, vars
    <3> QED
      BY <2>0, <3>1, SameUp, SameDown, SameThin DEF StreamInv
  <2>7. CASE Thin
    BY <2>7, ThinStep DEF StreamInv
  <2> QED
    BY <2>1, <2>2, <2>3, <2>4, <2>5, <2>6, <2>7 DEF Next, Gateway, Reference, Viewer
<1> QED
  BY <1>1, <1>2, PTL DEF Spec

(* What an encoder lets through is refused at the other end for the size,  *)
(* the number or the depth of its tables as a whole, or not at all         *)
(* (codec.cpp, both directions).                                           *)
THEOREM RefusedAsAWhole == Spec => []OnlyTheWholeIsRefused
<1>1. StreamInv => OnlyTheWholeIsRefused
  <2> SUFFICES ASSUME StreamInv PROVE OnlyTheWholeIsRefused
    OBVIOUS
  <2>1. \A i \in DOMAIN down : Deliverable(down[i])
    BY DEF StreamInv, DownInv
  <2>2. \A i \in DOMAIN up : Control(up[i])
    BY DEF StreamInv, UpInv
  <2> QED
    BY <2>1, <2>2 DEF OnlyTheWholeIsRefused, Deliverable, Control
<1> QED
  BY <1>1, StreamInvariant, PTL

(* One read and one write at a time, though pauses come from another       *)
(* thread (thin_client.cpp).                                               *)
THEOREM OneAtATime == Spec => []OneOperationEach
<1>1. StreamInv => OneOperationEach
  BY DEF StreamInv, OperationInv, OneOperationEach
<1> QED
  BY <1>1, StreamInvariant, PTL

-----------------------------------------------------------------------------
(* The exit code of the reference client.                                  *)

(* A receipt under way says what the gateway has decided.                  *)
Truthful(m, v) ==
    m.bytes.body.kind = "receipt" =>
        IF m.bytes.body.status = "rejected" THEN v \in {"conflict", "missing"}
        ELSE v = "applied"

(* The program c has sent its command when there is a verdict v to come,   *)
(* sends it once, and has seen the receipt its exit code is about.         *)
Reports(c, v) ==
    /\ c.applied => v = "applied"
    /\ v # "none" => c.submitted \/ c.pc = "done"
    /\ c.pc \in Range(Calls) \cup {"submit"} => ~c.submitted
    /\ c.pc # "done" => c.exit = "no"
    /\ c.exit = "ok" => c.applied
    /\ c.exit = "receipt" => v \in {"conflict", "missing"}
    /\ c.exit \in Range(Calls) => v = "none"

Places == {"open_session", "update_subscription", "acquire_ownership", "connect_stream",
           "read", "submit", "done"}
Exits  == {"no", "ok", "stream", "submit", "receipt", "incomplete",
           "open_session", "update_subscription", "acquire_ownership", "connect_stream"}

Programs(S) ==
    [pc : Places, exit : Exits, replica : S, meant : S, got : BOOLEAN, submitted : BOOLEAN,
     applied : BOOLEAN, saw : BOOLEAN, frames : Int, first : S]

TruthInv   == \E S : down \in Seq(S) /\ \A m \in S : Truthful(m, cmd)
ProgramInv == \E S : cli \in Programs(S)
ReportInv  == TruthInv /\ ProgramInv /\ Reports(cli, cmd)

LEMMA CallsAre ==
    Range(Calls) = {"open_session", "update_subscription", "acquire_ownership", "connect_stream"}
BY DEF Range, Calls

(* What the gateway sends is truthful.                                     *)
LEMMA NoReceipt ==
    ASSUME NEW v
    PROVE  /\ \A f : f.kind \in StateKinds => Truthful(Message(f), v)
           /\ Truthful(Reliable(EncodeHeartbeat), v)
           /\ \A code : Truthful(Reliable(EncodeProtocolError(code)), v)
<1>1. NoBytes.body.kind = "none" /\ \A n : n = 1 => Text(n)
  BY LimitsArePositive DEF NoBytes, Text
<1>2. \A id, size, f : Finished(id, size, f).body = f
  BY DEF Finished
<1>3. ASSUME NEW f, f.kind \in StateKinds PROVE Truthful(Message(f), v)
  <2> DEFINE g == DirectFrame(f)
  <2>1. g.kind \in StateKinds
    BY <1>3, DirectParts
  <2>2. EncodeStateFrame(f) = EncodeServerFrame(g)
    BY <1>3, DirectIsEncoded
  <2> HIDE DEF g
  <2>3. EncodeServerFrame(g).body.kind \in StateKinds \cup {"none"}
    <3>1. CASE g.kind = "keyframe"
      BY <1>1, <1>2, <3>1 DEF EncodeServerFrame, StateKinds
    <3>2. CASE g.kind = "delta"
      BY <1>1, <1>2, <3>2 DEF EncodeServerFrame, StateKinds
    <3> QED
      BY <2>1, <3>1, <3>2 DEF StateKinds
  <2>4. Message(f).bytes = EncodeServerFrame(g)
    BY <2>2 DEF Message
  <2> QED
    BY <2>3, <2>4 DEF Truthful, StateKinds
<1>4. Truthful(Reliable(EncodeHeartbeat), v)
  <2> DEFINE f == [kind |-> "heartbeat"]
  <2>1. EncodeServerFrame(f) = Finished("GWSF", FrameSize(f), f)
    BY DEF EncodeServerFrame
  <2> QED
    BY <1>2, <2>1 DEF EncodeHeartbeat, Reliable, Truthful
<1>5. ASSUME NEW code PROVE Truthful(Reliable(EncodeProtocolError(code)), v)
  <2> DEFINE f == [kind |-> "error", code |-> code, text |-> 1]
  <2>1. EncodeServerFrame(f) = Finished("GWSF", FrameSize(f), f)
    BY <1>1 DEF EncodeServerFrame, EncodeReliable
  <2> QED
    BY <1>2, <2>1 DEF EncodeProtocolError, Reliable, Truthful
<1> QED
  BY <1>3, <1>4, <1>5

LEMMA ReceiptIsTruthful ==
    ASSUME Verdict # cmd
    PROVE  cmd = "pending" /\ Truthful(Reliable(Receipt), Verdict)
<1>1. cmd = "pending" /\ Verdict \in {"missing", "conflict", "applied"}
  BY DEF Verdict
<1>2. \A n : n = 1 => Text(n)
  BY LimitsArePositive DEF Text
<1>3. ASSUME NEW status
      PROVE  Reliable(EncodeReceipt(status)).bytes.body.status = status
  <2> DEFINE f == [kind |-> "receipt", status |-> status, text |-> 1]
  <2>1. EncodeServerFrame(f) = Finished("GWSF", FrameSize(f), f)
    BY <1>2 DEF EncodeServerFrame, EncodeReliable
  <2> QED
    BY <2>1 DEF EncodeReceipt, Reliable, Finished
<1>4. Truthful(Reliable(Receipt), Verdict)
  <2>1. Receipt = IF Verdict = "applied" THEN EncodeReceipt("applied") ELSE EncodeReceipt("rejected")
    BY DEF Receipt
  <2> HIDE DEF Receipt, Verdict
  <2> QED
    BY <1>1, <1>3, <2>1 DEF Truthful
<1> QED
  BY <1>1, <1>4

(* A round of the daemon decides the command at most once, and says so.    *)
LEMMA TickIsTruthful ==
    ASSUME TruthInv, NEW edit, NEW w, NEW key, Tick(edit, w, key)
    PROVE  TruthInv'
<1> DEFINE now   == Edited(Executed, edit, w)
           frame == StateFrame(now, key \/ srv.key)
           state == srv.attached /\ (key \/ srv.key \/ Changes(frame) > 0)
           first == IF Verdict # cmd THEN <<Reliable(Receipt)>> ELSE <<>>
           beat  == ~state /\ srv.attached /\ srv.tick + 1 - srv.beat >= HeartbeatTicks
           alive == IF beat THEN <<Reliable(EncodeHeartbeat)>> ELSE <<>>
           last  == IF state THEN <<Message(frame)>> ELSE <<>>
<1>1. PICK S : down \in Seq(S) /\ \A x \in S : Truthful(x, cmd)
  BY DEF TruthInv
<1>2. down' = IF ~srv.attached THEN down ELSE down \o first \o alive \o last
  BY Zenon DEF Tick
<1>3. cmd' = Verdict
  BY DEF Tick
<1>4. frame.kind \in StateKinds
  BY DEF StateFrame, StateKinds
<1> DEFINE T == S \cup {Reliable(EncodeHeartbeat), Message(frame)}
                  \cup (IF Verdict # cmd THEN {Reliable(Receipt)} ELSE {})
<1>5. \A x \in T : Truthful(x, Verdict)
  <2> HIDE DEF frame
  <2>1. Truthful(Reliable(EncodeHeartbeat), Verdict) /\ Truthful(Message(frame), Verdict)
    BY <1>4, NoReceipt
  <2>2. Verdict # cmd => Truthful(Reliable(Receipt), Verdict)
    BY ReceiptIsTruthful
  <2>3. \A x \in S : Truthful(x, Verdict)
    <3>1. CASE Verdict = cmd
      BY <1>1, <3>1
    <3>2. CASE Verdict # cmd
      <4>1. cmd = "pending"
        BY <3>2, ReceiptIsTruthful
      <4>2. \A x \in S : x.bytes.body.kind # "receipt"
        BY <1>1, <4>1 DEF Truthful
      <4> QED
        BY <4>2 DEF Truthful
    <3> QED
      BY <3>1, <3>2
  <2> QED
    BY <2>1, <2>2, <2>3
<1>6. first \in Seq(T) /\ alive \in Seq(T) /\ last \in Seq(T) /\ down \in Seq(T)
  <2>1. \A x \in T : <<x>> \in Seq(T)
    OBVIOUS
  <2>2. Reliable(EncodeHeartbeat) \in T /\ Message(frame) \in T
    OBVIOUS
  <2>3. Verdict # cmd => Reliable(Receipt) \in T
    OBVIOUS
  <2>4. down \in Seq(T) /\ <<>> \in Seq(T)
    BY <1>1
  <2> HIDE DEF T, state, beat
  <2> QED
    BY <2>1, <2>2, <2>3, <2>4
<1>7. down' \in Seq(T)
  <2> HIDE DEF T, first, alive, last
  <2> QED
    BY <1>2, <1>6
<1> HIDE DEF T
<1>8. down' \in Seq(T) /\ \A x \in T : Truthful(x, cmd')
  BY <1>3, <1>5, <1>7
<1> QED
  BY <1>8, Zenon DEF TruthInv, Truthful

LEMMA LongerTruth ==
    ASSUME TruthInv, NEW m, Truthful(m, cmd), down' = Append(down, m), cmd' = cmd
    PROVE  TruthInv'
<1>1. PICK S : down \in Seq(S) /\ \A x \in S : Truthful(x, cmd)
  BY DEF TruthInv
<1>2. down' \in Seq(S \cup {m}) /\ \A x \in S \cup {m} : Truthful(x, cmd')
  BY <1>1
<1> QED
  BY <1>2, Zenon DEF TruthInv, Truthful

LEMMA SameTruth ==
    ASSUME TruthInv, cmd' = cmd, down' = down \/ (down # <<>> /\ down' = Tail(down))
    PROVE  TruthInv'
<1>1. PICK S : down \in Seq(S) /\ \A x \in S : Truthful(x, cmd)
  BY DEF TruthInv
<1>2. down' \in Seq(S) /\ \A x \in S : Truthful(x, cmd')
  BY <1>1
<1> QED
  BY <1>2, Zenon DEF TruthInv, Truthful

(* The bottom of the loop, and what follows a frame.                       *)
LEMMA ProgramSet ==
    ASSUME NEW S, NEW c \in Programs(S)
    PROVE  /\ \A x \in Places : [c EXCEPT !.pc = x] \in Programs(S)
           /\ \A y \in Exits : [c EXCEPT !.exit = y] \in Programs(S)
           /\ \A x \in BOOLEAN : [c EXCEPT !.submitted = x] \in Programs(S)
           /\ \A x \in BOOLEAN : [c EXCEPT !.applied = x] \in Programs(S)
           /\ \A x \in Int : [c EXCEPT !.frames = x] \in Programs(S)
<1>1. \A x \in Places : [c EXCEPT !.pc = x] \in Programs(S)
  BY DEF Programs
<1>2. \A y \in Exits : [c EXCEPT !.exit = y] \in Programs(S)
  BY DEF Programs
<1>3. \A x \in BOOLEAN : [c EXCEPT !.submitted = x] \in Programs(S)
  BY DEF Programs
<1>4. \A x \in BOOLEAN : [c EXCEPT !.applied = x] \in Programs(S)
  BY DEF Programs
<1>5. \A x \in Int : [c EXCEPT !.frames = x] \in Programs(S)
  BY DEF Programs
<1> QED
  BY <1>1, <1>2, <1>3, <1>4, <1>5

LEMMA ProgramMoves ==
    ASSUME NEW S, NEW c \in Programs(S), NEW x \in Places, NEW d, d = [c EXCEPT !.pc = x]
    PROVE  /\ d \in Programs(S) /\ d.pc = x /\ d.exit = c.exit
           /\ d.submitted = c.submitted /\ d.applied = c.applied
<1>1. d \in Programs(S)
  BY ProgramSet
<1> QED
  BY <1>1 DEF Programs

LEMMA ProgramExits ==
    ASSUME NEW S, NEW c \in Programs(S), NEW y \in Exits, NEW d, d = [c EXCEPT !.exit = y]
    PROVE  /\ d \in Programs(S) /\ d.pc = c.pc /\ d.exit = y
           /\ d.submitted = c.submitted /\ d.applied = c.applied
<1>1. d \in Programs(S)
  BY ProgramSet
<1> QED
  BY <1>1 DEF Programs

EndedAs(c, y) == [c EXCEPT !.pc = "done", !.exit = y]

LEMMA ProgramEnds ==
    ASSUME NEW S, NEW c \in Programs(S), NEW y \in Exits
    PROVE  /\ EndedAs(c, y) \in Programs(S)
           /\ EndedAs(c, y).pc = "done" /\ EndedAs(c, y).exit = y
           /\ EndedAs(c, y).submitted = c.submitted /\ EndedAs(c, y).applied = c.applied
<1> DEFINE e == [c EXCEPT !.pc = "done"]
           d == [e EXCEPT !.exit = y]
<1>1. e \in Programs(S) /\ e.pc = "done" /\ e.exit = c.exit
      /\ e.submitted = c.submitted /\ e.applied = c.applied
  <2>1. "done" \in Places
    BY DEF Places
  <2> QED
    BY <2>1, ProgramMoves
<1>2. d = EndedAs(c, y)
  BY DEF Programs, EndedAs
<1> HIDE DEF e
<1>3. d \in Programs(S) /\ d.pc = "done" /\ d.exit = y
      /\ d.submitted = c.submitted /\ d.applied = c.applied
  BY <1>1, ProgramExits
<1> HIDE DEF d
<1> QED
  BY <1>2, <1>3

LEMMA LoopReports ==
    ASSUME NEW S, NEW c \in Programs(S), NEW v, c.exit = "no",
           c.applied => v = "applied", v # "none" => c.submitted
    PROVE  /\ Looped(c) \in Programs(S) /\ Reports(Looped(c), v)
           /\ AfterFrame(c) \in Programs(S) /\ Reports(AfterFrame(c), v)
<1>1. ASSUME NEW x \in {"read", "submit"}, x = "submit" => ~c.submitted
      PROVE  [c EXCEPT !.pc = x] \in Programs(S) /\ Reports([c EXCEPT !.pc = x], v)
  <2> DEFINE d == [c EXCEPT !.pc = x]
  <2>0. d = [c EXCEPT !.pc = x] /\ x \in Places
    BY DEF Places
  <2> HIDE DEF d
  <2>1. /\ d \in Programs(S) /\ d.pc = x /\ d.exit = "no"
        /\ d.submitted = c.submitted /\ d.applied = c.applied
    BY <2>0, ProgramMoves
  <2>2. Reports(d, v)
    BY <1>1, <2>1, CallsAre DEF Reports
  <2> QED
    BY <2>1, <2>2 DEF d
<1>2. ASSUME NEW y \in {"ok", "incomplete"}, y = "ok" => c.applied
      PROVE  EndedAs(c, y) \in Programs(S) /\ Reports(EndedAs(c, y), v)
  <2> DEFINE d == EndedAs(c, y)
  <2>0. y \in Exits
    BY DEF Exits
  <2>1. /\ d \in Programs(S) /\ d.pc = "done" /\ d.exit = y
        /\ d.submitted = c.submitted /\ d.applied = c.applied
    BY <2>0, ProgramEnds
  <2> HIDE DEF d
  <2>2. Reports(d, v)
    BY <1>2, <2>1, CallsAre DEF Reports
  <2> QED
    BY <2>1, <2>2 DEF d
<1>3. Looped(c) \in Programs(S) /\ Reports(Looped(c), v)
  BY <1>1, <1>2 DEF Looped, EndedAs
<1>4. AfterFrame(c) \in Programs(S) /\ Reports(AfterFrame(c), v)
  BY <1>1, <1>3 DEF AfterFrame
<1> QED
  BY <1>3, <1>4

(* The program ends with a code that fits the verdict.                     *)
LEMMA EndReports ==
    ASSUME NEW S, NEW c \in Programs(S), NEW v, NEW why \in Exits, c.applied => v = "applied",
           why # "ok", why = "receipt" => v \in {"conflict", "missing"},
           why \in Range(Calls) => v = "none"
    PROVE  EndedAs(c, why) \in Programs(S) /\ Reports(EndedAs(c, why), v)
<1> DEFINE d == EndedAs(c, why)
<1>1. d \in Programs(S) /\ d.pc = "done" /\ d.exit = why /\ d.applied = c.applied
  BY ProgramEnds
<1> HIDE DEF d
<1>2. Reports(d, v)
  BY <1>1, CallsAre DEF Reports
<1> QED
  BY <1>1, <1>2 DEF d

(* A state frame in the replica changes nothing of the command.            *)
LEMMA HeldReports ==
    ASSUME NEW S, cli \in Programs(S), NEW f, NEW wire
    PROVE  \E T : /\ Held(f, wire) \in Programs(T)
                  /\ Held(f, wire).pc = cli.pc /\ Held(f, wire).exit = cli.exit
                  /\ Held(f, wire).submitted = cli.submitted
                  /\ Held(f, wire).applied = cli.applied
                  /\ Held(f, wire).frames = cli.frames
<1> DEFINE R == Applied(cli.replica, wire)
           M == Meant(cli.meant, f)
           G == cli.got \/ f.kind = "keyframe"
           W == cli.saw \/ Target \in DOMAIN f.updates
           F == IF cli.first = 0 THEN f.snap ELSE cli.first
           T == S \cup {R, M, F}
<1>1. Held(f, wire) = [cli EXCEPT !.replica = R, !.meant = M, !.got = G, !.saw = W, !.first = F]
  BY DEF Held
<1>2. G \in BOOLEAN /\ W \in BOOLEAN /\ R \in T /\ M \in T /\ F \in T /\ cli \in Programs(T)
  <2>1. cli.got \in BOOLEAN /\ cli.saw \in BOOLEAN
    BY DEF Programs
  <2>2. cli \in Programs(T)
    <3>1. S \subseteq T
      OBVIOUS
    <3> HIDE DEF T
    <3> QED
      BY <3>1 DEF Programs
  <2> QED
    BY <2>1, <2>2
<1> HIDE DEF R, M, G, W, F, T
<1>3. [cli EXCEPT !.replica = R, !.meant = M, !.got = G, !.saw = W, !.first = F] \in Programs(T)
  BY <1>2 DEF Programs
<1> DEFINE h == Held(f, wire)
<1>4. /\ h.pc = cli.pc /\ h.exit = cli.exit /\ h.submitted = cli.submitted
      /\ h.applied = cli.applied /\ h.frames = cli.frames
  BY <1>1, <1>2 DEF Programs
<1>5. h \in Programs(T)
  BY <1>1, <1>3
<1> HIDE DEF h
<1> QED
  BY <1>4, <1>5 DEF h

LEMMA ProgramCounts ==
    ASSUME NEW S, NEW c \in Programs(S), NEW d, d = [c EXCEPT !.frames = @ + 1]
    PROVE  /\ d \in Programs(S) /\ d.pc = c.pc /\ d.exit = c.exit
           /\ d.submitted = c.submitted /\ d.applied = c.applied
<1>1. c.frames + 1 \in Int /\ d = [c EXCEPT !.frames = c.frames + 1]
  BY DEF Programs
<1>2. d \in Programs(S)
  BY <1>1, ProgramSet
<1> QED
  BY <1>2 DEF Programs

LEMMA ProgramMarks ==
    ASSUME NEW S, NEW c \in Programs(S), NEW d
    PROVE  /\ \A x \in BOOLEAN : d = [c EXCEPT !.applied = x] =>
                /\ d \in Programs(S) /\ d.pc = c.pc /\ d.exit = c.exit
                /\ d.submitted = c.submitted
           /\ d = [c EXCEPT !.submitted = TRUE] =>
                /\ d \in Programs(S) /\ d.pc = c.pc /\ d.exit = c.exit
                /\ d.submitted /\ d.applied = c.applied
<1>1. ASSUME NEW x \in BOOLEAN, d = [c EXCEPT !.applied = x]
      PROVE  /\ d \in Programs(S) /\ d.pc = c.pc /\ d.exit = c.exit
             /\ d.submitted = c.submitted
  <2>1. d \in Programs(S)
    BY <1>1, ProgramSet
  <2> QED
    BY <1>1, <2>1 DEF Programs
<1>2. ASSUME d = [c EXCEPT !.submitted = TRUE]
      PROVE  /\ d \in Programs(S) /\ d.pc = c.pc /\ d.exit = c.exit
             /\ d.submitted /\ d.applied = c.applied
  <2>1. d \in Programs(S)
    BY <1>2, ProgramSet
  <2> QED
    BY <1>2, <2>1 DEF Programs
<1> QED
  BY <1>1, <1>2

(* The program and the verdict after a step.                               *)
LEMMA ProgramIs ==
    ASSUME NEW T, NEW c \in Programs(T), NEW v, Reports(c, v), cli' = c, cmd' = v
    PROVE  ProgramInv' /\ Reports(cli, cmd)'
BY DEF ProgramInv, Reports

(* read_frame() and the body of the loop.                                  *)
LEMMA ReadReports ==
    ASSUME ReportInv, Read
    PROVE  ProgramInv' /\ Reports(cli, cmd)'
<1>1. PICK S : cli \in Programs(S)
  BY DEF ReportInv, ProgramInv
<1>2. /\ Reports(cli, cmd) /\ cli.pc = "read" /\ cmd' = cmd /\ down # <<>>
  BY Zenon DEF ReportInv, Read
<1>3. /\ cli.exit = "no"
      /\ cli.applied => cmd = "applied"
      /\ cmd # "none" => cli.submitted
  BY <1>2 DEF Reports
<1>4. Truthful(Head(down), cmd)
  <2>1. PICK Q : down \in Seq(Q) /\ \A m \in Q : Truthful(m, cmd)
    BY DEF ReportInv, TruthInv
  <2> QED
    BY <1>2, <2>1
<1> DEFINE m == Head(down)
           f == m.bytes.body
           n == [cli EXCEPT !.frames = @ + 1]
<1>t. /\ f.kind = "receipt" /\ f.status = "rejected" => cmd \in {"conflict", "missing"}
      /\ f.kind = "receipt" /\ f.status # "rejected" => cmd = "applied"
  BY <1>4, Zenon DEF Truthful
<1>5. ASSUME NEW why \in {"stream", "receipt"}, cli' = Ended(why),
             why = "receipt" => cmd \in {"conflict", "missing"}
      PROVE  ProgramInv' /\ Reports(cli, cmd)'
  <2>1. cli' = EndedAs(cli, why) /\ why \in Exits /\ why \notin Range(Calls) /\ why # "ok"
    BY <1>5, CallsAre DEF Ended, EndedAs, Exits
  <2>2. EndedAs(cli, why) \in Programs(S) /\ Reports(EndedAs(cli, why), cmd)
    BY <1>1, <1>3, <1>5, <2>1, EndReports
  <2> QED
    BY <1>2, <2>1, <2>2, ProgramIs
<1>6. CASE DecodeServerFrame(m.bytes) # ""
  <2>1. cli' = Ended("stream")
    BY <1>6, Zenon DEF Read
  <2> QED
    BY <1>5, <2>1
<1>7. CASE DecodeServerFrame(m.bytes) = "" /\ f.kind \in {"keyframe", "delta"}
  <2> DEFINE g == Held(m.frame, f)
             h == [g EXCEPT !.frames = @ + 1]
  <2>1. cli' = AfterFrame(h) \/ cli' = [h EXCEPT !.pc = "done", !.exit = "stream"]
    BY <1>7, Zenon DEF Read
  <2>2. PICK T : /\ g \in Programs(T) /\ g.pc = cli.pc /\ g.exit = cli.exit
                 /\ g.submitted = cli.submitted /\ g.applied = cli.applied
    BY <1>1, HeldReports
  <2> HIDE DEF g
  <2>3. /\ h \in Programs(T) /\ h.exit = "no"
        /\ h.submitted = cli.submitted /\ h.applied = cli.applied
    BY <1>3, <2>2, ProgramCounts
  <2> HIDE DEF h
  <2>4. AfterFrame(h) \in Programs(T) /\ Reports(AfterFrame(h), cmd)
    BY <1>3, <2>3, LoopReports
  <2>5. EndedAs(h, "stream") \in Programs(T) /\ Reports(EndedAs(h, "stream"), cmd)
    <3>1. "stream" \in Exits /\ "stream" \notin Range(Calls)
      BY CallsAre DEF Exits
    <3> QED
      BY <1>3, <2>3, <3>1, EndReports
  <2>6. cli' = AfterFrame(h) \/ cli' = EndedAs(h, "stream")
    BY <2>1 DEF EndedAs
  <2> QED
    BY <1>2, <2>4, <2>5, <2>6, ProgramIs
<1>n. n \in Programs(S) /\ n.exit = "no" /\ n.submitted = cli.submitted /\ n.applied = cli.applied
  BY <1>1, <1>3, ProgramCounts
<1>8. CASE DecodeServerFrame(m.bytes) = "" /\ f.kind = "receipt"
  <2>1. CASE f.status = "rejected"
    <3>1. cli' = Ended("receipt")
      BY <1>8, <2>1, Zenon DEF Read
    <3>2. cmd \in {"conflict", "missing"}
      BY <1>t, <1>8, <2>1, Zenon
    <3> QED
      BY <1>5, <3>1, <3>2
  <2>2. CASE f.status # "rejected"
    <3> DEFINE a == [n EXCEPT !.applied = @ \/ f.status = "applied"]
    <3>1. cli' = AfterFrame(a)
      BY <1>8, <2>2, Zenon DEF Read
    <3>2. cmd = "applied"
      BY <1>t, <1>8, <2>2, Zenon
    <3> HIDE DEF n
    <3> DEFINE x == n.applied \/ f.status = "applied"
    <3>5. a = [n EXCEPT !.applied = x]
      OBVIOUS
    <3>6. x \in BOOLEAN
      <4>1. n.applied \in BOOLEAN
        BY <1>n DEF Programs
      <4> QED
        BY <4>1
    <3> HIDE DEF a, x
    <3>3. a \in Programs(S) /\ a.exit = "no" /\ a.submitted = cli.submitted
      BY <1>n, <3>5, <3>6, ProgramMarks
    <3>4. AfterFrame(a) \in Programs(S) /\ Reports(AfterFrame(a), cmd)
      BY <1>3, <3>2, <3>3, LoopReports
    <3> QED
      BY <1>2, <3>1, <3>4, ProgramIs
  <2> QED
    BY <2>1, <2>2
<1>9. CASE DecodeServerFrame(m.bytes) = "" /\ f.kind = "error"
  <2>1. cli' = Ended("stream")
    BY <1>9, Zenon DEF Read
  <2> QED
    BY <1>5, <2>1
<1>10. CASE /\ DecodeServerFrame(m.bytes) = ""
            /\ f.kind \notin {"keyframe", "delta", "receipt", "error"}
  <2>1. cli' = AfterFrame(n)
    BY <1>10, Zenon DEF Read
  <2> HIDE DEF n
  <2>2. AfterFrame(n) \in Programs(S) /\ Reports(AfterFrame(n), cmd)
    BY <1>3, <1>n, LoopReports
  <2> QED
    BY <1>2, <2>1, <2>2, ProgramIs
<1> QED
  BY <1>6, <1>7, <1>8, <1>9, <1>10, Zenon

(* submit_set_property(), the one command of the program.                  *)
LEMMA SubmitReports ==
    ASSUME ReportInv, NEW answer \in {"accepted", "refused", "late", "lost"}, Submit(answer)
    PROVE  ProgramInv' /\ Reports(cli, cmd)' /\ TruthInv'
<1>1. PICK S : cli \in Programs(S)
  BY DEF ReportInv, ProgramInv
<1>2. Reports(cli, cmd) /\ cli.pc = "submit" /\ down' = down
  BY DEF ReportInv, Submit
<1>3. cli.exit = "no" /\ ~cli.submitted /\ cmd = "none" /\ ~cli.applied
  <2>1. ~cli.submitted
    BY <1>2 DEF Reports
  <2> QED
    BY <1>2, <2>1 DEF Reports
<1>4. TruthInv'
  <2>1. PICK Q : down \in Seq(Q) /\ \A m \in Q : Truthful(m, cmd)
    BY DEF ReportInv, TruthInv
  <2>2. \A m \in Q : m.bytes.body.kind # "receipt"
    BY <1>3, <2>1 DEF Truthful
  <2>3. down' \in Seq(Q) /\ \A m \in Q : m.bytes.body.kind # "receipt"
    BY <1>2, <2>1, <2>2
  <2> QED
    BY <2>3, Zenon DEF TruthInv, Truthful
<1>5. CASE answer = "accepted"
  <2> DEFINE c == [cli EXCEPT !.submitted = TRUE]
  <2>1. cmd' = "pending" /\ cli' = Looped(c)
    BY <1>5 DEF Submit
  <2>2. c \in Programs(S) /\ c.exit = "no" /\ c.submitted /\ c.applied = cli.applied
    BY <1>1, <1>3, ProgramMarks
  <2> HIDE DEF c
  <2>3. Looped(c) \in Programs(S) /\ Reports(Looped(c), "pending")
    BY <1>3, <2>2, LoopReports
  <2> QED
    BY <1>4, <2>1, <2>3, ProgramIs
<1>6. CASE answer # "accepted"
  <2>1. /\ cli' = EndedAs(cli, "submit")
    BY <1>6 DEF Submit, Ended, EndedAs
  <2>2. cmd' \in {"refused", "pending", "none"}
    BY <1>6 DEF Submit
  <2>3. "submit" \in Exits /\ "submit" \notin Range(Calls)
    BY CallsAre DEF Exits
  <2>4. \A v : EndedAs(cli, "submit") \in Programs(S) /\ Reports(EndedAs(cli, "submit"), v)
    BY <1>1, <1>3, <2>3, EndReports
  <2> QED
    BY <1>4, <2>1, <2>2, <2>4, ProgramIs
<1> QED
  BY <1>5, <1>6

(* The calls before the stream, and connect_stream().                      *)
LEMMA CallReports ==
    ASSUME ReportInv, NEW ok \in BOOLEAN, NEW served \in BOOLEAN, Call(ok) \/ Connect(ok, served)
    PROVE  ProgramInv' /\ Reports(cli, cmd)'
<1>1. PICK S : cli \in Programs(S)
  BY DEF ReportInv, ProgramInv
<1>2. Reports(cli, cmd) /\ cmd' = cmd
  BY DEF ReportInv, Call, Connect
<1>3. /\ cli.pc \in Range(Calls)
      /\ \/ cli' = EndedAs(cli, cli.pc)
         \/ \E next \in Range(Calls) \cup {"read"} : cli' = [cli EXCEPT !.pc = next]
  <2>1. CASE Call(ok)
    <3>1. PICK i \in 1 .. Len(Calls) - 1 :
             /\ cli.pc = Calls[i]
             /\ cli' = IF ok THEN [cli EXCEPT !.pc = Calls[i + 1]] ELSE Ended(Calls[i])
      BY <2>1 DEF Call
    <3>2. Calls[i] \in Range(Calls) /\ Calls[i + 1] \in Range(Calls)
      BY DEF Range, Calls
    <3> QED
      BY <3>1, <3>2 DEF Ended, EndedAs
  <2>2. CASE Connect(ok, served)
    BY <2>2, CallsAre DEF Connect, Ended, EndedAs
  <2> QED
    BY <2>1, <2>2
<1>4. cli.exit = "no" /\ ~cli.submitted /\ cmd = "none" /\ ~cli.applied /\ cli.pc # "done"
  <2>1. cli.pc # "done" /\ ~cli.submitted
    BY <1>2, <1>3, CallsAre DEF Reports
  <2> QED
    BY <1>2, <2>1 DEF Reports
<1>5. CASE cli' = EndedAs(cli, cli.pc)
  <2>1. cli.pc \in Exits /\ cli.pc # "ok" /\ cli.pc # "receipt"
    BY <1>3, CallsAre DEF Exits
  <2>2. EndedAs(cli, cli.pc) \in Programs(S) /\ Reports(EndedAs(cli, cli.pc), cmd)
    BY <1>1, <1>4, <2>1, EndReports
  <2> QED
    BY <1>2, <1>5, <2>2, ProgramIs
<1>6. ASSUME NEW next \in Range(Calls) \cup {"read"}, cli' = [cli EXCEPT !.pc = next]
      PROVE  ProgramInv' /\ Reports(cli, cmd)'
  <2> DEFINE d == [cli EXCEPT !.pc = next]
  <2>1. next \in Places
    BY CallsAre DEF Places
  <2>2. d \in Programs(S) /\ d.pc = next /\ d.exit = "no" /\ ~d.submitted /\ ~d.applied
    BY <1>1, <1>4, <2>1, ProgramMoves
  <2>3. cli' = d
    BY <1>6
  <2> HIDE DEF d
  <2>4. Reports(d, cmd)
    BY <1>4, <2>2, CallsAre DEF Reports
  <2> QED
    BY <1>2, <2>2, <2>3, <2>4, ProgramIs
<1> QED
  BY <1>3, <1>5, <1>6

(* The viewer sends no command.                                            *)
LEMMA ViewReports ==
    ASSUME ReportInv, View \/ ReadFails \/ \E n \in 1 .. 2 : RequestKeyframe(n)
    PROVE  ProgramInv' /\ Reports(cli, cmd)'
<1>1. PICK S : cli \in Programs(S)
  BY DEF ReportInv, ProgramInv
<1>2. Reports(cli, cmd) /\ cmd' = cmd /\ cli.pc = "read"
  BY Zenon DEF ReportInv, View, ReadFails, RequestKeyframe
<1>3. /\ cli.exit = "no"
      /\ cli.applied => cmd = "applied"
      /\ cmd # "none" => cli.submitted
  BY <1>2 DEF Reports
<1>4. \/ cli' = EndedAs(cli, "stream")
      \/ \E f, wire : cli' = Held(f, wire)
      \/ cli' = [cli EXCEPT !.frames = @ + 1]
      \/ cli' = cli
  <2>1. CASE View
    BY <2>1, Zenon DEF View, Ended, EndedAs
  <2>2. CASE ReadFails
    BY <2>2, Zenon DEF ReadFails, Ended, EndedAs
  <2>3. CASE \E n \in 1 .. 2 : RequestKeyframe(n)
    BY <2>3, Zenon DEF RequestKeyframe
  <2> QED
    BY <2>1, <2>2, <2>3
<1>5. CASE cli' = EndedAs(cli, "stream")
  <2>1. "stream" \in Exits /\ "stream" \notin Range(Calls)
    BY CallsAre DEF Exits
  <2>2. EndedAs(cli, "stream") \in Programs(S) /\ Reports(EndedAs(cli, "stream"), cmd)
    BY <1>1, <1>3, <2>1, EndReports
  <2> QED
    BY <1>2, <1>5, <2>2, ProgramIs
<1>6. ASSUME NEW T, NEW c \in Programs(T), cli' = c, c.pc = cli.pc, c.exit = cli.exit,
             c.submitted = cli.submitted, c.applied = cli.applied
      PROVE  ProgramInv' /\ Reports(cli, cmd)'
  <2>1. Reports(c, cmd)
    BY <1>2, <1>6 DEF Reports
  <2> QED
    BY <1>2, <1>6, <2>1, ProgramIs
<1>7. ASSUME NEW f, NEW wire, cli' = Held(f, wire)
      PROVE  ProgramInv' /\ Reports(cli, cmd)'
  BY <1>1, <1>6, <1>7, HeldReports
<1>8. CASE cli' = [cli EXCEPT !.frames = @ + 1]
  <2> DEFINE d == [cli EXCEPT !.frames = @ + 1]
  <2>1. /\ d \in Programs(S) /\ d.pc = cli.pc /\ d.exit = cli.exit
        /\ d.submitted = cli.submitted /\ d.applied = cli.applied
    BY <1>1, ProgramCounts
  <2>2. cli' = d
    BY <1>8
  <2> HIDE DEF d
  <2> QED
    BY <1>6, <2>1, <2>2
<1>9. CASE cli' = cli
  BY <1>1, <1>6, <1>9
<1> QED
  BY <1>4, <1>5, <1>7, <1>8, <1>9

LEMMA ReportStep ==
    ASSUME ReportInv, [Next]_vars
    PROVE  ReportInv'
<1>0. TruthInv /\ ProgramInv /\ Reports(cli, cmd)
  BY DEF ReportInv
<1>1. ASSUME cli' = cli, cmd' = cmd
      PROVE  ProgramInv' /\ Reports(cli, cmd)'
  BY <1>0, <1>1 DEF ProgramInv, Reports
<1>2. ASSUME NEW edit, NEW w, NEW key, Tick(edit, w, key)
      PROVE  ReportInv'
  <2>1. cli' = cli /\ cmd' = Verdict
    BY <1>2 DEF Tick
  <2>2. CASE Verdict = cmd
    BY <1>0, <1>1, <1>2, <2>1, <2>2, TickIsTruthful DEF ReportInv
  <2>3. CASE Verdict # cmd
    <3>1. cmd = "pending" /\ Verdict # "none"
      <4>1. Verdict # cmd => Verdict \in {"missing", "conflict", "applied"}
        BY DEF Verdict
      <4> QED
        BY <2>3, <4>1, ReceiptIsTruthful
    <3>2. Reports(cli, Verdict)
      <4> HIDE DEF Verdict
      <4> QED
        BY <1>0, <3>1 DEF Reports
    <3>3. ProgramInv' /\ Reports(cli, cmd)'
      <4> HIDE DEF Verdict
      <4> QED
        BY <1>0, <2>1, <3>2 DEF ProgramInv, Reports
    <3> QED
      BY <1>0, <1>2, <3>3, TickIsTruthful DEF ReportInv
  <2> QED
    BY <2>2, <2>3
<1>3. CASE ServerReads
  <2>1. cli' = cli /\ cmd' = cmd
    BY <1>3, Zenon DEF ServerReads
  <2>2. down' = down \/ \E code : down' = Append(down, Reliable(EncodeProtocolError(code)))
    BY <1>3, Zenon DEF ServerReads
  <2>3. TruthInv'
    BY <1>0, <2>1, <2>2, LongerTruth, SameTruth, NoReceipt
  <2> QED
    BY <1>1, <2>1, <2>3 DEF ReportInv
<1>4. CASE ServerCloses \/ Thin \/ UNCHANGED vars
  <2>1. cli' = cli /\ cmd' = cmd /\ (down' = down \/ (down # <<>> /\ down' = Tail(down)))
    <3>1. CASE ServerCloses \/ UNCHANGED vars
      BY <3>1 DEF ServerCloses, vars
    <3>2. ASSUME NEW ok \in BOOLEAN, ThinConnect(ok)
          PROVE  cli' = cli /\ cmd' = cmd /\ down' = down
      BY <3>2 DEF ThinConnect, ThinOnly
    <3>3. CASE ThinRead
      BY <3>3, Zenon DEF ThinRead, ThinOnly
    <3>4. CASE ThinReadFails \/ ThinWritten
      BY <3>4, Zenon DEF ThinReadFails, ThinWritten, ThinOnly
    <3>5. CASE Pause \/ Resume \/ Kick \/ SetStopping
      BY <3>5 DEF Pause, Resume, Kick, SetStopping, ThinOnly
    <3> QED
      BY <1>4, <3>1, <3>2, <3>3, <3>4, <3>5 DEF Thin
  <2> QED
    BY <1>0, <1>1, <2>1, SameTruth DEF ReportInv
<1>5. CASE Read
  <2>1. cmd' = cmd /\ down # <<>> /\ down' = Tail(down)
    BY <1>5, Zenon DEF Read
  <2> QED
    BY <1>0, <1>5, <2>1, ReadReports, SameTruth DEF ReportInv
<1>6. CASE View \/ ReadFails \/ \E n \in 1 .. 2 : RequestKeyframe(n)
  <2>1. cmd' = cmd /\ (down' = down \/ (down # <<>> /\ down' = Tail(down)))
    BY <1>6, Zenon DEF View, ReadFails, RequestKeyframe
  <2> QED
    BY <1>0, <1>6, <2>1, ViewReports, SameTruth DEF ReportInv
<1>7. ASSUME NEW answer \in {"accepted", "refused", "late", "lost"}, Submit(answer)
      PROVE  ReportInv'
  BY <1>7, SubmitReports DEF ReportInv
<1>8. ASSUME NEW ok \in BOOLEAN, NEW served \in BOOLEAN, Call(ok) \/ Connect(ok, served)
      PROVE  ReportInv'
  <2>1. cmd' = cmd /\ down' = down
    BY <1>8 DEF Call, Connect
  <2> QED
    BY <1>0, <1>8, <2>1, CallReports, SameTruth DEF ReportInv
<1> QED
  BY <1>2, <1>3, <1>4, <1>5, <1>6, <1>7, <1>8 DEF Next, Gateway, Reference, Viewer

(* The receipts under way and the program's place are about the command.   *)
THEOREM ReportInvariant == Spec => []ReportInv
<1>1. Init => ReportInv
  <2> SUFFICES ASSUME Init PROVE ReportInv
    OBVIOUS
  <2>1. TruthInv
    <3>1. down = <<>>
      BY Zenon DEF Init
    <3>2. <<>> \in Seq({})
      OBVIOUS
    <3>3. down \in Seq({}) /\ \A m \in {} : Truthful(m, cmd)
      BY <3>1, <3>2, Zenon
    <3>4. \E S : down \in Seq(S) /\ \A m \in S : Truthful(m, cmd)
      <4> WITNESS {}
      <4> QED
        BY <3>3
    <3> QED
      BY <3>4, Zenon DEF TruthInv
  <2> DEFINE first == IF kind = "viewer" THEN "read" ELSE Head(Calls)
  <2>2. first \in {"read", "open_session"}
    BY DEF Calls
  <2>3. /\ cli = [pc |-> first, exit |-> "no", replica |-> Nothing, meant |-> Nothing,
                  got |-> FALSE, submitted |-> FALSE, applied |-> FALSE, saw |-> FALSE,
                  frames |-> 0, first |-> 0]
        /\ cmd = "none"
    BY DEF Init
  <2> HIDE DEF first
  <2>4. cli \in Programs({Nothing, 0})
    BY <2>2, <2>3 DEF Programs, Places, Exits
  <2>5. Reports(cli, cmd)
    BY <2>2, <2>3, CallsAre DEF Reports
  <2> QED
    BY <2>1, <2>4, <2>5 DEF ReportInv, ProgramInv
<1>2. ReportInv /\ [Next]_vars => ReportInv'
  BY ReportStep
<1> QED
  BY <1>1, <1>2, PTL DEF Spec

(* The exit code of main() is about the command: 0 only when the gateway   *)
(* applied it, the receipt's code only when it was executed and refused,   *)
(* the codes of the calls before it only when it was never sent.           *)
THEOREM ExitCodesTell == Spec => []ExitTellsVerdict
<1>1. ReportInv => ExitTellsVerdict
  BY DEF ReportInv, Reports, ExitTellsVerdict
<1> QED
  BY <1>1, ReportInvariant, PTL

-----------------------------------------------------------------------------
(* Playback.                                                               *)

LEMMA LeastNat ==
    ASSUME NEW S \in SUBSET Nat, S # {}
    PROVE  \E m \in S : \A y \in S : m <= y
<1> DEFINE R == {ss \in Nat \X Nat : ss[1] < ss[2]}
<1>1. IsWellFoundedOn(R, Nat)
  BY NatLessThanWellFounded DEF OpToRel
<1>2. PICK x \in S : \A y \in S : ~(<<y, x>> \in R)
  <2> HIDE DEF R
  <2> QED
    BY <1>1, WFMin
<1>3. \A y \in S : y < x => <<y, x>> \in R
  OBVIOUS
<1> HIDE DEF R
<1>4. \A y \in S : ~(y < x)
  BY <1>2, <1>3
<1> QED
  BY <1>4

LEMMA GreatestIndex ==
    ASSUME NEW n \in Nat, NEW S \in SUBSET (1 .. n), S # {}
    PROVE  \E m \in S : \A y \in S : m >= y
<1> DEFINE T == {n - y : y \in S}
<1>1. T \in SUBSET Nat /\ T # {}
  <2>1. \A y \in S : n - y \in Nat
    OBVIOUS
  <2>2. PICK y \in S : TRUE
    OBVIOUS
  <2>3. n - y \in T
    BY <2>2
  <2> QED
    BY <2>1, <2>3
<1>2. PICK z \in T : \A y \in T : z <= y
  <2> HIDE DEF T
  <2> QED
    BY <1>1, LeastNat
<1>3. PICK m \in S : z = n - m
  OBVIOUS
<1>4. \A y \in S : n - m <= n - y
  BY <1>2, <1>3
<1> QED
  BY <1>4

(* A sequence is one of its own elements.                                  *)
LEMMA OwnElements ==
    ASSUME NEW S, NEW p \in Seq(S)
    PROVE  p \in Seq({p[i] : i \in DOMAIN p})
<1> DEFINE T == {p[i] : i \in DOMAIN p}
<1>1. \A i \in 1 .. Len(p) : p[i] \in T
  OBVIOUS
<1>2. p = [i \in 1 .. Len(p) |-> p[i]] /\ Len(p) \in Nat
  OBVIOUS
<1> HIDE DEF T
<1>3. [i \in 1 .. Len(p) |-> p[i]] \in Seq(T)
  BY <1>1, <1>2
<1>4. p \in Seq(T)
  BY <1>2, <1>3
<1> QED
  BY <1>4 DEF T

(* Messages read, ticks that pass, messages sent.                          *)
LEMMA PlayShorter ==
    ASSUME NEW p, NEW t, NEW n, PlayList(p, t, n), p # <<>>
    PROVE  PlayList(Tail(p), t, n)
<1> DEFINE S == {p[i] : i \in DOMAIN p}
<1>1. p \in Seq(S)
  BY DEF PlayList
<1> HIDE DEF S
<1>2. Tail(p) \in Seq(S) /\ DOMAIN Tail(p) = 1 .. Len(p) - 1 /\ DOMAIN p = 1 .. Len(p) /\ Len(p) \in Nat
      /\ \A i \in 1 .. Len(p) - 1 : Tail(p)[i] = p[i + 1]
  BY <1>1
<1> DEFINE q == Tail(p)
<1> HIDE DEF q
<1>3. q \in Seq({q[i] : i \in DOMAIN q})
  BY <1>2, OwnElements, ZenonT(60) DEF q
<1>4. \A i \in DOMAIN q : i \in Nat /\ i + 1 \in DOMAIN p /\ q[i] = p[i + 1]
  BY <1>2 DEF q
<1>5. \A i \in DOMAIN q : Playable(q[i], t, n)
  BY <1>4 DEF PlayList
<1>6. \A i, j \in DOMAIN q : i < j => i + 1 < j + 1
  BY <1>4
<1>7. \A i, j \in DOMAIN q :
          i < j /\ IsState(q[i]) /\ IsState(q[j]) => q[i].frame.snap < q[j].frame.snap
  BY <1>4, <1>6 DEF PlayList
<1> QED
  BY <1>3, <1>5, <1>7 DEF PlayList, q

(* After its first message, a list is later than that one's tick.          *)
LEMMA PlayedOn ==
    ASSUME NEW p, NEW t \in Nat, NEW n \in Nat, PlayList(p, t, n), p # <<>>, IsState(Head(p))
    PROVE  /\ Head(p).frame.snap \in t + 1 .. n
           /\ PlayList(Tail(p), Head(p).frame.snap, n)
<1> DEFINE S == {p[i] : i \in DOMAIN p}
<1>1. p \in Seq(S)
  BY DEF PlayList
<1> HIDE DEF S
<1> DEFINE q == Tail(p)
           s == Head(p).frame.snap
<1>2. DOMAIN q = 1 .. Len(p) - 1 /\ DOMAIN p = 1 .. Len(p) /\ Len(p) \in Nat \ {0}
      /\ Head(p) = p[1]
      /\ \A i \in 1 .. Len(p) - 1 : q[i] = p[i + 1]
  BY <1>1
<1>3. PlayList(q, t, n)
  BY PlayShorter
<1> HIDE DEF q
<1>4. Playable(p[1], t, n)
  BY <1>2 DEF PlayList
<1>5. s \in t + 1 .. n
  BY <1>2, <1>4 DEF Playable
<1>6. ASSUME NEW i \in DOMAIN q, IsState(q[i])
      PROVE  s < q[i].frame.snap
  <2>1. i \in Nat /\ i + 1 \in DOMAIN p /\ 1 \in DOMAIN p /\ 1 < i + 1 /\ q[i] = p[i + 1]
    BY <1>2
  <2>2. IsState(p[1]) /\ IsState(p[i + 1])
    BY <1>2, <1>6, <2>1
  <2>3. p[1].frame.snap < p[i + 1].frame.snap
    BY <2>1, <2>2 DEF PlayList
  <2> QED
    BY <1>2, <2>1, <2>3
<1>7. ASSUME NEW i \in DOMAIN q
      PROVE  Playable(q[i], s, n)
  <2>1. Playable(q[i], t, n)
    BY <1>3 DEF PlayList
  <2>2. IsState(q[i]) => q[i].frame.snap \in t + 1 .. n /\ s < q[i].frame.snap
    BY <1>6, <2>1 DEF Playable
  <2>3. IsState(q[i]) => q[i].frame.snap \in s + 1 .. n
    <3> HIDE DEF s
    <3> QED
      BY <1>5, <2>2
  <2> QED
    BY <2>1, <2>3 DEF Playable
<1> HIDE DEF s
<1>8. PlayList(q, s, n)
  BY <1>3, <1>7 DEF PlayList
<1> QED
  BY <1>5, <1>8 DEF q, s

LEMMA PlayLater ==
    ASSUME NEW p, NEW t \in Nat, NEW n \in Nat, PlayList(p, t, n)
    PROVE  PlayList(p, t, n + 1)
<1>1. \A i \in DOMAIN p : IsState(p[i]) => p[i].frame.snap \in t + 1 .. n
  BY DEF PlayList, Playable
<1>2. \A i \in DOMAIN p : IsState(p[i]) => p[i].frame.snap \in t + 1 .. n + 1
  BY <1>1
<1>3. \A i \in DOMAIN p : Playable(p[i], t, n + 1)
  BY <1>2 DEF PlayList, Playable
<1> QED
  BY <1>3 DEF PlayList

LEMMA PlayLonger ==
    ASSUME NEW p, NEW t \in Nat, NEW n \in Nat, PlayList(p, t, n), NEW m, Playable(m, t, n),
           \A i \in DOMAIN p : IsState(p[i]) /\ IsState(m) => p[i].frame.snap < m.frame.snap
    PROVE  PlayList(Append(p, m), t, n)
<1> DEFINE S == {p[i] : i \in DOMAIN p}
<1>1. p \in Seq(S)
  BY DEF PlayList
<1> HIDE DEF S
<1> DEFINE q == Append(p, m)
<1>2. /\ q \in Seq(S \cup {m}) /\ DOMAIN q = 1 .. Len(p) + 1 /\ DOMAIN p = 1 .. Len(p)
      /\ Len(p) \in Nat /\ q[Len(p) + 1] = m
      /\ \A i \in 1 .. Len(p) : q[i] = p[i]
  BY <1>1
<1> HIDE DEF q
<1>3. q \in Seq({q[i] : i \in DOMAIN q})
  BY <1>2, OwnElements
<1>4. \A i \in DOMAIN q : (i \in DOMAIN p /\ q[i] = p[i]) \/ (i = Len(p) + 1 /\ q[i] = m)
  BY <1>2
<1>5. \A i \in DOMAIN q : Playable(q[i], t, n)
  BY <1>4 DEF PlayList
<1>6. ASSUME NEW i \in DOMAIN q, NEW j \in DOMAIN q, i < j, IsState(q[i]), IsState(q[j])
      PROVE  q[i].frame.snap < q[j].frame.snap
  <2>1. i \in DOMAIN p /\ q[i] = p[i]
    BY <1>2, <1>6
  <2>2. CASE j \in DOMAIN p /\ q[j] = p[j]
    <3>1. IsState(p[i]) /\ IsState(p[j]) /\ i < j
      BY <1>6, <2>1, <2>2
    <3>2. p[i].frame.snap < p[j].frame.snap
      BY <2>1, <2>2, <3>1 DEF PlayList
    <3> QED
      BY <2>1, <2>2, <3>2
  <2>3. CASE q[j] = m
    BY <1>6, <2>1, <2>3
  <2> QED
    BY <1>4, <2>2, <2>3
<1> QED
  BY <1>3, <1>5, <1>6 DEF PlayList, q

LEMMA PlayQuiet ==
    ASSUME NEW p, NEW t \in Nat, NEW n \in Nat, PlayList(p, t, n), NEW m, ~IsState(m)
    PROVE  PlayList(Append(p, m), t, n)
<1>1. Playable(m, t, n)
  BY DEF Playable
<1> QED
  BY <1>1, PlayLonger

LEMMA PlayFrame ==
    ASSUME NEW p, NEW t \in Nat, NEW n \in Nat, PlayList(p, t, n), NEW m,
           Playable(m, t, n + 1), IsState(m) => m.frame.snap = n + 1
    PROVE  PlayList(Append(p, m), t, n + 1)
<1>1. PlayList(p, t, n + 1)
  BY PlayLater
<1>2. \A i \in DOMAIN p : IsState(p[i]) => p[i].frame.snap \in t + 1 .. n
  BY DEF PlayList, Playable
<1>3. \A i \in DOMAIN p : IsState(p[i]) /\ IsState(m) => p[i].frame.snap < m.frame.snap
  BY <1>2
<1> QED
  BY <1>1, <1>3, PlayLonger

(* retain(): of snapshots newer and newer it keeps the bracket of the time *)
(* to render, and the new one.                                             *)
LEMMA RetainKeeps ==
    ASSUME NEW b, NEW s, NEW first, Buffered(b, first), s.time \in Nat,
           b # <<>> => b[Len(b)].time < s.time,
           b = <<>> => first = s.time
    PROVE  LET r == Retained(b, s)
           IN  Buffered(r, first) /\ r # <<>> /\ r[Len(r)] = s
<1> DEFINE S == {b[i] : i \in DOMAIN b}
<1>0. Delay \in Nat
  BY PlaybackDelay
<1>1. b \in Seq(S)
  BY DEF Buffered
<1> HIDE DEF S
<1> DEFINE all    == Append(b, s)
           n      == Len(all)
           render == s.time - Delay
           keep   == {1} \cup {i \in DOMAIN all : all[i].time <= render}
           k      == CHOOSE i \in keep : \A j \in keep : i >= j
<1>2. ~(b # <<>> /\ s.time <= Last(b).time)
  <2>1. b # <<>> => b[Len(b)].time \in Nat
    BY <1>1 DEF Buffered
  <2> QED
    BY <2>1 DEF Last
<1>3. Retained(b, s) = SubSeq(all, k, n)
  BY <1>2, Zenon DEF Retained
<1>4. /\ all \in Seq(S \cup {s}) /\ DOMAIN all = 1 .. n /\ n = Len(b) + 1 /\ n \in Nat \ {0}
      /\ DOMAIN b = 1 .. Len(b) /\ Len(b) \in Nat
      /\ all[n] = s
      /\ \A i \in 1 .. Len(b) : all[i] = b[i]
      /\ b = <<>> <=> Len(b) = 0
  BY <1>1
<1> HIDE DEF all, n
<1>5. \A i \in 1 .. n : (i \in DOMAIN b /\ all[i] = b[i]) \/ (i = n /\ all[i] = s)
  BY <1>4
<1>6. \A i \in 1 .. n : all[i].time \in Nat
  BY <1>5 DEF Buffered
<1>7. ASSUME NEW i \in 1 .. n, NEW j \in 1 .. n, i < j
      PROVE  all[i].time < all[j].time
  <2>1. i \in DOMAIN b /\ all[i] = b[i] /\ b # <<>>
    BY <1>4, <1>7
  <2>2. CASE j \in DOMAIN b /\ all[j] = b[j]
    BY <1>7, <2>1, <2>2 DEF Buffered
  <2>3. CASE j = n /\ all[j] = s
    <3>1. Len(b) \in DOMAIN b /\ (i = Len(b) \/ i < Len(b))
      BY <1>4, <2>1
    <3>2. b[i].time \in Nat /\ b[Len(b)].time \in Nat
      BY <2>1, <3>1 DEF Buffered
    <3>3. b[i].time <= b[Len(b)].time
      BY <2>1, <3>1, <3>2 DEF Buffered
    <3> QED
      BY <2>1, <2>3, <3>2, <3>3
  <2> QED
    BY <1>5, <2>2, <2>3
<1>8. keep \in SUBSET (1 .. n) /\ keep # {} /\ 1 \in keep
  BY <1>4
<1>9. k \in keep /\ \A j \in keep : k >= j
  <2> HIDE DEF keep
  <2>1. \E i \in keep : \A j \in keep : i >= j
    BY <1>4, <1>8, GreatestIndex
  <2> QED
    BY <2>1, Zenon
<1>10. k \in 1 .. n
  BY <1>8, <1>9
<1>11. k = 1 \/ all[k].time <= render
  <2> HIDE DEF k, render
  <2> QED
    BY <1>9
<1>12. k + 1 \in 1 .. n => all[k + 1].time > render
  <2>1. render \in Int
    BY <1>0
  <2> HIDE DEF k, render
  <2>2. k + 1 \in 1 .. n => k + 1 \notin keep
    <3> HIDE DEF keep
    <3> QED
      BY <1>9, <1>10
  <2> QED
    BY <1>4, <1>6, <2>1, <2>2
<1> DEFINE r == SubSeq(all, k, n)
<1> HIDE DEF k
<1>13. /\ r \in Seq(S \cup {s}) /\ Len(r) = n - k + 1 /\ DOMAIN r = 1 .. n - k + 1
       /\ \A i \in 1 .. n - k + 1 : r[i] = all[k + i - 1]
  <2>1. \A i \in k .. n : all[i] \in S \cup {s}
    BY <1>4, <1>10
  <2> QED
    BY <1>4, <1>10, <2>1, SubSeqProperties
<1> HIDE DEF r
<1> DEFINE l == n - k + 1
<1>14. l \in Nat \ {0} /\ Len(r) = l /\ DOMAIN r = 1 .. l
  BY <1>4, <1>10, <1>13
<1>15. \A i \in 1 .. l : k + i - 1 \in 1 .. n /\ r[i] = all[k + i - 1]
  BY <1>4, <1>10, <1>13
<1>16. r[l] = s /\ r # <<>>
  <2>1. l \in 1 .. l /\ k + l - 1 = n
    BY <1>4, <1>10, <1>14
  <2>2. r[l] = s
    BY <1>4, <1>15, <2>1
  <2> QED
    BY <1>14, <2>2
<1>17. r \in Seq({r[i] : i \in DOMAIN r})
  BY <1>13, OwnElements
<1>18. \A i \in DOMAIN r : r[i].time \in Nat
  BY <1>6, <1>14, <1>15
<1>19. ASSUME NEW i \in DOMAIN r, NEW j \in DOMAIN r, i < j
       PROVE  r[i].time < r[j].time
  <2>1. i \in 1 .. l /\ j \in 1 .. l /\ k + i - 1 < k + j - 1
    BY <1>10, <1>14, <1>19
  <2> QED
    BY <1>7, <1>15, <2>1
<1>20. r[1].time = first \/ r[1].time <= render
  <2>1. r[1] = all[k]
    <3>1. 1 \in 1 .. l /\ k + 1 - 1 = k
      BY <1>10, <1>14
    <3> QED
      BY <1>15, <3>1
  <2>2. CASE all[k].time <= render
    BY <2>1, <2>2
  <2>3. CASE k = 1 /\ b = <<>>
    BY <1>4, <2>1, <2>3
  <2>4. CASE k = 1 /\ b # <<>>
    <3>1. all[1] = b[1] /\ Len(b) \in DOMAIN b /\ 1 \in DOMAIN b
      BY <1>4, <2>4
    <3>2. b[1].time = first \/ b[1].time <= b[Len(b)].time - Delay
      BY <2>4, Zenon DEF Buffered
    <3>3. b[1].time \in Nat /\ b[Len(b)].time \in Nat
      BY <3>1 DEF Buffered
    <3>4. b[1].time = first \/ b[1].time <= render
      BY <1>0, <2>4, <3>2, <3>3, SMTT(60)
    <3> QED
      BY <2>1, <2>4, <3>1, <3>4
  <2> QED
    BY <1>11, <2>2, <2>3, <2>4
<1>21. Len(r) > 1 => r[2].time > render
  <2> HIDE DEF render
  <2>1. Len(r) > 1 => 2 \in 1 .. l /\ k + 2 - 1 = k + 1 /\ k + 1 \in 1 .. n
    BY <1>10, <1>14, <1>4
  <2> QED
    BY <1>12, <1>15, <2>1
<1>22. Buffered(r, first)
  <2>1. r[Len(r)].time - Delay = render
    BY <1>14, <1>16
  <2> HIDE DEF render
  <2> QED
    BY <1>17, <1>18, <1>19, <1>20, <1>21, <2>1 DEF Buffered
<1> QED
  BY <1>3, <1>14, <1>16, <1>22 DEF r

(* observe(): the positions of the newest snapshot are those of the        *)
(* entities that the frames meant.                                         *)
LEMMA PutPositions ==
    ASSUME NEW r, NEW es
    PROVE  Positions(Put(r, es)) = Put(Positions(r), Positions(es))
BY DEF Positions, Put

LEMMA ObservedIsMeant ==
    ASSUME NEW f, NEW held, NEW last, HasValues(f.enters), HasValues(f.updates),
           f.kind = "keyframe" => DOMAIN f.updates = {} /\ last = Nothing,
           f.kind # "keyframe" => last = Positions(held)
    PROVE  LET w    == ToWireFrame(f)
               left == Restrict(last, DOMAIN last \ w.leaves)
           IN  Put(Put(left, Positions(w.enters)), Positions(w.updates)) = Positions(Meant(held, f))
<1> DEFINE g == ToWireFrame(f)
<1>1. /\ g.kind = f.kind /\ g.leaves = f.leaves
      /\ DOMAIN g.enters = DOMAIN f.enters /\ DOMAIN g.updates = DOMAIN f.updates
      /\ \A w \in DOMAIN f.enters : g.enters[w] = ToWireEntity(f.enters[w])
      /\ \A w \in DOMAIN f.updates : g.updates[w] = ToWireEntity(f.updates[w])
  BY WireParts
<1> HIDE DEF g
<1>2. \A e : DOMAIN e = Fields \cup {"attrs"} => ToWireEntity(e).val = e.val
  BY DEF ToWireEntity, Fields
<1>3. Positions(g.enters) = Positions(f.enters)
  <2>1. \A w \in DOMAIN f.enters : g.enters[w].val = f.enters[w].val
    BY <1>1, <1>2 DEF HasValues
  <2> QED
    BY <1>1, <2>1 DEF Positions
<1>4. Positions(g.updates) = Positions(f.updates)
  <2>1. \A w \in DOMAIN f.updates : g.updates[w].val = f.updates[w].val
    BY <1>1, <1>2 DEF HasValues
  <2> QED
    BY <1>1, <2>1 DEF Positions
<1> DEFINE left == Restrict(last, DOMAIN last \ f.leaves)
<1>5. Put(Put(left, Positions(f.enters)), Positions(f.updates)) = Positions(Meant(held, f))
  <2>1. CASE f.kind = "keyframe"
    <3>1. DOMAIN Positions(f.updates) = {} /\ DOMAIN left = {}
      BY <2>1 DEF Positions, Restrict, Nothing
    <3>2. Positions(Meant(held, f)) = Positions(f.enters)
      BY <2>1 DEF Meant
    <3> DEFINE pe == Positions(f.enters)
               pu == Positions(f.updates)
    <3>3. pe = [w \in DOMAIN pe |-> pe[w]]
      BY DEF Positions
    <3> HIDE DEF pe, pu, left
    <3>4. Put(left, pe) = pe
      BY <3>1, <3>3 DEF Put
    <3>5. Put(pe, pu) = pe
      BY <3>1, <3>3 DEF Put, pu
    <3> QED
      BY <3>2, <3>4, <3>5 DEF pe, pu
  <2>2. CASE f.kind # "keyframe"
    <3> DEFINE rh == Restrict(held, DOMAIN held \ f.leaves)
    <3>1. Meant(held, f) = Put(Put(rh, f.enters), f.updates)
      BY <2>2 DEF Meant
    <3>2. left = Positions(rh)
      BY <2>2 DEF Restrict, Positions
    <3> HIDE DEF rh, left
    <3> QED
      BY <3>1, <3>2, PutPositions
  <2> QED
    BY <2>1, <2>2
<1> QED
  BY <1>1, <1>3, <1>4, <1>5 DEF g

(* What a command or a system leaves has values.                           *)
LEMMA EditedHasValues ==
    ASSUME HasValues(world), NEW edit \in Edits, NEW w
    PROVE  HasValues(Edited(Executed, edit, w))
<1>1. \A e : DOMAIN Touched(e) = DOMAIN e
  BY DEF Touched
<1>2. DOMAIN Plain = Fields \cup {"attrs"}
  BY DEF Plain, Fields
<1> DEFINE now == Executed
<1>3. HasValues(now)
  <2>1. now = world \/ now = [world EXCEPT ![Target] = Touched(world[Target])]
    BY DEF Executed
  <2> HIDE DEF now
  <2>2. CASE now = world
    BY <2>2
  <2>3. CASE now = [world EXCEPT ![Target] = Touched(world[Target])]
    <3>1. DOMAIN now = DOMAIN world
          /\ \A v \in DOMAIN world : now[v] = IF v = Target THEN Touched(world[Target]) ELSE world[v]
      BY <2>3
    <3> QED
      BY <1>1, <3>1 DEF HasValues
  <2> QED
    BY <2>1, <2>2, <2>3
<1> HIDE DEF now
<1> DEFINE new == Edited(now, edit, w)
<1>4. edit \in {"none", "create", "destroy", "touch", "bag", "text", "relate"}
  BY DEF Edits
<1>5. ASSUME edit = "none" PROVE HasValues(new)
  BY <1>3, <1>5 DEF Edited
<1>6. ASSUME edit = "create" PROVE HasValues(new)
  <2>1. new = [v \in DOMAIN now \cup {w} |-> IF v = w THEN Plain ELSE now[v]]
    BY <1>6 DEF Edited
  <2> HIDE DEF new
  <2>2. DOMAIN new = DOMAIN now \cup {w}
        /\ \A v \in DOMAIN new : new[v] = Plain \/ (v \in DOMAIN now /\ new[v] = now[v])
    BY <2>1
  <2> QED
    BY <1>2, <1>3, <2>2 DEF HasValues
<1>7. ASSUME edit = "destroy" PROVE HasValues(new)
  <2>1. new = Restrict(now, DOMAIN now \ {w})
    BY <1>7 DEF Edited
  <2> HIDE DEF new
  <2>2. DOMAIN new \subseteq DOMAIN now /\ \A v \in DOMAIN new : new[v] = now[v]
    BY <2>1 DEF Restrict
  <2> QED
    BY <1>3, <2>2 DEF HasValues
<1>8. ASSUME edit \notin {"none", "create", "destroy"}
      PROVE  HasValues(new)
  <2>1. new = [now EXCEPT ![w] = new[w]] /\ (w \in DOMAIN now => DOMAIN new[w] = DOMAIN now[w])
    <3>1. CASE edit = "touch"
      <4>1. new = [now EXCEPT ![w] = Touched(now[w])]
        BY <3>1 DEF Edited
      <4> HIDE DEF new
      <4> QED
        BY <4>1 DEF Touched
    <3>2. CASE edit = "bag"
      <4>1. new = [now EXCEPT ![w].props = @ + 1, ![w].ver = 2]
        BY <3>2 DEF Edited
      <4> HIDE DEF new
      <4> QED
        BY <4>1
    <3>3. CASE edit = "text"
      <4>1. new = [now EXCEPT ![w].text = 2, ![w].ver = 2]
        BY <3>3 DEF Edited
      <4> HIDE DEF new
      <4> QED
        BY <4>1
    <3>4. CASE edit = "relate"
      <4>1. new = [now EXCEPT ![w].rels = 1, ![w].attrs = TRUE]
        BY <3>4 DEF Edited
      <4> HIDE DEF new
      <4> QED
        BY <4>1
    <3> QED
      BY <1>4, <1>8, <3>1, <3>2, <3>3, <3>4
  <2> HIDE DEF new
  <2>2. DOMAIN new = DOMAIN now /\ \A v \in DOMAIN now : v # w => new[v] = now[v]
    BY <2>1
  <2>3. \A v \in DOMAIN now : DOMAIN new[v] = DOMAIN now[v]
    BY <2>1, <2>2
  <2> QED
    BY <1>3, <2>2, <2>3 DEF HasValues
<1> QED
  BY <1>4, <1>5, <1>6, <1>7, <1>8 DEF now

(* A frame of the gateway.                                                 *)
LEMMA FramePlays ==
    ASSUME NEW now, HasValues(now), NEW key, srv.tick \in Nat, NEW t \in 0 .. srv.tick
    PROVE  LET m == Message(StateFrame(now, key))
           IN  Playable(m, t, srv.tick + 1) /\ m.frame.snap = srv.tick + 1
<1> DEFINE f == StateFrame(now, key)
           m == Message(f)
<1>1. f.kind \in StateKinds /\ f.snap = srv.tick + 1 /\ (f.kind = "keyframe" => key)
  BY DEF StateFrame, StateKinds
<1>2. HasValues(f.enters)
  BY DEF StateFrame, Restrict, HasValues
<1>3. HasValues(f.updates)
  BY DEF StateFrame, Restrict, HasValues
<1>4. key => DOMAIN f.updates = {}
  BY DEF StateFrame, Restrict, Nothing
<1>5. m.frame = f
  BY DEF Message
<1> HIDE DEF f
<1>6. IsState(m) => m.bytes.body = ToWireFrame(f)
  <2>1. m.bytes = EncodeServerFrame(ToWireFrame(f))
    BY <1>1, <1>2, <1>3, DirectEncoderIsTheOther DEF Message
  <2> DEFINE g == ToWireFrame(f)
  <2>2. g.kind \in StateKinds
    BY <1>1, WireParts
  <2> HIDE DEF g
  <2>3. EncodeServerFrame(g) = NoBytes \/ EncodeServerFrame(g) = Finished("GWSF", FrameSize(g), g)
    BY <2>2 DEF EncodeServerFrame, StateKinds
  <2>4. NoBytes.body.kind = "none" /\ Finished("GWSF", FrameSize(g), g).body = g
    BY DEF NoBytes, Finished
  <2> HIDE DEF m
  <2> QED
    BY <2>1, <2>3, <2>4 DEF g, IsState
<1> HIDE DEF m
<1>7. Playable(m, t, srv.tick + 1)
  <2>1. srv.tick + 1 \in t + 1 .. srv.tick + 1
    OBVIOUS
  <2> QED
    BY <1>1, <1>2, <1>3, <1>4, <1>5, <1>6, <2>1 DEF Playable
<1> QED
  BY <1>1, <1>5, <1>7 DEF m, f

(* The others are no state frames.                                         *)
LEMMA ReliableIsQuiet ==
    /\ ~IsState(Reliable(Receipt))
    /\ ~IsState(Reliable(EncodeHeartbeat))
    /\ \A code : ~IsState(Reliable(EncodeProtocolError(code)))
<1>1. ASSUME NEW f, f.kind \in {"receipt", "error", "heartbeat"}
      PROVE  ~IsState(Reliable(EncodeServerFrame(f)))
  <2>1. EncodeServerFrame(f) = NoBytes \/ EncodeServerFrame(f) = Finished("GWSF", FrameSize(f), f)
    BY <1>1 DEF EncodeServerFrame
  <2>2. NoBytes.body.kind = "none" /\ Finished("GWSF", FrameSize(f), f).body = f
    BY DEF NoBytes, Finished
  <2>3. \A b : Reliable(b).bytes = b
    BY DEF Reliable
  <2> QED
    BY <1>1, <2>1, <2>2, <2>3 DEF IsState
<1>2. \A status : ~IsState(Reliable(EncodeReceipt(status)))
  BY <1>1 DEF EncodeReceipt
<1>3. ~IsState(Reliable(Receipt))
  BY <1>2 DEF Receipt
<1>4. ~IsState(Reliable(EncodeHeartbeat))
  BY <1>1 DEF EncodeHeartbeat
<1>5. \A code : ~IsState(Reliable(EncodeProtocolError(code)))
  BY <1>1 DEF EncodeProtocolError
<1> QED
  BY <1>3, <1>4, <1>5

LEMMA NothingSent ==
    ASSUME NEW p, NEW t, NEW n, PlayList(p, t, n)
    PROVE  p \o <<>> = p
<1> DEFINE S == {p[i] : i \in DOMAIN p}
<1>1. p \in Seq(S)
  BY DEF PlayList
<1> HIDE DEF S
<1> QED
  BY <1>1

(* A round of the daemon: one frame at most, of the new tick.              *)
LEMMA TickPlays ==
    ASSUME PlaybackInv, NEW edit \in Edits, NEW w, NEW key,
           Tick(edit, w, key)
    PROVE  PlaybackInv'
<1> DEFINE now   == Edited(Executed, edit, w)
           frame == StateFrame(now, key \/ srv.key)
           state == srv.attached /\ (key \/ srv.key \/ Changes(frame) > 0)
           first == IF Verdict # cmd THEN <<Reliable(Receipt)>> ELSE <<>>
           beat  == ~state /\ srv.attached /\ srv.tick + 1 - srv.beat >= HeartbeatTicks
           alive == IF beat THEN <<Reliable(EncodeHeartbeat)>> ELSE <<>>
           last  == IF state THEN <<Message(frame)>> ELSE <<>>
           t     == Newest(buf)
           n     == srv.tick
<1>1. /\ DOMAIN srv = {"tick", "attached", "base", "view", "unacked", "key", "beat", "edits"}
      /\ n \in Nat /\ t \in 0 .. n /\ t \in Nat
      /\ HasValues(world) /\ PlayList(down, t, n)
  <2>1. n \in Nat /\ t \in 0 .. n
    BY Zenon DEF PlaybackInv
  <2> HIDE DEF n, t
  <2>2. t \in Nat
    BY <2>1
  <2> QED
    BY <2>1, <2>2, Zenon DEF PlaybackInv, n, t
<1>2. down' = IF ~srv.attached THEN down ELSE down \o first \o alive \o last
  BY Zenon DEF Tick
<1>3. /\ world' = now
      /\ kind' = kind /\ cli' = cli /\ buf' = buf
      /\ srv' = [srv EXCEPT
                   !.tick = @ + 1, !.key = @ /\ ~state,
                   !.beat = IF beat THEN srv.tick + 1 ELSE @,
                   !.edits = IF edit = "none" THEN @ ELSE @ + 1,
                   !.unacked = IF state THEN Append(@, [snap |-> frame.snap, view |-> now]) ELSE @]
  BY Zenon DEF Tick
<1>4. HasValues(now)
  BY <1>1, EditedHasValues
<1>5. Playable(Message(frame), t, n + 1) /\ Message(frame).frame.snap = n + 1
  <2> HIDE DEF now
  <2> QED
    BY <1>1, <1>4, FramePlays
<1> HIDE DEF now
<1>6. srv'.tick = n + 1 /\ DOMAIN srv' = DOMAIN srv
  <2> HIDE DEF frame, state, beat
  <2> QED
    BY <1>1, <1>3
<1> DEFINE m == Message(frame)
<1> HIDE DEF frame, m
<1>7. PlayList(down', t, n + 1)
  <2>1. PlayList(down, t, n + 1)
    BY <1>1, PlayLater
  <2>2. ASSUME NEW p, PlayList(p, t, n)
        PROVE  p \in Seq({p[i] : i \in DOMAIN p})
    BY <2>2 DEF PlayList
  <2> DEFINE d1 == down \o first
             d2 == d1 \o alive
  <2> HIDE DEF state, beat
  <2>3. PlayList(d1, t, n)
    <3>1. CASE first = <<>>
      <4>1. d1 = down
        BY <1>1, <3>1, NothingSent
      <4> QED
        BY <1>1, <4>1
    <3>2. CASE first = <<Reliable(Receipt)>>
      <4>1. d1 = Append(down, Reliable(Receipt))
        BY <1>1, <2>2, <3>2
      <4> HIDE DEF d1
      <4> QED
        BY <1>1, <4>1, PlayQuiet, ReliableIsQuiet
    <3> QED
      BY <3>1, <3>2
  <2> HIDE DEF d1, first
  <2>4. PlayList(d2, t, n)
    <3>1. CASE alive = <<>>
      <4>1. d2 = d1
        BY <2>3, <3>1, NothingSent
      <4> QED
        BY <2>3, <4>1
    <3>2. CASE alive = <<Reliable(EncodeHeartbeat)>>
      <4>1. d2 = Append(d1, Reliable(EncodeHeartbeat))
        BY <2>2, <2>3, <3>2
      <4> HIDE DEF d2
      <4> QED
        BY <1>1, <2>3, <4>1, PlayQuiet, ReliableIsQuiet
    <3> QED
      BY <3>1, <3>2
  <2> HIDE DEF d2, alive
  <2>5. PlayList(d2 \o last, t, n + 1)
    <3>1. CASE last = <<>>
      <4>1. d2 \o last = d2
        BY <2>4, <3>1, NothingSent
      <4> QED
        BY <1>1, <2>4, <4>1, PlayLater
    <3>2. CASE last = <<m>>
      <4>1. d2 \o last = Append(d2, m)
        BY <2>2, <2>4, <3>2
      <4> QED
        BY <1>1, <1>5, <2>4, <4>1, PlayFrame DEF m
    <3> QED
      BY <3>1, <3>2 DEF m
  <2> QED
    BY <1>2, <2>1, <2>5 DEF d1, d2
<1>8. Newest(buf') = t
  BY <1>3
<1>9. t \in 0 .. n + 1
  <2> HIDE DEF t, n
  <2> QED
    BY <1>1
<1> HIDE DEF t, n, state, beat
<1>10. HasValues(world')
  BY <1>3, <1>4
<1>11. Newest(buf') \in 0 .. srv'.tick /\ srv'.tick \in Nat
  BY <1>1, <1>6, <1>8, <1>9
<1>12. PlayList(down', Newest(buf'), srv'.tick)
  BY <1>6, <1>7, <1>8
<1>13. Buffered(buf', cli'.first)
  BY <1>3 DEF PlaybackInv
<1> QED
  BY <1>1, <1>3, <1>6, <1>10, <1>11, <1>12, <1>13 DEF PlaybackInv

(* Steps that leave the buffer alone.                                      *)
LEMMA QuietPlays ==
    ASSUME PlaybackInv, DOMAIN srv' = DOMAIN srv, srv'.tick = srv.tick,
           kind' = kind, world' = world, buf' = buf,
           kind = "viewer" => cli'.meant = cli.meant /\ cli'.first = cli.first,
           PlayList(down', Newest(buf), srv.tick)
    PROVE  PlaybackInv'
<1>1. CASE kind = "viewer"
  BY <1>1 DEF PlaybackInv
<1>2. CASE kind # "viewer"
  <2>1. buf = <<>> /\ buf' = <<>>
    BY <1>2 DEF PlaybackInv
  <2>2. Buffered(buf, cli.first)
    BY DEF PlaybackInv
  <2>3. Buffered(buf', cli'.first)
    BY <2>1, <2>2, Zenon DEF Buffered
  <2> QED
    BY <1>2, <2>1, <2>3 DEF PlaybackInv
<1> QED
  BY <1>1, <1>2

LEMMA PlayKept ==
    ASSUME PlaybackInv, down' = down \/ (down # <<>> /\ down' = Tail(down))
    PROVE  PlayList(down', Newest(buf), srv.tick)
<1>1. PlayList(down, Newest(buf), srv.tick)
  BY DEF PlaybackInv
<1> QED
  BY <1>1, PlayShorter

LEMMA ServerReadsPlays ==
    ASSUME PlaybackInv, ServerReads
    PROVE  PlaybackInv'
<1>1. /\ DOMAIN srv = {"tick", "attached", "base", "view", "unacked", "key", "beat", "edits"}
      /\ srv.tick \in Nat /\ Newest(buf) \in 0 .. srv.tick /\ PlayList(down, Newest(buf), srv.tick)
  BY Zenon DEF PlaybackInv
<1>2. kind' = kind /\ world' = world /\ buf' = buf /\ cli' = cli
  BY DEF ServerReads
<1>3. DOMAIN srv' = DOMAIN srv /\ srv'.tick = srv.tick
  <2> DEFINE c == Head(up).body
             u == (CHOOSE u \in Range(srv.unacked) : u.snap = c.snap).view
             l == SelectSeq(srv.unacked, LAMBDA v : v.snap > c.snap)
  <2>1. \/ srv' = srv
        \/ srv' = [srv EXCEPT !.attached = FALSE]
        \/ srv' = [srv EXCEPT !.key = TRUE]
        \/ srv' = [srv EXCEPT !.base = c.snap, !.view = u, !.unacked = l]
    BY DEF ServerReads
  <2> HIDE DEF c, u, l
  <2> QED
    BY <1>1, <2>1
<1>4. PlayList(down', Newest(buf), srv.tick)
  <2>1. down' = down \/ \E code : down' = Append(down, Reliable(EncodeProtocolError(code)))
    BY DEF ServerReads
  <2>2. PICK code : down' = down \/ down' = Append(down, Reliable(EncodeProtocolError(code)))
    BY <2>1
  <2>3. Newest(buf) \in Nat
    <3> DEFINE t == Newest(buf)
    <3>1. t \in 0 .. srv.tick
      BY <1>1
    <3> HIDE DEF t
    <3>2. t \in Nat
      BY <3>1
    <3> QED
      BY <3>2 DEF t
  <2> QED
    BY <1>1, <2>2, <2>3, PlayQuiet, ReliableIsQuiet
<1> QED
  BY <1>2, <1>3, <1>4, QuietPlays

(* The viewer reads.                                                       *)
LEMMA ViewPlays ==
    ASSUME PlaybackInv, ProgramInv, View
    PROVE  PlaybackInv'
<1> DEFINE m == Head(down)
           f == m.bytes.body
           t == Newest(buf)
           n == srv.tick
<1>1. /\ DOMAIN srv = {"tick", "attached", "base", "view", "unacked", "key", "beat", "edits"}
      /\ n \in Nat /\ t \in 0 .. n /\ PlayList(down, t, n) /\ HasValues(world)
  BY Zenon DEF PlaybackInv
<1>2. t \in Nat
  <2> HIDE DEF t, n
  <2> QED
    BY <1>1
<1>3. kind = "viewer" /\ kind' = kind /\ world' = world /\ srv' = srv
      /\ down # <<>> /\ down' = Tail(down)
  BY DEF View
<1>4. {"meant", "first", "pc", "exit"} \subseteq DOMAIN cli
  BY DEF ProgramInv, Programs
<1>5. CASE ~(f.kind \in StateKinds /\ DecodeServerFrame(m.bytes) = "")
  <2>1. buf' = buf /\ (cli' = cli \/ cli' = Ended("stream"))
    BY <1>5 DEF View, StateKinds
  <2>2. cli'.meant = cli.meant /\ cli'.first = cli.first
    BY <1>4, <2>1 DEF Ended
  <2>3. PlayList(down', Newest(buf), srv.tick)
    BY <1>3, PlayKept
  <2> QED
    BY <1>3, <2>1, <2>2, <2>3, QuietPlays
<1>6. CASE f.kind \in StateKinds /\ DecodeServerFrame(m.bytes) = ""
  <2>1. cli' = Held(m.frame, f) /\ buf' = Observed(buf, f)
    BY <1>6 DEF View, StateKinds
  <2>2. IsState(m)
    BY <1>6 DEF IsState, StateKinds
  <2> DEFINE s == m.frame.snap
  <2>3. s \in t + 1 .. n /\ PlayList(down', s, n)
    <3> HIDE DEF t, n
    <3> QED
      BY <1>1, <1>2, <1>3, <2>2, PlayedOn
  <2>4. Playable(m, t, n)
    <3>1. PlayList(down, t, n)
      BY <1>1
    <3> DEFINE S == {down[i] : i \in DOMAIN down}
    <3>2. down \in Seq(S)
      BY <3>1 DEF PlayList
    <3> HIDE DEF S
    <3>3. 1 \in DOMAIN down /\ Head(down) = down[1]
      BY <1>3, <3>2
    <3> QED
      BY <3>1, <3>3 DEF PlayList
  <2> DEFINE g == m.frame
  <2>5. /\ f = ToWireFrame(g) /\ (g.kind = "keyframe" => DOMAIN g.updates = {})
        /\ HasValues(g.enters) /\ HasValues(g.updates)
    BY <2>2, <2>4 DEF Playable
  <2>6. f.kind = g.kind /\ f.snap = s /\ f.leaves = g.leaves
    BY <2>5 DEF ToWireFrame
  <2>7. /\ cli'.meant = Meant(cli.meant, g)
        /\ cli'.first = IF cli.first = 0 THEN s ELSE cli.first
    <3> DEFINE x == Applied(cli.replica, f)
               y == Meant(cli.meant, g)
               b1 == cli.got \/ g.kind = "keyframe"
               b2 == cli.saw \/ Target \in DOMAIN g.updates
               z == IF cli.first = 0 THEN s ELSE cli.first
    <3>1. cli' = [cli EXCEPT !.replica = x, !.meant = y, !.got = b1, !.saw = b2, !.first = z]
      BY <2>1 DEF Held
    <3> HIDE DEF x, y, b1, b2, z
    <3>2. cli'.meant = y /\ cli'.first = z
      BY <1>4, <3>1
    <3> QED
      BY <3>2 DEF y, z
  <2>8. /\ Buffered(buf, cli.first)
        /\ buf = <<>> => cli.meant = Nothing /\ cli.first = 0
        /\ buf # <<>> => cli.first \in Nat \ {0} /\ buf[Len(buf)].pos = Positions(cli.meant)
    BY <1>3 DEF PlaybackInv
  <2> DEFINE last == IF f.kind = "keyframe" \/ buf = <<>> THEN Nothing ELSE Last(buf).pos
             left == Restrict(last, DOMAIN last \ f.leaves)
             pos  == Put(Put(left, Positions(f.enters)), Positions(f.updates))
             new  == [time |-> f.snap, pos |-> pos]
  <2>9. buf' = Retained(buf, new)
    BY <2>1, Zenon DEF Observed
  <2>10. pos = Positions(cli'.meant)
    <3>1. g.kind = "keyframe" => last = Nothing
      BY <2>6
    <3>2. g.kind # "keyframe" => last = Positions(cli.meant)
      <4>1. CASE buf = <<>>
        <5>1. Positions(Nothing) = Nothing
          BY DEF Positions, Nothing
        <5> QED
          BY <2>8, <4>1, <5>1
      <4>2. CASE buf # <<>>
        BY <2>6, <2>8, <4>2 DEF Last
      <4> QED
        BY <4>1, <4>2
    <3> HIDE DEF last, g, f
    <3>3. LET w == ToWireFrame(g)
              k == Restrict(last, DOMAIN last \ w.leaves)
          IN  Put(Put(k, Positions(w.enters)), Positions(w.updates)) = Positions(Meant(cli.meant, g))
      BY <2>5, <3>1, <3>2, ObservedIsMeant
    <3> QED
      BY <2>5, <2>7, <3>3
  <2>11. s \in Nat \ {0} /\ s > t /\ s \in 0 .. n
    <3> HIDE DEF s, t, n
    <3> QED
      BY <1>1, <1>2, <2>3
  <2>12. new.time = s /\ new.pos = Positions(cli'.meant)
    BY <2>6, <2>10
  <2> HIDE DEF new, pos, s, n
  <2>13. cli'.first \in Nat \ {0} /\ (buf # <<>> => cli'.first = cli.first)
         /\ (buf = <<>> => cli'.first = s)
    BY <2>7, <2>8, <2>11
  <2>14. Buffered(buf, cli'.first)
    <3>1. CASE buf = <<>>
      BY <2>8, <3>1, Zenon DEF Buffered
    <3>2. CASE buf # <<>>
      BY <2>8, <2>13, <3>2
    <3> QED
      BY <3>1, <3>2
  <2>15. buf # <<>> => buf[Len(buf)].time < new.time
    BY <2>11, <2>12 DEF Newest
  <2>16. buf = <<>> => cli'.first = new.time
    BY <2>12, <2>13
  <2>17. new.time \in Nat
    BY <2>11, <2>12
  <2>18. Buffered(buf', cli'.first) /\ buf' # <<>> /\ buf'[Len(buf')] = new
    BY <2>9, <2>14, <2>15, <2>16, <2>17, RetainKeeps
  <2>19. Newest(buf') = s
    BY <2>12, <2>18 DEF Newest
  <2>20. PlayList(down', Newest(buf'), srv'.tick) /\ Newest(buf') \in 0 .. srv'.tick
    BY <1>3, <2>3, <2>11, <2>19 DEF n
  <2>21. buf'[Len(buf')].pos = Positions(cli'.meant)
    BY <2>12, <2>18
  <2> QED
    BY <1>1, <1>3, <2>13, <2>18, <2>20, <2>21, Zenon DEF PlaybackInv, n
<1> QED
  BY <1>5, <1>6
LEMMA PlaybackStep ==
    ASSUME PlaybackInv, ProgramInv, [Next]_vars
    PROVE  PlaybackInv'
<1>1. srv.tick \in Nat
      /\ DOMAIN srv = {"tick", "attached", "base", "view", "unacked", "key", "beat", "edits"}
  BY DEF PlaybackInv
<1>2. ASSUME NEW edit \in Edits, NEW w \in Changing, NEW key \in BOOLEAN, Tick(edit, w, key)
      PROVE  PlaybackInv'
  BY <1>2, TickPlays
<1>3. CASE ServerReads
  BY <1>3, ServerReadsPlays
<1>4. CASE View
  BY <1>4, ViewPlays
<1>5. CASE ServerCloses
  <2>1. kind' = kind /\ world' = world /\ buf' = buf /\ cli' = cli /\ down' = down
        /\ srv' = [srv EXCEPT !.attached = FALSE]
    BY <1>5 DEF ServerCloses
  <2>2. DOMAIN srv' = DOMAIN srv /\ srv'.tick = srv.tick
    BY <1>1, <2>1
  <2>3. PlayList(down', Newest(buf), srv.tick)
    BY <2>1, PlayKept
  <2> QED
    BY <2>1, <2>2, <2>3, QuietPlays
<1>6. CASE Reference
  <2>1. CASE kind = "reference"
    <3>1. kind' = kind /\ world' = world /\ buf' = buf
      BY <1>6 DEF Reference, Call, Connect, Submit, Read, ReadFails
    <3>2. srv' = srv \/ srv' = [srv EXCEPT !.attached = TRUE, !.key = TRUE]
      BY <1>6 DEF Reference, Call, Connect, Submit, Read, ReadFails
    <3>3. DOMAIN srv' = DOMAIN srv /\ srv'.tick = srv.tick
      BY <1>1, <3>2
    <3>4. down' = down \/ (down # <<>> /\ down' = Tail(down))
      BY <1>6 DEF Reference, Call, Connect, Submit, Read, ReadFails
    <3>5. PlayList(down', Newest(buf), srv.tick)
      BY <3>4, PlayKept
    <3> QED
      BY <2>1, <3>1, <3>3, <3>5, QuietPlays
  <2>2. CASE kind # "reference"
    <3>1. ReadFails
      BY <1>6, <2>2 DEF Reference, Call, Connect, Submit, Read
    <3>2. kind' = kind /\ world' = world /\ buf' = buf /\ srv' = srv /\ down' = down
          /\ cli' = Ended("stream")
      BY <3>1 DEF ReadFails
    <3>3. {"meant", "first", "pc", "exit"} \subseteq DOMAIN cli
      BY DEF ProgramInv, Programs
    <3>4. cli'.meant = cli.meant /\ cli'.first = cli.first
      BY <3>2, <3>3 DEF Ended
    <3>5. PlayList(down', Newest(buf), srv.tick)
      BY <3>2, PlayKept
    <3> QED
      BY <3>2, <3>4, <3>5, QuietPlays
  <2> QED
    BY <2>1, <2>2
<1>7. ASSUME NEW n \in 1 .. 2, RequestKeyframe(n)
      PROVE  PlaybackInv'
  <2>1. kind' = kind /\ world' = world /\ buf' = buf /\ srv' = srv /\ down' = down
        /\ cli' = [cli EXCEPT !.frames = @ + 1]
    BY <1>7 DEF RequestKeyframe
  <2>2. {"meant", "first", "frames"} \subseteq DOMAIN cli
    BY DEF ProgramInv, Programs
  <2>3. cli'.meant = cli.meant /\ cli'.first = cli.first
    BY <2>1, <2>2
  <2>4. PlayList(down', Newest(buf), srv.tick)
    BY <2>1, PlayKept
  <2> QED
    BY <2>1, <2>3, <2>4, QuietPlays
<1>8. CASE Thin
  <2>1. kind' = kind /\ world' = world /\ buf' = buf /\ cli' = cli
    BY <1>8 DEF Thin, ThinConnect, ThinRead, ThinReadFails, ThinWritten, Pause, Resume, Kick,
                SetStopping, ThinOnly
  <2>2. srv' = srv \/ srv' = [srv EXCEPT !.attached = TRUE, !.key = TRUE]
    BY <1>8 DEF Thin, ThinConnect, ThinRead, ThinReadFails, ThinWritten, Pause, Resume, Kick,
                SetStopping
  <2>3. DOMAIN srv' = DOMAIN srv /\ srv'.tick = srv.tick
    BY <1>1, <2>2
  <2>4. down' = down \/ (down # <<>> /\ down' = Tail(down))
    BY <1>8 DEF Thin, ThinConnect, ThinRead, ThinReadFails, ThinWritten, Pause, Resume, Kick,
                SetStopping
  <2>5. PlayList(down', Newest(buf), srv.tick)
    BY <2>4, PlayKept
  <2> QED
    BY <2>1, <2>3, <2>5, QuietPlays
<1>9. CASE UNCHANGED vars
  <2>1. kind' = kind /\ world' = world /\ buf' = buf /\ cli' = cli /\ srv' = srv /\ down' = down
    BY <1>9 DEF vars
  <2>2. PlayList(down', Newest(buf), srv.tick)
    BY <2>1, PlayKept
  <2> QED
    BY <2>1, <2>2, QuietPlays
<1> QED
  BY <1>2, <1>3, <1>4, <1>5, <1>6, <1>7, <1>8, <1>9 DEF Next, Gateway, Viewer

LEMMA PlaybackInitially == Init => PlaybackInv
<1> SUFFICES ASSUME Init PROVE PlaybackInv
  OBVIOUS
<1>1. /\ srv = [tick |-> 0, attached |-> kind = "viewer", base |-> 0, view |-> Nothing,
                unacked |-> <<>>, key |-> TRUE, beat |-> 0, edits |-> 0]
      /\ down = <<>> /\ buf = <<>> /\ cli.meant = Nothing /\ cli.first = 0
  BY DEF Init
<1>2. HasValues(world)
  <2>1. PICK s : world = [w \in s |-> Plain]
    BY DEF Init
  <2> QED
    BY <2>1 DEF HasValues, Plain, Fields
<1>3. \A p : p = <<>> => p \in Seq({p[i] : i \in DOMAIN p}) /\ DOMAIN p = {}
  <2>1. <<>> \in Seq({}) /\ DOMAIN <<>> = {}
    OBVIOUS
  <2>2. ASSUME NEW p, p = <<>>
        PROVE  p \in Seq({p[i] : i \in DOMAIN p}) /\ DOMAIN p = {}
    <3>1. p \in Seq({}) /\ DOMAIN p = {}
      BY <2>1, <2>2
    <3> QED
      BY <3>1, OwnElements
  <2> QED
    BY <2>2
<1>4. Newest(buf) = 0
  BY <1>1 DEF Newest
<1>5. PlayList(down, Newest(buf), srv.tick)
  BY <1>1, <1>3 DEF PlayList
<1>6. Buffered(buf, cli.first)
  BY <1>1, <1>3 DEF Buffered
<1> QED
  BY <1>1, <1>2, <1>4, <1>5, <1>6 DEF PlaybackInv

(* The buffer a viewer renders from is that of the replica, its snapshots  *)
(* in the order of their times, and the two at its left end enclose the    *)
(* time to render as soon as the stream is as old as that: for every delay *)
(* (InterpolationBuffer::observe and retain).                              *)
THEOREM PlaybackKeepsUp == Spec => []PlaybackFollows
<1>1. Init => PlaybackInv
  BY PlaybackInitially
<1>2. PlaybackInv /\ ProgramInv /\ [Next]_vars => PlaybackInv'
  BY PlaybackStep
<1>3. PlaybackInv => PlaybackFollows
  <2> SUFFICES ASSUME PlaybackInv, buf # <<>> PROVE PlaybackFollows
    BY DEF PlaybackFollows
  <2>1. /\ Buffered(buf, cli.first) /\ cli.first \in Nat
        /\ buf[Len(buf)].pos = Positions(cli.meant)
    BY DEF PlaybackInv
  <2> DEFINE S == {buf[i] : i \in DOMAIN buf}
  <2>2. buf \in Seq(S)
    BY <2>1 DEF Buffered
  <2> HIDE DEF S
  <2>3. DOMAIN buf = 1 .. Len(buf) /\ Len(buf) \in Nat \ {0}
    BY <2>2
  <2>4. Last(buf) = buf[Len(buf)]
    BY DEF Last
  <2>5. \A i \in 1 .. Len(buf) - 1 : buf[i].time < buf[i + 1].time
    <3>1. \A i \in 1 .. Len(buf) - 1 : i \in DOMAIN buf /\ i + 1 \in DOMAIN buf /\ i < i + 1
      BY <2>3
    <3> QED
      BY <2>1, <3>1 DEF Buffered
  <2> DEFINE render == Last(buf).time - Delay
  <2>6. (buf[1].time = cli.first \/ buf[1].time <= render) /\ (Len(buf) > 1 => buf[2].time > render)
    BY <2>1, <2>4, Zenon DEF Buffered
  <2> HIDE DEF render
  <2>7. cli.first <= render => buf[1].time <= render
    BY <2>6
  <2> QED
    BY <2>1, <2>4, <2>5, <2>6, <2>7 DEF PlaybackFollows, render
<1>4. Spec => []ProgramInv
  <2>1. ReportInv => ProgramInv
    BY DEF ReportInv
  <2> QED
    BY <2>1, ReportInvariant, PTL
<1> QED
  BY <1>1, <1>2, <1>3, <1>4, PTL DEF Spec
============================================================================
