----------------------------- MODULE WireCodec -----------------------------
(***************************************************************************)
(* What the two encoders of a server frame refuse, what the decoder of the *)
(* client refuses, and what survives the way between them.                 *)
(*                                                                         *)
(* A projected entity is                                                   *)
(*   [ver, val, type, text, props, state, rels, attrs]                     *)
(* type is the length of its longest own string, text the length of the    *)
(* longest string in its bags, relations, capabilities and tags; props,    *)
(* state and rels count entries; attrs says that a relation has attributes.*)
(* val stands for position and values.  A state frame maps the WIDs of its *)
(* enters and updates to entities.  Enumerations are in range on the       *)
(* server's side, so the decoder's range checks never fire here.  A wire   *)
(* entity, and the table of one, has every field but attrs.                *)
(***************************************************************************)
EXTENDS Integers, FiniteSets, FiniteSetsExt

CONSTANTS
    MaxString, MaxProperties, MaxRelations, MaxEntities, MaxFrame,
    MaxDepth, MaxTables    \* verifier_max_depth, verifier_max_tables

(* validate(ProtocolLimits): no limit is zero.                             *)
ValidLimits ==
    {MaxString, MaxProperties, MaxRelations, MaxEntities, MaxFrame, MaxDepth, MaxTables}
        \subseteq Nat \ {0}

ASSUME WireLimits == ValidLimits

Size(e) == 1 + e.type + e.props + e.state + e.rels

Weight(es) == MapThenSumSet(LAMBDA w : Size(es[w]), DOMAIN es)

(* Messages: `id` is the file identifier, `body` the tables.               *)
NoBytes == [id |-> "", size |-> 0, body |-> [kind |-> "none"]]

Finished(id, size, f) == [id |-> id, size |-> size, body |-> f]

Changes(f) == Cardinality(DOMAIN f.enters) + Cardinality(DOMAIN f.updates) + Cardinality(f.leaves)

FrameSize(f) ==
    CASE f.kind \in {"keyframe", "delta"} ->
             1 + Weight(f.enters) + Weight(f.updates) + Cardinality(f.leaves)
      [] f.kind \in {"receipt", "error", "request"} -> 1 + f.text
      [] OTHER -> 1

(* The tables of a message and how deep they stand in each other: the root *)
(* with its one frame; per entity an enter or update, the entity, its      *)
(* position, and two for each property, the entry and its value.           *)
EntityTables(e) == 3 + 2 * (e.props + e.state) + e.rels

TablesOf(es) == MapThenSumSet(LAMBDA w : EntityTables(es[w]), DOMAIN es)

Tables(f) ==
    CASE f.kind \in {"keyframe", "delta"} ->
             2 + TablesOf(f.enters) + TablesOf(f.updates) + Cardinality(f.leaves)
      [] f.kind \in {"receipt", "error"} -> 3
      [] OTHER -> 2

Depth(f) ==
    IF f.kind \in {"keyframe", "delta"}
    THEN LET es == {f.enters[w] : w \in DOMAIN f.enters} \cup {f.updates[w] : w \in DOMAIN f.updates}
         IN  IF \E e \in es : e.props + e.state > 0 THEN 6
             ELSE IF es # {} THEN 5 ELSE IF f.leaves # {} THEN 3 ELSE 2
    ELSE IF f.kind \in {"receipt", "error"} THEN 3 ELSE 2

(* flatbuffers::Verifier; no encoder counts against its limits.            *)
Verified(f) == Tables(f) <= MaxTables /\ Depth(f) <= MaxDepth

-----------------------------------------------------------------------------
(* protocol/codec.cpp, encoding.                                           *)

Text(n) == n <= MaxString

EncodeBag(n, text) == n <= MaxProperties /\ (n > 0 => Text(text))

EncodeStrings(text) == Text(text)

EncodeEntity(e) ==
    /\ Text(e.type) /\ e.rels <= MaxRelations
    /\ EncodeBag(e.props, e.text) /\ EncodeBag(e.state, e.text)
    /\ EncodeStrings(e.text)

EncodeEnters(es) == \A w \in DOMAIN es : EncodeEntity(es[w])

EncodeKeyframe(f) == Cardinality(DOMAIN f.enters) <= MaxEntities /\ EncodeEnters(f.enters)

EncodeUpdates(es) == \A w \in DOMAIN es : EncodeEntity(es[w])

EncodeDelta(f) == Changes(f) <= MaxEntities /\ EncodeEnters(f.enters) /\ EncodeUpdates(f.updates)

EncodeReliable(f) == Text(f.text)

(* encode_server_frame(): nothing at all when a part is refused.  The size *)
(* of the whole frame is not looked at.                                    *)
EncodeServerFrame(f) ==
    CASE f.kind = "keyframe"  -> IF EncodeKeyframe(f) THEN Finished("GWSF", FrameSize(f), f) ELSE NoBytes
      [] f.kind = "delta"     -> IF EncodeDelta(f) THEN Finished("GWSF", FrameSize(f), f) ELSE NoBytes
      [] f.kind \in {"receipt", "error"} ->
             IF EncodeReliable(f) THEN Finished("GWSF", FrameSize(f), f) ELSE NoBytes
      [] f.kind = "heartbeat" -> Finished("GWSF", FrameSize(f), f)

(* encode_client_control().                                                *)
EncodeClientControl(c) ==
    IF c.kind = "request" /\ ~Text(c.text) THEN NoBytes ELSE Finished("GWCF", FrameSize(c), c)

-----------------------------------------------------------------------------
(* gateway/frame_codec.cpp: to wire structures, or to bytes directly.      *)

(* to_wire_entity(): the wire's relations have no attributes.              *)
ToWireEntity(e) == [k \in DOMAIN e \ {"attrs"} |-> e[k]]

(* to_wire_frame().                                                        *)
ToWireFrame(f) ==
    [kind |-> f.kind, snap |-> f.snap, base |-> f.base, leaves |-> f.leaves,
     enters  |-> [w \in DOMAIN f.enters |-> ToWireEntity(f.enters[w])],
     updates |-> [w \in DOMAIN f.updates |-> ToWireEntity(f.updates[w])]]

DirectBag(n, text) == n <= MaxProperties /\ (n > 0 => Text(text))

DirectStrings(text) == Text(text)

DirectEntity(e) ==
    /\ Text(e.type) /\ e.rels <= MaxRelations
    /\ DirectBag(e.props, e.text) /\ DirectBag(e.state, e.text)
    /\ DirectStrings(e.text)

(* fb::CreateProjectedEntity() from the projection: of a relation its type *)
(* and its target.                                                         *)
DirectTable(e) ==
    [ver |-> e.ver, val |-> e.val, type |-> e.type, text |-> e.text,
     props |-> e.props, state |-> e.state, rels |-> e.rels]

DirectTables(es) == [w \in DOMAIN es |-> DirectTable(es[w])]

DirectEnters(es) == \A w \in DOMAIN es : DirectEntity(es[w])

DirectKeyframe(f) == Cardinality(DOMAIN f.enters) <= MaxEntities /\ DirectEnters(f.enters)

DirectDelta(f) ==
    /\ Changes(f) <= MaxEntities /\ DirectEnters(f.enters)
    /\ \A w \in DOMAIN f.updates : DirectEntity(f.updates[w])

DirectFrame(f) ==
    [kind |-> f.kind, snap |-> f.snap, base |-> f.base, leaves |-> f.leaves,
     enters |-> DirectTables(f.enters), updates |-> DirectTables(f.updates)]

(* encode_state_frame_into() and make_frame_encoder(): an empty message    *)
(* stands for a frame that is refused.                                     *)
EncodeStateFrame(f) ==
    IF IF f.kind = "keyframe" THEN DirectKeyframe(f) ELSE DirectDelta(f)
    THEN Finished("GWSF", FrameSize(DirectFrame(f)), DirectFrame(f))
    ELSE NoBytes

(* make_receipt_encoder() over to_wire_receipt().                          *)
EncodeReceipt(status) == EncodeServerFrame([kind |-> "receipt", status |-> status, text |-> 1])

EncodeHeartbeat == EncodeServerFrame([kind |-> "heartbeat"])

EncodeProtocolError(code) == EncodeServerFrame([kind |-> "error", code |-> code, text |-> 1])

-----------------------------------------------------------------------------
(* protocol/codec.cpp, decoding: the reason for a refusal, or "".          *)

Invalid  == "invalid_request"
Limit    == "limit_exceeded"
Version  == "version_incompatible"

\* Mutant: a bag at the limit is refused.
DecodeBagStrict(n, text) == IF n < MaxProperties /\ (n > 0 => Text(text)) THEN "" ELSE Limit

DecodeBag(n, text) == IF n <= MaxProperties /\ (n > 0 => Text(text)) THEN "" ELSE Limit

DecodeEntity(e) ==
    IF /\ Text(e.type) /\ Text(e.text) /\ e.rels <= MaxRelations
       /\ DecodeBag(e.props, e.text) = "" /\ DecodeBag(e.state, e.text) = ""
    THEN "" ELSE Limit

DecodeEnters(es) == IF \A w \in DOMAIN es : DecodeEntity(es[w]) = "" THEN "" ELSE Limit

DecodeKeyframe(f) == IF Cardinality(DOMAIN f.enters) <= MaxEntities THEN DecodeEnters(f.enters) ELSE Limit

DecodeDelta(f) ==
    IF Changes(f) <= MaxEntities /\ DecodeEnters(f.enters) = "" /\ DecodeEnters(f.updates) = ""
    THEN "" ELSE Limit

(* decode_reliable(): the status is one of ReceiptStatus; texts are not    *)
(* measured here.                                                          *)
Statuses == {"unspecified", "accepted", "applied", "rejected", "duplicate", "durable_accepted"}

DecodeReliable(f) == IF f.kind = "receipt" /\ f.status \notin Statuses THEN Invalid ELSE ""

(* What both decoders look at before they read a table: the size, the file *)
(* identifier, the verifier.  No message is smaller than the identifier's  *)
(* eight bytes, and there is one schema_version.                           *)
DecodeHeader(b, id) ==
    CASE b.size = 0        -> Invalid
      [] b.size > MaxFrame -> Limit
      [] b.size \in 1 .. MaxFrame /\ b.id # id -> Version
      [] b.size \in 1 .. MaxFrame /\ b.id = id ->
             IF Verified(b.body) THEN "" ELSE Invalid

(* decode_server_frame().                                                  *)
DecodeServerFrame(b) ==
    IF DecodeHeader(b, "GWSF") # "" THEN DecodeHeader(b, "GWSF")
    ELSE CASE b.body.kind = "keyframe" -> DecodeKeyframe(b.body)
           [] b.body.kind = "delta"    -> DecodeDelta(b.body)
           [] b.body.kind \in {"receipt", "error"} -> DecodeReliable(b.body)
           [] b.body.kind = "heartbeat" -> ""

(* decode_client_control().                                                *)
DecodeClientControl(b) ==
    IF DecodeHeader(b, "GWCF") # "" THEN DecodeHeader(b, "GWCF")
    ELSE IF b.body.kind = "request" /\ ~Text(b.body.text) THEN Limit ELSE ""

(* inspect_server_frame() of the thin client: identifier and type only.    *)
Inspect(b) == IF b.size = 0 \/ b.id # "GWSF" THEN "invalid" ELSE b.body.kind
=============================================================================
