----------------------------- MODULE DaemonWire -----------------------------
(***************************************************************************)
(* The bytes of one message on one connection of the daemon's socket: the  *)
(* codec and the framing of os-daemon-protocol, and the C of               *)
(* rtd_obtain_path, which writes and reads the same bytes on its own.      *)
(*                                                                         *)
(* The writer puts its frame into the stream in pieces and may end at any  *)
(* point.  The Rust readers ask for a header and then for a payload until  *)
(* they have them; the hook calls read once for each.                      *)
(*                                                                         *)
(* A byte is a number below Base; a length, of four bytes in the code, has *)
(* two.  A message is its tag and its fields, and a table says of what     *)
(* kind the fields of each tag are.                                        *)
(***************************************************************************)
EXTENDS Naturals, Sequences, SequencesExt

CONSTANTS
  Base,         \* values of a byte
  NotUtf8,      \* a byte no UTF-8 text has
  Messages,     \* what is sent: writer, reader and message
  Frames,       \* other bytes a Rust reader is given
  PayloadCap, BodyCap, PathCap,   \* sizes of payload, body and cached in the hook
  Absent,       \* an Option that is None
  Failure,      \* what a call that failed returns
  Pending       \* a call that has not returned

Width  == 2           \* bytes of a length
Header == 2 + Width   \* bytes before the payload

PROTOCOL_VERSION == 2

OP_PING == 0
OP_ANALYZE == 1
OP_OBTAIN == 2
OP_LIST_BACKENDS == 3

STATUS_PONG == 0
STATUS_SUITABLE == 1
STATUS_UNSUITABLE == 2
STATUS_READY == 3
STATUS_ERROR == 4
STATUS_BACKENDS == 5

\* The fields of a request and of a response.
RequestFields ==
  [op \in {OP_PING, OP_ANALYZE, OP_OBTAIN, OP_LIST_BACKENDS} |->
     CASE op = OP_ANALYZE -> <<"string", "option">>
       [] op = OP_OBTAIN  -> <<"string", "string">>
       [] OTHER           -> <<>>]

ResponseFields ==
  [status \in {STATUS_PONG, STATUS_SUITABLE, STATUS_UNSUITABLE, STATUS_READY, STATUS_ERROR, STATUS_BACKENDS} |->
     CASE status \in {STATUS_SUITABLE, STATUS_ERROR} -> <<"string">>
       [] status = STATUS_UNSUITABLE -> <<"string", "vec">>
       [] status = STATUS_READY      -> <<"string", "bool", "string">>
       [] status = STATUS_BACKENDS   -> <<"vec">>
       [] status = STATUS_PONG       -> <<>>]

\* Bytes, texts with a length that fits its field, and what a field can hold.
Byte  == 0..(Base - 1)
Limit == Base * Base
Texts == {s \in Seq(Byte \ {NotUtf8}) : Len(s) < Limit}

FieldValues(kind) ==
  CASE kind = "string" -> Texts
    [] kind = "option" -> Texts \cup {Absent}
    [] kind = "vec"    -> {items \in Seq(Texts) : Len(items) < Limit}
    [] kind = "bool"   -> BOOLEAN

FieldValue == Texts \cup {Absent} \cup Seq(Texts) \cup BOOLEAN

\* What the functions of both sides return when they do not fail.
Returned ==
  Seq(Byte) \cup [tag : Byte, fields : Seq(FieldValue)]
    \cup [value : FieldValue \cup Seq(FieldValue), rest : Seq(Byte)]
    \cup [tag : Byte, payload : Seq(Byte)]

ASSUME WireAssumption ==
  /\ Base \in Nat /\ Base > 5                \* each tag is a byte
  /\ {PayloadCap, BodyCap, PathCap} \subseteq Nat
  /\ Frames \subseteq Seq(Byte)
  /\ Failure # Pending
  /\ \A none \in {Failure, Pending} : none \notin Returned
  /\ Absent \notin Seq(Byte)

VARIABLES
  message,   \* what is sent: writer, reader, message; no writer for other bytes
  unsent,    \* bytes the writer has yet to write
  stream,    \* bytes between them
  closed,    \* whether the writer's end is closed
  buf,       \* bytes the reader has
  received   \* what the reader returned

wireVars == <<message, unsent, stream, closed, buf, received>>

-----------------------------------------------------------------------------
(***************************************************************************)
(* The codec.  A decoder returns a value and the rest of the bytes.        *)
(***************************************************************************)
to_le_bytes(n) == <<n % Base, (n \div Base) % Base>>
from_le_bytes(bytes) == bytes[1] + Base * bytes[2]

From(bytes, n) == SubSeq(bytes, n + 1, Len(bytes))

encode_string(s) == to_le_bytes(Len(s)) \o s

decode_string(in) ==
  IF Len(in) < Width THEN Failure
  ELSE LET len  == from_le_bytes(in)
           rest == From(in, Width)
       IN  IF Len(rest) < len \/ \E i \in 1..len : rest[i] = NotUtf8 THEN Failure
           ELSE [value |-> SubSeq(rest, 1, len), rest |-> From(rest, len)]

encode_option_string(s) == IF s = Absent THEN <<0>> ELSE <<1>> \o encode_string(s)

decode_option_string(in) ==
  CASE in # <<>> /\ in[1] = 0 -> [value |-> Absent, rest |-> Tail(in)]
    [] in # <<>> /\ in[1] = 1 -> decode_string(Tail(in))
    [] OTHER -> Failure

encode_string_vec(items) ==
  to_le_bytes(Len(items)) \o FlattenSeq([i \in DOMAIN items |-> encode_string(items[i])])

\* One more string after those decoded.
NextItem(d) ==
  LET s == IF d = Failure THEN Failure ELSE decode_string(d.rest)
  IN  IF s = Failure THEN Failure ELSE [value |-> Append(d.value, s.value), rest |-> s.rest]

\* The room that is reserved for as many items as the prefix announces, before
\* the first is read, is not modelled.
decode_string_vec(in) ==
  IF Len(in) < Width THEN Failure
  ELSE LET d[n \in 0..from_le_bytes(in)] ==
             IF n = 0 THEN [value |-> <<>>, rest |-> From(in, Width)] ELSE NextItem(d[n - 1])
       IN  d[from_le_bytes(in)]

encode_field(kind, v) ==
  CASE kind = "string" -> encode_string(v)
    [] kind = "option" -> encode_option_string(v)
    [] kind = "vec"    -> encode_string_vec(v)
    [] kind = "bool"   -> <<IF v THEN 1 ELSE 0>>

decode_field(kind, in) ==
  CASE kind = "string" -> decode_string(in)
    [] kind = "option" -> decode_option_string(in)
    [] kind = "vec"    -> decode_string_vec(in)
    [] kind = "bool"   -> IF in = <<>> THEN Failure ELSE [value |-> in[1] # 0, rest |-> Tail(in)]

\* Mutant: the length counts the header too.
encode_frame_whole(tag, payload) ==
  <<PROTOCOL_VERSION, tag>> \o to_le_bytes(Header + Len(payload)) \o payload

encode_frame(tag, payload) ==
  <<PROTOCOL_VERSION, tag>> \o to_le_bytes(Len(payload)) \o payload

FrameLen(frame) == Header + from_le_bytes(From(frame, 2))

\* Mutant: the version is not looked at.
decode_frame_any(frame) ==
  IF Len(frame) < Header \/ Len(frame) # FrameLen(frame) THEN Failure
  ELSE [tag |-> frame[2], payload |-> From(frame, Header)]

decode_frame(frame) ==
  IF Len(frame) < Header \/ frame[1] # PROTOCOL_VERSION \/ Len(frame) # FrameLen(frame) THEN Failure
  ELSE [tag |-> frame[2], payload |-> From(frame, Header)]

encode_fields(kinds, values) ==
  FlattenSeq([i \in DOMAIN kinds |-> encode_field(kinds[i], values[i])])

\* encode_request and encode_response.
Encode(fields, msg) == encode_frame(msg.tag, encode_fields(fields[msg.tag], msg.fields))

\* One more field after those decoded.
NextField(d, kind) ==
  LET f == IF d = Failure THEN Failure ELSE decode_field(kind, d.rest)
  IN  IF f = Failure THEN Failure ELSE [value |-> Append(d.value, f.value), rest |-> f.rest]

decode_fields(kinds, in) ==
  LET d[n \in 0..Len(kinds)] ==
        IF n = 0 THEN [value |-> <<>>, rest |-> in] ELSE NextField(d[n - 1], kinds[n])
  IN  d[Len(kinds)]

\* decode_request and decode_response.
Decode(fields, frame) ==
  LET f == decode_frame(frame)
      d == decode_fields(fields[f.tag], f.payload)
  IN  IF f = Failure THEN Failure
      ELSE IF f.tag \notin DOMAIN fields THEN Failure
      ELSE IF d = Failure THEN Failure
      ELSE IF d.rest # <<>> THEN Failure
      ELSE [tag |-> f.tag, fields |-> d.value]

-----------------------------------------------------------------------------
(***************************************************************************)
(* The hook's C.                                                           *)
(***************************************************************************)
wire_write_str(out, cap, s) ==
  IF out = Failure THEN Failure
  ELSE IF Len(out) + Width + Len(s) > cap THEN Failure
  ELSE out \o to_le_bytes(Len(s)) \o s

\* The bytes of a request, or Failure when they do not fit.
HookRequest(msg) ==
  LET payload == wire_write_str(wire_write_str(<<>>, PayloadCap, msg.fields[1]), PayloadCap, msg.fields[2])
  IN  IF payload = Failure THEN Failure ELSE <<2, 2>> \o to_le_bytes(Len(payload)) \o payload

\* The first string of a body, without its trailing zero.
wire_read_str(in) ==
  IF Len(in) < Width THEN Failure
  ELSE IF Width + from_le_bytes(in) > Len(in) \/ from_le_bytes(in) + 1 > PathCap THEN Failure
  ELSE SubSeq(in, Width + 1, Width + from_le_bytes(in))

\* Mutant: any status will do.
HookTakes_any(hdr) == hdr[1] = 2 /\ from_le_bytes(From(hdr, 2)) <= BodyCap

\* The header of an answer whose body the hook reads.
HookTakes(hdr) == hdr[1] = 2 /\ hdr[2] = 3 /\ from_le_bytes(From(hdr, 2)) <= BodyCap

-----------------------------------------------------------------------------
Fields(m) == IF m.reader = "daemon" THEN RequestFields ELSE ResponseFields

\* The bytes the writer of a message makes.
Bytes(m) == IF m.writer = "hook" THEN HookRequest(m.message) ELSE Encode(Fields(m), m.message)

\* A message that its type allows, with lengths that fit their fields.
WellFormed(fields, msg) ==
  /\ msg = [tag |-> msg.tag, fields |-> msg.fields]
  /\ msg.tag \in DOMAIN fields
  /\ msg.fields = [i \in DOMAIN fields[msg.tag] |-> msg.fields[i]]
  /\ \A i \in DOMAIN msg.fields : msg.fields[i] \in FieldValues(fields[msg.tag][i])
  /\ Len(encode_fields(fields[msg.tag], msg.fields)) < Limit

ASSUME MessageAssumption ==
  \A m \in Messages :
    /\ m = [writer |-> m.writer, reader |-> m.reader, message |-> m.message]
    /\ <<m.writer, m.reader>> \in {"client", "hook"} \X {"daemon"} \cup {"daemon"} \X {"client", "hook"}
    /\ WellFormed(Fields(m), m.message)
    /\ m.writer = "hook" => m.message.tag = OP_OBTAIN

WireInit ==
  /\ closed = FALSE /\ buf = <<>> /\ received = Pending
  /\ \/ /\ message \in Messages
        /\ unsent = Bytes(message)
        /\ stream = <<>>
     \/ \E reader \in {"daemon", "client"} :
          /\ message = [writer |-> "none", reader |-> reader, message |-> Failure]
          /\ unsent = <<>>
          /\ stream \in Frames

\* write and write_all.
WriteBytes ==
  /\ ~closed
  /\ unsent \notin {Failure, <<>>}
  /\ \E n \in 1..Len(unsent) :
       stream' = stream \o SubSeq(unsent, 1, n) /\ unsent' = From(unsent, n)
  /\ UNCHANGED <<message, closed, buf, received>>

\* The writer closes, having written its message or not.
CloseWriter ==
  /\ ~closed
  /\ closed' = TRUE
  /\ UNCHANGED <<message, unsent, stream, buf, received>>

\* The bytes a reader asks for: a header, then what it says.
Wanted == (IF Len(buf) < Header THEN Header ELSE FrameLen(buf)) - Len(buf)

Take(n) == buf' = buf \o SubSeq(stream, 1, n) /\ stream' = From(stream, n)

\* read_frame: read_exact goes on until it has what it asked for; a frame that
\* is whole is decoded.
ReadExact ==
  /\ received = Pending /\ message.reader # "hook"
  /\ \/ /\ stream # <<>>
        /\ Take(IF Len(stream) < Wanted THEN Len(stream) ELSE Wanted)
        /\ received' = IF Len(buf') >= Header /\ Len(buf') = FrameLen(buf')
                       THEN Decode(Fields(message), buf') ELSE Pending
     \/ /\ stream = <<>> /\ closed
        /\ received' = Failure
        /\ UNCHANGED <<buf, stream>>
  /\ UNCHANGED <<message, unsent, closed>>

\* One call of read by the hook, which must return all it asked for; read
\* returns at once for a body of no bytes.
ReadOnce ==
  /\ received = Pending /\ message.reader = "hook"
  /\ stream # <<>> \/ closed \/ Wanted = 0
  /\ LET n == IF Len(stream) < Wanted THEN Len(stream) ELSE Wanted
     IN  /\ Take(n)
         /\ received' =
              IF n < Wanted THEN Failure
              ELSE IF Len(buf) < Header THEN IF HookTakes(buf') THEN Pending ELSE Failure
              ELSE wire_read_str(From(buf', Header))
  /\ UNCHANGED <<message, unsent, closed>>

WireNext == WriteBytes \/ CloseWriter \/ ReadExact \/ ReadOnce

WireSpec == WireInit /\ [][WireNext]_wireVars

-----------------------------------------------------------------------------
\* What the reader of a message is to get: the hook wants the path of a Ready.
Content ==
  IF message.reader # "hook" THEN message.message
  ELSE IF message.message.tag = STATUS_READY THEN message.message.fields[1] ELSE Failure

Channel == INSTANCE MessageChannel WITH
  content <- Content, got <- IF message.writer = "none" THEN Pending ELSE received

\* However the bytes are cut up and whenever the writer ends, a reader returns
\* the message that was sent or an error (encode_request, decode_request,
\* encode_response, decode_response, read_frame, rtd_obtain_path): never a
\* shorter path, the backend of another status, or an empty string for none.
ImplementsChannel == Channel!Spec

\* Bytes that decode are those of the message they decode to: nothing follows
\* it, no other version and no longer or shorter length is taken for it
\* (decode_frame, decode_request, decode_response).  The flag of a Ready may be
\* any byte that is not zero.
NothingElseDecodes ==
  received \notin {Pending, Failure} /\ message.reader # "hook" =>
    LET bytes == Encode(Fields(message), received)
    IN  /\ Len(bytes) = Len(buf)
        /\ \A i \in DOMAIN buf :
             \/ bytes[i] = buf[i]
             \/ /\ message.reader = "client" /\ received.tag = STATUS_READY
                /\ i = Header + Width + Len(received.fields[1]) + 1
                /\ buf[i] # 0 /\ bytes[i] = 1

\* A whole message is read: when its last byte has been taken from the stream,
\* and although the writer keeps the connection open for the answer, a Rust
\* reader has returned the message and the hook has returned (encode_frame,
\* read_frame, rtd_obtain_path).
WholeMessageIsRead ==
  message.writer # "none" /\ unsent = <<>> /\ stream = <<>> =>
    IF message.reader = "hook" THEN received # Pending ELSE received = Content
=============================================================================
