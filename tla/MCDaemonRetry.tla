---------------------------- MODULE MCDaemonRetry ----------------------------
(***************************************************************************)
(* What the daemon and its clients promise: the service of whole messages, *)
(* and the bytes of one message.  A behaviour is about one of the two.     *)
(*                                                                         *)
(* Messages of each kind go between each writer and each reader, with      *)
(* strings that are empty, that look like a length or a tag, and that the  *)
(* hook has no room for; frames have few bytes and are well formed or not. *)
(***************************************************************************)
EXTENDS MCTransformDaemon, DaemonWire

Strings == {<<>>, <<1>>, <<2, 1>>}

Requests ==
  {[tag |-> tag, fields |-> <<>>] : tag \in {OP_PING, OP_LIST_BACKENDS}}
  \cup [tag : {OP_ANALYZE}, fields : Strings \X (Strings \cup {Absent})]
  \cup [tag : {OP_OBTAIN}, fields : Strings \X Strings]

Responses ==
  {[tag |-> STATUS_PONG, fields |-> <<>>]}
  \cup {[tag |-> tag, fields |-> <<s>>] : tag \in {STATUS_SUITABLE, STATUS_ERROR}, s \in Strings}
  \cup [tag : {STATUS_UNSUITABLE}, fields : Strings \X {<<>>, <<<<1>>>>, <<<<>>, <<2>>>>}]
  \cup [tag : {STATUS_READY}, fields : {<<1>>, <<2, 1>>, <<2, 1, 1>>} \X BOOLEAN \X {<<1>>, <<2, 1, 1>>}]
  \cup {[tag |-> STATUS_BACKENDS, fields |-> <<ids>>] : ids \in {<<>>, <<<<1>>, <<2>>>>}}

MCMessages ==
  [writer : {"client"}, reader : {"daemon"}, message : Requests]
  \cup [writer : {"hook"}, reader : {"daemon"}, 
      message : [tag : {OP_OBTAIN}, fields : {<<1>>, <<2, 1>>, <<2, 1, 1>>} \X {<<>>, <<1, 1>>}]]
  \cup [writer : {"daemon"}, reader : {"client", "hook"}, message : Responses]

Payloads(n) == UNION {[1..len -> {0, 1, NotUtf8}] : len \in 0..n}

MCFrames ==
  {<<PROTOCOL_VERSION, tag, len, 0>> \o payload : tag \in 0..(Base - 1), len \in 0..(Base - 1), payload \in Payloads(5)}
  \cup {<<1, tag, Len(payload), 0>> \o payload : tag \in 0..(Base - 1), payload \in Payloads(4)}
\* A message that nobody sends.
NoMessage ==
  /\ message = [writer |-> "none", reader |-> "daemon", message |-> Failure]
  /\ unsent = <<>> /\ stream = <<>> /\ closed = FALSE /\ buf = <<>> /\ received = Pending

VARIABLE part   \* which of them the behaviour is about; the other does nothing

MCInit ==
  /\ Init
  /\ \/ part = "service" /\ NoMessage
     \/ part = "wire" /\ WireInit

ServiceNext == part = "service" /\ Next /\ UNCHANGED <<part, wireVars>>
BytesNext   == part = "wire" /\ WireNext /\ UNCHANGED <<part, vars>>

MCNext == ServiceNext \/ BytesNext

MCSpec == MCInit /\ [][MCNext]_<<part, vars, wireVars>>
=============================================================================
