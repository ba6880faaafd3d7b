------------------------- MODULE TransformDaemonInv -------------------------
(***************************************************************************)
(* The inductive invariant behind the safety properties of                 *)
(* TransformDaemon.                                                        *)
(***************************************************************************)
EXTENDS TransformDaemon

\* A hook inside a call has a connection of its own; before its request is
\* written nothing has happened on it, and the plan is the original file.
HookOK(h) ==
  /\ pc[h] \in Awaiting =>
       /\ try[h] >= 1
       /\ path[h] \in Paths
       /\ plan[h] = Original(path[h])
  /\ pc[h] = "connect" => link[Conn(h)] = "none"
  /\ pc[h] \in {"send", "header", "body"} => link[Conn(h)] # "none" /\ open[Conn(h)]
  /\ pc[h] = "send" => inbox[Conn(h)] = Nothing
  /\ pc[h] \in {"header", "body"} =>
       inbox[Conn(h)] = Obtain(path[h], BackendOf[h])
  /\ pc[h] = "body" => outbox[Conn(h)].status = "Ready"

HookInv == \A h \in Hooks : HookOK(h)

\* A hook outside a call names no path; what a hook executes, and what it
\* has executed.
PlanOK(h) ==
  /\ pc[h] = "idle" <=> path[h] = NoPath
  /\ pc[h] \in {"exec", "done"} =>
       \/ plan[h] = Original(path[h])
       \/ /\ plan[h] = Artifact(BackendOf[h], path[h])
          /\ <<BackendOf[h], path[h]>> \in offered
  /\ image[h] = IF pc[h] = "done" THEN plan[h] ELSE NoExe

PlanInv == \A h \in Hooks : PlanOK(h)

\* Connections not opened yet are untouched; a response is there only for a
\* complete request, and a Ready names an artifact that has been made.
ConnOK(c) ==
  /\ c[2] > try[c[1]] => link[c] = "none"
  /\ link[c] = "none" => inbox[c] = Nothing /\ ~open[c]
  /\ link[c] \in {"none", "queued"} => outbox[c] = NoReply
  /\ sent[c] # "none" => outbox[c] # NoReply
  /\ outbox[c] # NoReply => Complete(c)
  /\ outbox[c].status = "Ready" =>
       <<inbox[c].backend, inbox[c].path>> \in offered

ConnInv == \A c \in Conns : ConnOK(c)

\* Only an accepted connection is read, dispatched and answered; a write that
\* waits for the client has begun.
ServingInv ==
  /\ daemon \in {"read", "dispatch"} => outbox[serving] = NoReply
  /\ daemon \in {"dispatch", "write", "blocked"} => Complete(serving)
  /\ daemon \in {"write", "blocked"} => outbox[serving] # NoReply

IInv ==
  /\ TypeOK
  /\ OnePlace
  /\ HookInv
  /\ PlanInv
  /\ ConnInv
  /\ ServingInv
  /\ NoHangUp
  /\ AnswersTheRequest
  /\ KilledOnlyByFailure
=============================================================================
