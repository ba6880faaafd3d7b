--------------------------- MODULE DaemonDispatch ---------------------------
(***************************************************************************)
(* The request and response messages of the transformation daemon and the  *)
(* routing of a decoded request to a registered backend: Daemon::dispatch, *)
(* handle_analyze and handle_obtain of os-daemon.                          *)
(*                                                                         *)
(* Backend ids are numbers: a smaller number is an id that sorts first.    *)
(* The backends themselves are trait objects the repository does not       *)
(* implement outside its tests: a verdict or an outcome is an argument.    *)
(***************************************************************************)
EXTENDS Naturals

CONSTANTS
  Ids,          \* backend ids a client may put on the wire
  Registered,   \* ids with a backend in Daemon.backends
  Paths,        \* guest executables
  NoId,         \* no id: an absent Option, or the empty string of a reply
  NoPath        \* no path: the request carries none

ASSUME IdAssumption ==
  /\ Ids \subseteq Nat
  /\ Registered \subseteq Ids
  /\ Registered # {} => \E i \in Registered : \A j \in Registered : j <= i
                                                       \* finitely many
  /\ NoId \notin Ids
  /\ NoPath \notin Paths

(***************************************************************************)
(* What a process can be made to run: the guest file itself, or the file a *)
(* backend produced from it.                                               *)
(***************************************************************************)
Original(p)    == [kind |-> "original", backend |-> NoId, path |-> p]
Artifact(b, p) == [kind |-> "artifact", backend |-> b, path |-> p]

Exes == {Original(p) : p \in Paths} \cup {Artifact(b, p) : b \in Registered, p \in Paths}

NoExe == [kind |-> "none", backend |-> NoId, path |-> NoPath]

(***************************************************************************)
(* Messages. "Invalid" is a complete frame decode_request refuses.         *)
(***************************************************************************)
Plain(op)     == [op |-> op, path |-> NoPath, backend |-> NoId]
Analyze(p, b) == [op |-> "Analyze", path |-> p, backend |-> b]
Obtain(p, b)  == [op |-> "Obtain", path |-> p, backend |-> b]

Request ==
  {Plain(op) : op \in {"Ping", "ListBackends", "Invalid"}}
    \cup {Analyze(p, b) : p \in Paths, b \in Ids \cup {NoId}}
    \cup {Obtain(p, b) : p \in Paths, b \in Ids}

Statuses == {"Pong", "Suitable", "Unsuitable", "Ready", "Error", "Backends"}

Response == [status : Statuses, backend : Ids \cup {NoId}, exe : Exes \cup {NoExe}]

Reply(s, b)  == [status |-> s, backend |-> b, exe |-> NoExe]
Ready(b, p)  == [status |-> "Ready", backend |-> b, exe |-> Artifact(b, p)]

(***************************************************************************)
(* analyze: Ok(suitable), Ok(not suitable), Err.  obtain: Ok(Exec),        *)
(* Err(Unsuitable), Err(TransformFailed).                                  *)
(***************************************************************************)
Verdicts == {"Suitable", "Unsuitable", "Error"}
Outcomes == {"Exec", "Unsuitable", "TransformFailed"}

AnalyzeOne(id, verdict) ==
  Reply(verdict[id], IF verdict[id] = "Error" THEN NoId ELSE id)

Suitable(verdict) == {i \in Registered : verdict[i] = "Suitable"}

FirstId(S) == CHOOSE i \in S : \A j \in S : i <= j
LastId(S)  == CHOOSE i \in S : \A j \in S : j <= i

\* No backend named: the ids in sorted order, the first suitable one wins,
\* otherwise the answer is whatever the last one said.
AnalyzeAny(verdict) ==
  IF Registered = {} THEN Reply("Unsuitable", NoId)
  ELSE IF Suitable(verdict) # {} THEN AnalyzeOne(FirstId(Suitable(verdict)), verdict)
  ELSE AnalyzeOne(LastId(Registered), verdict)

HandleAnalyze(b, verdict) ==
  IF b = NoId THEN AnalyzeAny(verdict)
  ELSE IF b \in Registered THEN AnalyzeOne(b, verdict)
  ELSE Reply("Error", NoId)

\* Mutant: the backend lookup is skipped.
ObtainUnchecked(p, b, outcome) ==
  IF outcome = "Exec" THEN Ready(b, p) ELSE Reply("Error", NoId)

\* Mutant: obtain picks a backend the way analyze does by default.
ObtainFromFirst(p, b, outcome) ==
  IF outcome = "Exec" THEN Ready(FirstId(Registered), p) ELSE Reply("Error", NoId)

HandleObtain(p, b, outcome) ==
  IF b \notin Registered THEN Reply("Error", NoId)
  ELSE CASE outcome = "Exec"            -> Ready(b, p)
         [] outcome = "Unsuitable"      -> Reply("Unsuitable", b)
         [] outcome = "TransformFailed" -> Reply("Error", NoId)

\* Mutant: decode_request has the tags of Analyze and Obtain swapped.
FrameTagsSwapped(req, verdict, outcome) ==
  CASE req.op = "Invalid"      -> Reply("Error", NoId)
    [] req.op = "Ping"         -> Reply("Pong", NoId)
    [] req.op = "ListBackends" -> Reply("Backends", NoId)
    [] req.op = "Analyze"      -> HandleObtain(req.path, req.backend, outcome)
    [] req.op = "Obtain"       -> HandleAnalyze(req.backend, verdict)

HandleFrame(req, verdict, outcome) ==
  CASE req.op = "Invalid"      -> Reply("Error", NoId)
    [] req.op = "Ping"         -> Reply("Pong", NoId)
    [] req.op = "ListBackends" -> Reply("Backends", NoId)
    [] req.op = "Analyze"      -> HandleAnalyze(req.backend, verdict)
    [] req.op = "Obtain"       -> HandleObtain(req.path, req.backend, outcome)

\* Whether a response can be the answer to a request.
AnswerFits(req, rep) ==
  \/ req.op = "Ping" /\ rep.status = "Pong"
  \/ req.op = "ListBackends" /\ rep.status = "Backends"
  \/ req.op = "Invalid" /\ rep.status = "Error"
  \/ req.op = "Analyze" /\ rep.status \in Verdicts
  \/ /\ req.op = "Obtain"
     /\ rep \in {Ready(req.backend, req.path), Reply("Unsuitable", req.backend),
                 Reply("Error", NoId)}
=============================================================================
