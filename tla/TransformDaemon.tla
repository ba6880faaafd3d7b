-------------------------- MODULE TransformDaemon ---------------------------
(***************************************************************************)
(* The transformation daemon (os-daemon), the exec hook it serves          *)
(* (os_shim_execve, the C emitted by os-daemon-shim) and other clients of  *)
(* its socket, over unix stream connections.                               *)
(*                                                                         *)
(* The daemon is one thread: it accepts a connection, reads one frame,     *)
(* dispatches it, writes one response and drops the connection.  Neither   *)
(* its reads nor its writes have a timeout: a client that does not write   *)
(* holds it, and so does one that does not read a long response.  A hook   *)
(* opens a fresh connection for every execve; whatever goes wrong before   *)
(* it holds a Ready response makes it execute the file it was given.       *)
(***************************************************************************)
EXTENDS DaemonDispatch, Sequences

CONSTANTS
  Hooks,        \* guest processes whose execve is os_shim_execve
  Peers,        \* other clients of the socket
  Silent,       \* bound: peers that connect and close, and write nothing
  BackendOf,    \* [Hooks -> Ids]: the id compiled into each hook
  MaxTries,     \* bound: connections one client opens
  MaxFailures,  \* bound: daemon stops and failed try_clones
  BacklogSize   \* connections the kernel queues on the listener

ASSUME DaemonAssumption ==
  /\ Hooks \cap Peers = {}
  /\ Silent \subseteq Peers
  /\ BackendOf \in [Hooks -> Ids]
  /\ MaxTries \in Nat
  /\ MaxFailures \in Nat
  /\ BacklogSize \in Nat \ {0}

VARIABLES
  pc,        \* where each hook is in os_shim_execve
  path,      \* the path argument of the execve in progress
  plan,      \* what the hook will hand to the real execve
  image,     \* what the process runs after a successful execve
  try,       \* connections opened so far, per client
  link,      \* the daemon's end of a connection
  open,      \* whether the client's end is open
  inbox,     \* what the client has written
  outbox,    \* what the daemon is writing
  sent,      \* how much of outbox has reached the client
  daemon,    \* what run_on_listener is doing
  serving,   \* the connection handle_client holds
  backlog,   \* connections waiting in the listener
  offered,   \* history: <<id, path>> a backend answered Exec for
  failures   \* stops and failed try_clones so far

guestVars == <<pc, path, plan, image>>
connVars  == <<link, open, inbox, outbox, sent>>
hostVars  == <<daemon, serving, backlog, offered, failures>>
vars      == <<guestVars, try, connVars, hostVars>>

Callers == Hooks \cup Peers
Conns   == Callers \X (1..MaxTries)
NoConn  == <<NoId, 0>>

\* Mutant: a client keeps using its first connection.
FirstConn(c) == <<c, 1>>

\* The connection of a client's current attempt.
Conn(c) == <<c, try[c]>>

Nothing == Plain("Nothing")
Partial == Plain("Partial")
NoReply == Reply("None", NoId)

Complete(c) == inbox[c] \notin {Nothing, Partial}

Awaiting == {"connect", "send", "header", "body"}
HookPc   == {"idle", "exec", "done", "killed"} \cup Awaiting

-----------------------------------------------------------------------------
Init ==
  /\ pc = [h \in Hooks |-> "idle"]
  /\ path = [h \in Hooks |-> NoPath]
  /\ plan = [h \in Hooks |-> NoExe]
  /\ image = [h \in Hooks |-> NoExe]
  /\ try = [c \in Callers |-> 0]
  /\ link = [c \in Conns |-> "none"]
  /\ open = [c \in Conns |-> FALSE]
  /\ inbox = [c \in Conns |-> Nothing]
  /\ outbox = [c \in Conns |-> NoReply]
  /\ sent = [c \in Conns |-> "none"]
  /\ daemon \in {"down", "accept"}
  /\ serving = NoConn
  /\ backlog = <<>>
  /\ offered = {}
  /\ failures = 0

-----------------------------------------------------------------------------
(***************************************************************************)
(* The exec hook                                                           *)
(***************************************************************************)

\* The guest calls execve; a failed call may be followed by another one
\* (execvp walking PATH).
Call(h, p) ==
  /\ pc[h] = "idle"
  /\ try[h] < MaxTries
  /\ pc' = [pc EXCEPT ![h] = "connect"]
  /\ path' = [path EXCEPT ![h] = p]
  /\ plan' = [plan EXCEPT ![h] = Original(p)]
  /\ try' = [try EXCEPT ![h] = @ + 1]
  /\ UNCHANGED <<image, connVars, hostVars>>

\* connect(2): blocks while the backlog is full.
Connect(c) ==
  /\ daemon # "down"
  /\ Len(backlog) < BacklogSize
  /\ link' = [link EXCEPT ![c] = "queued"]
  /\ open' = [open EXCEPT ![c] = TRUE]
  /\ backlog' = Append(backlog, c)
  /\ UNCHANGED <<inbox, outbox, sent, daemon, serving, offered, failures>>

HookConnect(h) ==
  /\ pc[h] = "connect"
  /\ Connect(Conn(h))
  /\ pc' = [pc EXCEPT ![h] = "send"]
  /\ UNCHANGED <<path, plan, image, try>>

\* rtd_obtain_path returns -1: close(fd), then execve(path).
FallBack(h) ==
  /\ pc' = [pc EXCEPT ![h] = "exec"]
  /\ open' = [open EXCEPT ![Conn(h)] = FALSE]
  /\ UNCHANGED <<path, plan, image, try, link, inbox, outbox, sent, hostVars>>

HookRefused(h) ==
  /\ pc[h] = "connect"
  /\ daemon = "down"
  /\ FallBack(h)

\* No socket, a socket path or a payload too long, a response that does not
\* fit, a short or interrupted read or write.
HookGivesUp(h) ==
  /\ pc[h] \in Awaiting
  /\ FallBack(h)

HookSend(h) ==
  /\ pc[h] = "send"
  /\ link[Conn(h)] # "closed"
  /\ inbox' = [inbox EXCEPT ![Conn(h)] = Obtain(path[h], BackendOf[h])]
  /\ pc' = [pc EXCEPT ![h] = "header"]
  /\ UNCHANGED <<path, plan, image, try, link, open, outbox, sent, hostVars>>

\* write(2) on a connection the daemon has dropped: EPIPE is preceded by
\* SIGPIPE, which kills a process that does not ignore it.
HookKilled(h) ==
  /\ pc[h] = "send"
  /\ link[Conn(h)] = "closed"
  /\ pc' = [pc EXCEPT ![h] = "killed"]
  /\ open' = [open EXCEPT ![Conn(h)] = FALSE]
  /\ UNCHANGED <<path, plan, image, try, link, inbox, outbox, sent, hostVars>>

HookReadHeader(h) ==
  /\ pc[h] = "header"
  /\ sent[Conn(h)] # "none"
  /\ outbox[Conn(h)].status = "Ready"
  /\ pc' = [pc EXCEPT ![h] = "body"]
  /\ UNCHANGED <<path, plan, image, try, connVars, hostVars>>

HookNotReady(h) ==
  /\ pc[h] = "header"
  /\ sent[Conn(h)] # "none"
  /\ outbox[Conn(h)].status # "Ready"
  /\ FallBack(h)

HookReadBody(h) ==
  /\ pc[h] = "body"
  /\ sent[Conn(h)] = "all"
  /\ plan' = [plan EXCEPT ![h] = outbox[Conn(h)].exe]
  /\ pc' = [pc EXCEPT ![h] = "exec"]
  /\ open' = [open EXCEPT ![Conn(h)] = FALSE]
  /\ UNCHANGED <<path, image, try, link, inbox, outbox, sent, hostVars>>

\* Mutant: a read of 0 bytes is retried, as an interrupted one would be.
EofRetried(h) ==
  /\ pc[h] = "send"
  /\ link[Conn(h)] = "closed"
  /\ FallBack(h)

\* The daemon closed before the bytes the hook is blocked on were written, or
\* before the request, in a guest that ignores SIGPIPE.
HookEof(h) ==
  /\ \/ pc[h] = "send"
     \/ pc[h] = "header" /\ sent[Conn(h)] = "none"
     \/ pc[h] = "body" /\ sent[Conn(h)] # "all"
  /\ link[Conn(h)] = "closed"
  /\ FallBack(h)

\* A body that the socket's buffer does not hold is longer than the hook's
\* own buffer, or its one read returns a part of it: no Ready for the hook.
HookShortBody(h) ==
  /\ pc[h] = "body"
  /\ daemon = "blocked"
  /\ serving = Conn(h)
  /\ FallBack(h)

HookExec(h) ==
  /\ pc[h] = "exec"
  /\ image' = [image EXCEPT ![h] = plan[h]]
  /\ pc' = [pc EXCEPT ![h] = "done"]
  /\ UNCHANGED <<path, plan, try, connVars, hostVars>>

\* The real execve fails; os_shim_execve returns its error to the guest.
HookExecFails(h) ==
  /\ pc[h] = "exec"
  /\ pc' = [pc EXCEPT ![h] = "idle"]
  /\ path' = [path EXCEPT ![h] = NoPath]
  /\ plan' = [plan EXCEPT ![h] = NoExe]
  /\ UNCHANGED <<image, try, connVars, hostVars>>

-----------------------------------------------------------------------------
(***************************************************************************)
(* Other clients: they may stop after any prefix of a frame, send frames   *)
(* that do not decode, leave a response unread, and close at any time.     *)
(***************************************************************************)
PeerConnected(c) == try[c] # 0 /\ open[Conn(c)]

PeerConnect(c) ==
  /\ try[c] < MaxTries
  /\ ~PeerConnected(c)
  /\ try' = [try EXCEPT ![c] = @ + 1]
  /\ Connect(<<c, try[c] + 1>>)
  /\ UNCHANGED guestVars

PeerSend(c, req) ==
  /\ c \notin Silent
  /\ PeerConnected(c)
  /\ link[Conn(c)] # "closed"
  /\ ~Complete(Conn(c))
  /\ inbox' = [inbox EXCEPT ![Conn(c)] = req]
  /\ UNCHANGED <<guestVars, try, link, open, outbox, sent, hostVars>>

\* A peer reads on until the buffer has room for the rest.
PeerRead(c) ==
  /\ PeerConnected(c)
  /\ daemon = "blocked"
  /\ serving = Conn(c)
  /\ daemon' = "write"
  /\ UNCHANGED <<guestVars, try, connVars, serving, backlog, offered, failures>>

PeerClose(c) ==
  /\ PeerConnected(c)
  /\ open' = [open EXCEPT ![Conn(c)] = FALSE]
  /\ UNCHANGED <<guestVars, try, link, inbox, outbox, sent, hostVars>>

-----------------------------------------------------------------------------
(***************************************************************************)
(* The daemon                                                              *)
(***************************************************************************)
Accept ==
  /\ daemon = "accept"
  /\ backlog # <<>>
  /\ serving' = Head(backlog)
  /\ backlog' = Tail(backlog)
  /\ link' = [link EXCEPT ![Head(backlog)] = "accepted"]
  /\ daemon' = "read"
  /\ UNCHANGED <<guestVars, try, open, inbox, outbox, sent, offered, failures>>

\* Mutant: the cloned reader outlives the handler.
DropLeaked ==
  /\ serving' = NoConn
  /\ daemon' = "accept"
  /\ UNCHANGED link

\* handle_client is over, with or without an error: the stream is dropped.
Drop ==
  /\ link' = [link EXCEPT ![serving] = "closed"]
  /\ serving' = NoConn
  /\ daemon' = "accept"

\* try_clone fails (no descriptor left) before anything is read.
CloneFails ==
  /\ daemon = "read"
  /\ failures < MaxFailures
  /\ failures' = failures + 1
  /\ Drop
  /\ UNCHANGED <<guestVars, try, open, inbox, outbox, sent, backlog, offered>>

ReadFrame ==
  /\ daemon = "read"
  /\ Complete(serving)
  /\ daemon' = "dispatch"
  /\ UNCHANGED <<guestVars, try, connVars, serving, backlog, offered, failures>>

\* Mutant: a read timeout on the accepted stream.
ReadTimeout ==
  /\ daemon = "read"
  /\ ~Complete(serving)
  /\ Drop
  /\ UNCHANGED <<guestVars, try, open, inbox, outbox, sent, backlog, offered, failures>>

\* Mutant: the end of the stream before a frame is not seen as an error.
EofMidFrameOnly ==
  /\ daemon = "read"
  /\ inbox[serving] = Partial
  /\ ~open[serving]
  /\ Drop
  /\ UNCHANGED <<guestVars, try, open, inbox, outbox, sent, backlog, offered, failures>>

\* read_exact meets the end of the stream inside a frame.
ReadEof ==
  /\ daemon = "read"
  /\ ~Complete(serving)
  /\ ~open[serving]
  /\ Drop
  /\ UNCHANGED <<guestVars, try, open, inbox, outbox, sent, backlog, offered, failures>>

\* handle_frame, the registry locked throughout.  A backend that answers
\* Exec has made its artifact.
Dispatch ==
  /\ daemon = "dispatch"
  /\ \E verdict \in [Registered -> Verdicts], outcome \in Outcomes :
       LET answer == HandleFrame(inbox[serving], verdict, outcome)
       IN  /\ outbox' = [outbox EXCEPT ![serving] = answer]
           /\ offered' = IF answer.status = "Ready"
                         THEN offered \cup {<<answer.backend, answer.exe.path>>}
                         ELSE offered
  /\ daemon' = "write"
  /\ UNCHANGED <<guestVars, try, link, open, inbox, sent, serving, backlog, failures>>

\* write_all may need more than one write(2).
WriteSome ==
  /\ daemon = "write"
  /\ open[serving]
  /\ sent[serving] = "none"
  /\ sent' = [sent EXCEPT ![serving] = "part"]
  /\ UNCHANGED <<guestVars, try, link, open, inbox, outbox, hostVars>>

\* Mutant: a response that does not fit the buffer is given up.
WriteGivesUp ==
  /\ daemon = "write"
  /\ open[serving]
  /\ sent[serving] = "none"
  /\ inbox[serving].op \notin {"Ping", "Invalid"}
  /\ sent' = [sent EXCEPT ![serving] = "part"]
  /\ Drop
  /\ UNCHANGED <<guestVars, try, open, inbox, outbox, backlog, offered, failures>>

\* What was written fills the socket's buffer, and write(2) waits until the
\* client reads.  The answers to Ping and to a frame that does not decode are
\* a few bytes; the others repeat ids and messages of any length.
WriteBlocks ==
  /\ daemon = "write"
  /\ open[serving]
  /\ sent[serving] = "none"
  /\ inbox[serving].op \notin {"Ping", "Invalid"}
  /\ sent' = [sent EXCEPT ![serving] = "part"]
  /\ daemon' = "blocked"
  /\ UNCHANGED <<guestVars, try, link, open, inbox, outbox, serving, backlog,
                 offered, failures>>

\* Mutant: the connection is kept for another request.
WriteAndKeep ==
  /\ daemon = "write"
  /\ open[serving]
  /\ sent' = [sent EXCEPT ![serving] = "all"]
  /\ daemon' = "read"
  /\ UNCHANGED <<guestVars, try, link, open, inbox, outbox, serving, backlog,
                 offered, failures>>

\* The buffer holds what is left of the response.
WriteRest ==
  /\ daemon = "write"
  /\ open[serving]
  /\ sent' = [sent EXCEPT ![serving] = "all"]
  /\ Drop
  /\ UNCHANGED <<guestVars, try, open, inbox, outbox, backlog, offered, failures>>

\* The client is gone: write_all fails and the error is ignored.
WriteBroken ==
  /\ daemon \in {"write", "blocked"}
  /\ ~open[serving]
  /\ Drop
  /\ UNCHANGED <<guestVars, try, open, inbox, outbox, sent, backlog, offered, failures>>

\* run_on_listener returns on an accept error, a backend panics under the
\* lock, or the process is killed: every connection of the listener closes.
Stop ==
  /\ daemon # "down"
  /\ failures < MaxFailures
  /\ failures' = failures + 1
  /\ daemon' = "down"
  /\ serving' = NoConn
  /\ backlog' = <<>>
  /\ link' = [c \in Conns |-> IF link[c] = "none" THEN "none" ELSE "closed"]
  /\ UNCHANGED <<guestVars, try, open, inbox, outbox, sent, offered>>

\* bind_socket unlinks the stale socket file and binds anew.
Start ==
  /\ daemon = "down"
  /\ daemon' = "accept"
  /\ UNCHANGED <<guestVars, try, connVars, serving, backlog, offered, failures>>

-----------------------------------------------------------------------------
HookStep(h) ==
  \/ HookConnect(h) \/ HookRefused(h) \/ HookSend(h)
  \/ HookReadHeader(h) \/ HookNotReady(h) \/ HookReadBody(h) \/ HookEof(h)
  \/ HookShortBody(h) \/ HookExec(h) \/ HookExecFails(h)

PeerStep(c) ==
  \/ PeerConnect(c)
  \/ \E req \in Request \cup {Partial} : PeerSend(c, req)
  \/ PeerRead(c)
  \/ PeerClose(c)

DaemonStep ==
  \/ Accept \/ ReadFrame \/ ReadEof \/ Dispatch
  \/ WriteSome \/ WriteBlocks \/ WriteRest \/ WriteBroken

Next ==
  \/ \E h \in Hooks, p \in Paths : Call(h, p)
  \/ \E h \in Hooks : HookStep(h) \/ HookGivesUp(h) \/ HookKilled(h)
  \/ \E c \in Peers : PeerStep(c)
  \/ DaemonStep
  \/ CloneFails \/ Stop \/ Start

Spec == Init /\ [][Next]_vars

(***************************************************************************)
(* A process inside os_shim_execve is never left unscheduled, and neither  *)
(* is the daemon's only thread.  A backend's obtain is assumed to return.  *)
(* Nothing makes a peer send, read or close, and nothing restarts a        *)
(* daemon.                                                                 *)
(***************************************************************************)
FairSpec ==
  /\ Spec
  /\ \A h \in Hooks : WF_vars(HookStep(h))
  /\ WF_vars(DaemonStep)

-----------------------------------------------------------------------------
(***************************************************************************)
(* Properties                                                              *)
(***************************************************************************)

\* Every variable stays in its set: hooks, connections, the accept loop.
TypeOK ==
  /\ pc \in [Hooks -> HookPc]
  /\ path \in [Hooks -> Paths \cup {NoPath}]
  /\ plan \in [Hooks -> Exes \cup {NoExe}]
  /\ image \in [Hooks -> Exes \cup {NoExe}]
  /\ try \in [Callers -> 0..MaxTries]
  /\ link \in [Conns -> {"none", "queued", "accepted", "closed"}]
  /\ open \in [Conns -> BOOLEAN]
  /\ inbox \in [Conns -> Request \cup {Nothing, Partial}]
  /\ outbox \in [Conns -> Response \cup {NoReply}]
  /\ sent \in [Conns -> {"none", "part", "all"}]
  /\ daemon \in {"down", "accept", "read", "dispatch", "write", "blocked"}
  /\ serving \in Conns \cup {NoConn}
  /\ backlog \in Seq(Conns)
  /\ offered \in SUBSET (Registered \X Paths)
  /\ failures \in 0..MaxFailures

\* A process that runs an artifact runs the one its own backend made, and
\* had finished making, from the path this very call named; otherwise it
\* runs that path (os_shim_execve, whatever the other clients do and
\* however often the daemon is restarted).
RunsWhatWasAsked ==
  \A h \in Hooks : image[h] # NoExe =>
    \/ image[h] = Original(path[h])
    \/ /\ image[h] = Artifact(BackendOf[h], path[h])
       /\ <<BackendOf[h], path[h]>> \in offered

\* A response on a connection answers the request of that connection: its
\* status is one the operation has, and a Ready names the asked id and path
\* (handle_client writes what handle_frame made of the frame it has read).
AnswersTheRequest ==
  \A c \in Conns : outbox[c] # NoReply => AnswerFits(inbox[c], outbox[c])

\* A connection is in exactly one place: in the backlog once and queued, or
\* held by handle_client and accepted, or neither (no connection is leaked
\* open by an error path, none is served twice).
OnePlace ==
  /\ \A c \in Conns :
       /\ link[c] = "accepted" <=> c = serving
       /\ link[c] = "queued" <=> \E i \in 1..Len(backlog) : backlog[i] = c
  /\ \A i, j \in 1..Len(backlog) : backlog[i] = backlog[j] => i = j
  /\ serving = NoConn <=> daemon \in {"down", "accept"}

\* The hook gets a guest killed (SIGPIPE) only after the daemon has stopped
\* or run out of descriptors: a daemon that keeps serving never closes on a
\* hook that has yet to write its request.
KilledOnlyByFailure ==
  (\E h \in Hooks : pc[h] = "killed") => failures > 0

\* A call is answered at most once: what the daemon has written to a client
\* is never changed, taken back or extended after the response is complete.
ResponseIsFinal ==
  [][\A c \in Conns : sent[c] # "none" =>
        /\ outbox'[c] = outbox[c]
        /\ sent'[c] = sent[c] \/ (sent[c] = "part" /\ sent'[c] = "all")]_vars

\* The daemon hangs up on a client that has closed neither direction of its
\* connection only after the whole response was written, unless it stopped or
\* had no descriptor left: no frame that does not decode, no unknown id and no
\* slow client makes handle_client return early.
NoHangUp ==
  \A c \in Conns : link[c] = "closed" /\ open[c] => sent[c] = "all" \/ failures > 0

\* The daemon is held by one client: in read_exact by one that neither writes
\* nor closes, in write_all by one that neither reads nor closes.  There is no
\* timeout for either.
HeldByPeer ==
  /\ \/ daemon = "read" /\ ~Complete(serving)
     \/ daemon = "blocked"
  /\ serving[1] \in Peers
  /\ open[serving]

\* An execve returns, succeeds or dies with the process, unless from some
\* point on one client holds the daemon forever, silent or not reading: this
\* head-of-line blocking is the only way the hook can hang a guest.
ExecveReturns ==
  []<>~HeldByPeer =>
    \A h \in Hooks : pc[h] \in Awaiting ~> pc[h] \notin Awaiting

\* Every accepted connection is closed again, under the same proviso.
EveryClientReleased ==
  []<>~HeldByPeer =>
    \A c \in Conns : link[c] \in {"queued", "accepted"} ~> link[c] = "closed"

-----------------------------------------------------------------------------
(***************************************************************************)
(* The promise of TransformService, kept.                                  *)
(***************************************************************************)
Service ==
  INSTANCE TransformService WITH
    asked <- path,
    dead <- {h \in Hooks : pc[h] = "killed"}

ServiceSpec == Service!Spec
=============================================================================
