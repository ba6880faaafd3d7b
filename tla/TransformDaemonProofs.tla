----------------------- MODULE TransformDaemonProofs ------------------------
(***************************************************************************)
(* The safety properties of TransformDaemon, for any number of hooks,      *)
(* other clients, backends, paths, tries and failures.                     *)
(*                                                                         *)
(* One lemma per conjunct of the inductive invariant IInv shows that every *)
(* step preserves it; the theorems at the end put them together.           *)
(***************************************************************************)
EXTENDS TransformDaemonInv, SequenceTheorems, WellFoundedInduction, TLAPS

-----------------------------------------------------------------------------
(***************************************************************************)
(* What the routing operators of DaemonDispatch return, for every registry *)
(* and every verdict of its backends.                                      *)
(***************************************************************************)

\* A nonempty set of ids has a first one in sort order.
LEMMA FirstIsLeast ==
  ASSUME NEW S, S \subseteq Nat, S # {}
  PROVE  FirstId(S) \in S /\ \A j \in S : FirstId(S) <= j
<1> DEFINE R == OpToRel(<, Nat)
<1>1. PICK m \in S : \A y \in S : ~ (<<y, m>> \in R)
  <2> HIDE DEF R
  <2>1. IsWellFoundedOn(R, Nat)
    BY NatLessThanWellFounded DEF R
  <2> QED
    BY <2>1, WFMin
<1>2. \A y \in S : ~ (y < m)
  <2> SUFFICES ASSUME NEW y \in S, y < m PROVE FALSE
    OBVIOUS
  <2>1. <<y, m>> \in {ss \in Nat \X Nat : ss[1] < ss[2]}
    OBVIOUS
  <2> QED
    BY <1>1, <2>1 DEF OpToRel
<1>3. \A y \in S : m <= y
  BY <1>2
<1> QED
  BY <1>3 DEF FirstId

\* A set of ids with a last one in sort order.
LEMMA LastIsGreatest ==
  ASSUME NEW S, \E i \in S : \A j \in S : j <= i
  PROVE  LastId(S) \in S /\ \A j \in S : j <= LastId(S)
  BY DEF LastId

\* Dispatch answers every decoded request with a response of the protocol.
LEMMA HandleFrameType ==
  ASSUME NEW req \in Request, NEW verdict \in [Registered -> Verdicts],
         NEW outcome \in Outcomes
  PROVE  HandleFrame(req, verdict, outcome) \in Response
<1>1. HandleAnalyze(req.backend, verdict) \in Response
  <2>1. \A i \in Registered : AnalyzeOne(i, verdict) \in Response
    BY IdAssumption DEF AnalyzeOne, Response, Reply, Statuses, Verdicts
  <2>2. AnalyzeAny(verdict) \in Response
    <3>1. Suitable(verdict) # {} => FirstId(Suitable(verdict)) \in Registered
      BY IdAssumption, FirstIsLeast DEF Suitable
    <3>2. Registered # {} => LastId(Registered) \in Registered
      BY IdAssumption, LastIsGreatest
    <3>3. Reply("Unsuitable", NoId) \in Response
      BY DEF Reply, Response, Statuses
    <3> QED
      BY <2>1, <3>1, <3>2, <3>3 DEF AnalyzeAny
  <2>3. Reply("Error", NoId) \in Response
    BY DEF Reply, Response, Statuses
  <2> QED
    BY <2>1, <2>2, <2>3 DEF HandleAnalyze
<1>2. CASE req.op = "Obtain"
  <2>1. req.path \in Paths /\ req.backend \in Ids
    BY <1>2 DEF Request, Plain, Analyze, Obtain
  <2>2. req.backend \in Registered => Ready(req.backend, req.path) \in Response
    BY <2>1 DEF Ready, Response, Statuses, Exes
  <2>3. \A s \in {"Error", "Unsuitable"}, b \in {req.backend, NoId} : Reply(s, b) \in Response
    BY <2>1 DEF Reply, Response, Statuses
  <2> QED
    BY <1>2, <2>2, <2>3 DEF HandleFrame, HandleObtain, Outcomes
<1>3. CASE req.op # "Obtain"
  <2>1. req.op \in {"Ping", "ListBackends", "Invalid", "Analyze"}
    BY <1>3 DEF Request, Plain, Analyze, Obtain
  <2>2. \A s \in {"Error", "Pong", "Backends"} : Reply(s, NoId) \in Response
    BY DEF Reply, Response, Statuses
  <2> QED
    BY <1>1, <2>1, <2>2 DEF HandleFrame
<1> QED
  BY <1>2, <1>3

\* A Ready response can only come from Obtain: it names the id and the path
\* of the request, and the id is registered.
LEMMA HandleFrameReady ==
  ASSUME NEW req \in Request, NEW verdict \in [Registered -> Verdicts],
         NEW outcome \in Outcomes,
         HandleFrame(req, verdict, outcome).status = "Ready"
  PROVE  /\ req.op = "Obtain"
         /\ req.backend \in Registered
         /\ req.path \in Paths
         /\ HandleFrame(req, verdict, outcome) = Ready(req.backend, req.path)
         /\ HandleFrame(req, verdict, outcome).backend = req.backend
         /\ HandleFrame(req, verdict, outcome).exe.path = req.path
<1>1. HandleAnalyze(req.backend, verdict).status # "Ready"
  <2>1. \A i \in Registered : AnalyzeOne(i, verdict).status # "Ready"
    BY DEF AnalyzeOne, Reply, Verdicts
  <2>2. Suitable(verdict) # {} => FirstId(Suitable(verdict)) \in Registered
    BY IdAssumption, FirstIsLeast DEF Suitable
  <2>3. Registered # {} => LastId(Registered) \in Registered
    BY IdAssumption, LastIsGreatest
  <2> QED
    BY <2>1, <2>2, <2>3 DEF HandleAnalyze, AnalyzeAny, Reply
<1>2. req.op \in {"Ping", "ListBackends", "Invalid", "Analyze", "Obtain"}
  BY DEF Request, Plain, Analyze, Obtain
<1>3. req.op = "Obtain"
  BY <1>1, <1>2 DEF HandleFrame, Reply
<1>4. req.path \in Paths
  BY <1>3 DEF Request, Plain, Analyze, Obtain
<1>5. HandleObtain(req.path, req.backend, outcome).status = "Ready"
  BY <1>3 DEF HandleFrame
<1>6. req.backend \in Registered /\ outcome = "Exec"
  BY <1>5 DEF HandleObtain, Outcomes, Reply
<1>7. HandleFrame(req, verdict, outcome) = Ready(req.backend, req.path)
  BY <1>3, <1>6 DEF HandleFrame, HandleObtain
<1> QED
  BY <1>3, <1>4, <1>6, <1>7 DEF Ready, Artifact

\* An answer that is ready hands over what the request named.
Hands(answer, req) ==
  answer.status = "Ready" =>
    /\ req.backend \in Registered /\ req.path \in Paths
    /\ answer.backend = req.backend
    /\ answer.exe.path = req.path

\* handle_frame answers so.
LEMMA HandleFrameHands ==
  \A req \in Request, verdict \in [Registered -> Verdicts], outcome \in Outcomes :
    Hands(HandleFrame(req, verdict, outcome), req)
  BY HandleFrameReady DEF Hands

\* The response has a status the operation can have, and a Ready or an
\* Unsuitable of Obtain names the id of the request.
LEMMA HandleFrameFits ==
  ASSUME NEW req \in Request, NEW verdict \in [Registered -> Verdicts],
         NEW outcome \in Outcomes
  PROVE  AnswerFits(req, HandleFrame(req, verdict, outcome))
<1>1. HandleAnalyze(req.backend, verdict).status \in Verdicts
  <2>1. \A i \in Registered : AnalyzeOne(i, verdict).status \in Verdicts
    BY DEF AnalyzeOne, Reply
  <2>2. Suitable(verdict) # {} => FirstId(Suitable(verdict)) \in Registered
    BY IdAssumption, FirstIsLeast DEF Suitable
  <2>3. Registered # {} => LastId(Registered) \in Registered
    BY IdAssumption, LastIsGreatest
  <2> QED
    BY <2>1, <2>2, <2>3 DEF HandleAnalyze, AnalyzeAny, Reply, Verdicts
<1>2. HandleObtain(req.path, req.backend, outcome)
        \in {Ready(req.backend, req.path), Reply("Unsuitable", req.backend), Reply("Error", NoId)}
  BY DEF HandleObtain, Outcomes
<1>3. req.op \in {"Ping", "ListBackends", "Invalid", "Analyze", "Obtain"}
  BY DEF Request, Plain, Analyze, Obtain
<1> QED
  BY <1>1, <1>2, <1>3 DEF AnswerFits, HandleFrame, Reply

-----------------------------------------------------------------------------
(***************************************************************************)
(* The inductive invariant.                                                *)
(***************************************************************************)

\* The value that stands for no connection is not a connection.
LEMMA NoConnIsNone == NoConn \notin Conns
  BY DaemonAssumption DEF NoConn, Conns

\* A client that has opened a connection has a current one.
LEMMA ConnIsConn ==
  ASSUME TypeOK, NEW c \in Callers, try[c] >= 1
  PROVE  Conn(c) \in Conns /\ Conn(c)[1] = c /\ Conn(c)[2] = try[c]
  BY DaemonAssumption DEF TypeOK, Conn, Conns

\* The current connections of two clients differ.
LEMMA ConnInjective ==
  ASSUME NEW c, NEW d, Conn(c) = Conn(d)
  PROVE  c = d
  BY DEF Conn

\* A client's next connection is a new one.
LEMMA NewConnIsFresh ==
  ASSUME TypeOK, ConnInv, NEW c \in Callers, try[c] < MaxTries
  PROVE  /\ <<c, try[c] + 1>> \in Conns
         /\ link[<<c, try[c] + 1>>] = "none"
<1>1. try[c] \in Nat /\ try[c] + 1 \in 1..MaxTries
  BY DaemonAssumption DEF TypeOK
<1>2. <<c, try[c] + 1>> \in Conns
  BY <1>1 DEF Conns
<1>3. <<c, try[c] + 1>>[2] > try[<<c, try[c] + 1>>[1]]
  BY <1>1
<1> QED
  BY <1>2, <1>3 DEF ConnInv, ConnOK

\* A hook is a client, and not an arbitrary one.
LEMMA HookIsCaller == \A h \in Hooks : h \in Callers /\ h \notin Peers
  BY DaemonAssumption DEF Callers

\* What a hook sends is a request of the protocol.
LEMMA ObtainIsRequest ==
  ASSUME NEW p \in Paths, NEW b \in Ids
  PROVE  Obtain(p, b) \in Request
  BY DEF Request

\* What handle_client holds is a connection, once it holds one.
LEMMA ServingIsConn ==
  ASSUME TypeOK, OnePlace, daemon \in {"read", "dispatch", "write", "blocked"}
  PROVE  serving \in Conns /\ link[serving] = "accepted"
  BY DEF TypeOK, OnePlace

\* The connection that accept takes is one that waits in the listener.
LEMMA HeadIsQueued ==
  ASSUME TypeOK, OnePlace, backlog # <<>>
  PROVE  Head(backlog) \in Conns /\ link[Head(backlog)] = "queued"
<1>1. backlog \in Seq(Conns)
  BY DEF TypeOK
<1>2. Head(backlog) = backlog[1] /\ Head(backlog) \in Conns /\ 1 \in 1..Len(backlog)
  BY <1>1, HeadTailProperties
<1> QED
  BY <1>2 DEF OnePlace

\* The steps, sorted by what they do to the connections and the accept loop.
LEMMA NextCases ==
  ASSUME [Next]_vars
  PROVE  \/ \E h \in Hooks : HookConnect(h)
         \/ \E c \in Peers : PeerConnect(c)
         \/ \E c \in Peers : PeerRead(c)
         \/ DaemonStep \/ CloneFails \/ Stop \/ Start
         \/ UNCHANGED <<link, serving, backlog, daemon>>
  BY DEF Next, vars, guestVars, connVars, hostVars, HookStep, PeerStep, Call,
         HookRefused, HookGivesUp, HookSend, HookKilled, HookReadHeader,
         HookNotReady, HookReadBody, HookEof, HookShortBody, HookExec, HookExecFails,
         FallBack, PeerSend, PeerClose

-----------------------------------------------------------------------------
(***************************************************************************)
(* TypeOK                                                                  *)
(***************************************************************************)
LEMMA InitTypeOK == Init => TypeOK
  BY DaemonAssumption DEF Init, TypeOK, HookPc, Callers

\* A step of a hook keeps the types.
LEMMA HookTypeOK ==
  ASSUME TypeOK, HookInv, NEW h \in Hooks,
         HookStep(h) \/ HookGivesUp(h) \/ HookKilled(h)
  PROVE  TypeOK'
<1> USE DEF TypeOK, HookPc, Awaiting
<1>1. CASE HookConnect(h)
  <2>1. Conn(h) \in Conns
    BY <1>1, ConnIsConn, HookIsCaller DEF HookConnect, HookInv, HookOK
  <2>2. backlog' = Append(backlog, Conn(h))
    BY <1>1 DEF HookConnect, Connect
  <2>3. backlog' \in Seq(Conns)
    BY <2>1, <2>2, AppendProperties
  <2> QED
    BY <1>1, <2>3 DEF HookConnect, Connect
<1>2. CASE HookRefused(h)
  BY <1>2 DEF HookRefused, FallBack, hostVars
<1>3. CASE HookGivesUp(h)
  BY <1>3 DEF HookGivesUp, FallBack, hostVars
<1>4. CASE HookSend(h)
  <2>1. path[h] \in Paths /\ BackendOf[h] \in Ids
    BY <1>4, DaemonAssumption DEF HookSend, HookInv, HookOK
  <2>2. Obtain(path[h], BackendOf[h]) \in Request
    BY <2>1, ObtainIsRequest
  <2> QED
    BY <1>4, <2>2 DEF HookSend, hostVars
<1>5. CASE HookKilled(h)
  BY <1>5 DEF HookKilled, hostVars
<1>6. CASE HookReadHeader(h)
  BY <1>6 DEF HookReadHeader, hostVars, connVars
<1>7. CASE HookNotReady(h)
  BY <1>7 DEF HookNotReady, FallBack, hostVars
<1>8. CASE HookReadBody(h)
  <2>1. Conn(h) \in Conns
    BY <1>8, ConnIsConn, HookIsCaller DEF HookReadBody, HookInv, HookOK
  <2>2. outbox[Conn(h)].exe \in Exes \cup {NoExe}
    BY <2>1 DEF Response, NoReply, Reply
  <2> QED
    BY <1>8, <2>2 DEF HookReadBody, hostVars
<1>9. CASE HookEof(h)
  BY <1>9 DEF HookEof, FallBack, hostVars
<1>10. CASE HookExec(h)
  BY <1>10 DEF HookExec, hostVars, connVars
<1>11. CASE HookExecFails(h)
  BY <1>11 DEF HookExecFails, hostVars, connVars
<1>12. CASE HookShortBody(h)
  BY <1>12 DEF HookShortBody, FallBack, hostVars
<1> QED
  BY <1>1, <1>2, <1>3, <1>4, <1>5, <1>6, <1>7, <1>8, <1>9, <1>10, <1>11, <1>12 DEF HookStep

\* A step of the daemon, a failure or a restart keeps the types.
LEMMA DaemonTypeOK ==
  ASSUME TypeOK, OnePlace, ServingInv,
         DaemonStep \/ CloneFails \/ Stop \/ Start
  PROVE  TypeOK'
<1> USE DEF TypeOK, guestVars, connVars
<1>1. CASE Accept
  <2>1. Head(backlog) \in Conns /\ Tail(backlog) \in Seq(Conns)
    BY <1>1, HeadTailProperties DEF Accept
  <2> QED
    BY <1>1, <2>1 DEF Accept
<1>2. CASE CloneFails
  <2>1. failures + 1 \in 0..MaxFailures
    BY <1>2, DaemonAssumption DEF CloneFails
  <2> QED
    BY <1>2, <2>1 DEF CloneFails, Drop
<1>3. CASE ReadFrame
  BY <1>3 DEF ReadFrame
<1>4. CASE ReadEof
  BY <1>4 DEF ReadEof, Drop
<1>5. CASE Dispatch
  <2>1. PICK verdict \in [Registered -> Verdicts], outcome \in Outcomes :
          LET answer == HandleFrame(inbox[serving], verdict, outcome)
          IN  /\ outbox' = [outbox EXCEPT ![serving] = answer]
              /\ offered' = IF answer.status = "Ready"
                            THEN offered \cup {<<answer.backend, answer.exe.path>>}
                            ELSE offered
    BY <1>5 DEF Dispatch
  <2> DEFINE answer == HandleFrame(inbox[serving], verdict, outcome)
  <2>2. inbox[serving] \in Request
    BY <1>5, ServingIsConn DEF Dispatch, ServingInv, Complete
  <2>3. answer \in Response
    BY <2>2, HandleFrameType
  <2>4. answer.status = "Ready" => answer.backend \in Registered /\ answer.exe.path \in Paths
    <3>1. ASSUME answer.status = "Ready"
          PROVE  /\ inbox[serving].backend \in Registered /\ inbox[serving].path \in Paths
                 /\ answer.backend = inbox[serving].backend
                 /\ answer.exe.path = inbox[serving].path
      <4>1. Hands(answer, inbox[serving])
        BY <2>2, HandleFrameHands, Zenon
      <4> HIDE DEF answer
      <4> QED
        BY <3>1, <4>1, Zenon DEF Hands
    <3> HIDE DEF answer
    <3> QED
      BY <3>1, Zenon
  <2>5. outbox' = [outbox EXCEPT ![serving] = answer]
    BY <2>1
  <2>6. offered' \in SUBSET (Registered \X Paths)
    <3>1. CASE answer.status = "Ready"
      <4>1. offered' = offered \cup {<<answer.backend, answer.exe.path>>}
        BY <2>1, <3>1
      <4> HIDE DEF answer
      <4> QED
        BY <2>4, <3>1, <4>1
    <3>2. CASE answer.status # "Ready"
      <4>1. offered' = offered
        BY <2>1, <3>2
      <4> QED
        BY <4>1
    <3> QED
      BY <3>1, <3>2
  <2> HIDE DEF answer
  <2>7. outbox' \in [Conns -> Response \cup {NoReply}]
    BY <2>3, <2>5
  <2> QED
    BY <1>5, <2>6, <2>7 DEF Dispatch
<1>6. CASE WriteSome
  BY <1>6 DEF WriteSome, hostVars
<1>7. CASE WriteRest
  BY <1>7 DEF WriteRest, Drop
<1>8. CASE WriteBroken
  BY <1>8 DEF WriteBroken, Drop
<1>9. CASE Stop
  <2>1. failures + 1 \in 0..MaxFailures
    BY <1>9, DaemonAssumption DEF Stop
  <2> QED
    BY <1>9, <2>1 DEF Stop
<1>10. CASE Start
  BY <1>10 DEF Start
<1>11. CASE WriteBlocks
  BY <1>11 DEF WriteBlocks
<1> QED
  BY <1>1, <1>2, <1>3, <1>4, <1>5, <1>6, <1>7, <1>8, <1>9, <1>10, <1>11 DEF DaemonStep

\* A new call and a step of an arbitrary client keep the types.
LEMMA ClientTypeOK ==
  ASSUME TypeOK,
         \/ \E h \in Hooks, p \in Paths : Call(h, p)
         \/ \E c \in Peers : PeerStep(c)
  PROVE  TypeOK'
<1> USE DEF TypeOK, guestVars, connVars, hostVars
<1>1. ASSUME NEW h \in Hooks, NEW p \in Paths, Call(h, p) PROVE TypeOK'
  <2>1. try[h] + 1 \in 0..MaxTries
    BY <1>1, HookIsCaller, DaemonAssumption DEF Call
  <2>2. Original(p) \in Exes \cup {NoExe}
    BY DEF Exes
  <2> QED
    BY <1>1, <2>1, <2>2 DEF Call, HookPc, Awaiting
<1>2. ASSUME NEW c \in Peers, PeerStep(c) PROVE TypeOK'
  <2>1. CASE PeerConnect(c)
    <3>1. try[c] + 1 \in 1..MaxTries
      BY <2>1, DaemonAssumption DEF PeerConnect, Callers
    <3>2. backlog' \in Seq(Conns)
      <4>1. <<c, try[c] + 1>> \in Conns
        BY <3>1 DEF Conns, Callers
      <4>2. backlog' = Append(backlog, <<c, try[c] + 1>>)
        BY <2>1 DEF PeerConnect, Connect
      <4> QED
        BY <4>1, <4>2, AppendProperties
    <3>3. try' \in [Callers -> 0..MaxTries]
      <4>1. try' = [try EXCEPT ![c] = try[c] + 1] /\ try[c] + 1 \in 0..MaxTries
        BY <2>1, <3>1 DEF PeerConnect
      <4> QED
        BY <4>1
    <3> QED
      BY <2>1, <3>2, <3>3 DEF PeerConnect, Connect
  <2>2. ASSUME NEW req \in Request \cup {Partial}, PeerSend(c, req) PROVE TypeOK'
    BY <2>2 DEF PeerSend
  <2>3. CASE PeerClose(c)
    BY <2>3 DEF PeerClose
  <2>4. CASE PeerRead(c)
    BY <2>4 DEF PeerRead
  <2> QED
    BY <1>2, <2>1, <2>2, <2>3, <2>4 DEF PeerStep
<1> QED
  BY <1>1, <1>2

-----------------------------------------------------------------------------
(***************************************************************************)
(* OnePlace                                                                *)
(***************************************************************************)
LEMMA InitOnePlace == Init => OnePlace
  BY NoConnIsNone DEF Init, OnePlace

\* A connection that is opened enters the listener's queue, and was in no place before.
LEMMA ConnectOnePlace ==
  ASSUME TypeOK, OnePlace, NEW c \in Conns, link[c] = "none", Connect(c)
  PROVE  OnePlace'
<1>1. backlog \in Seq(Conns) /\ backlog' = Append(backlog, c)
  BY DEF TypeOK, Connect
<1>2. /\ Len(backlog') = Len(backlog) + 1
      /\ \A i \in 1..Len(backlog) : backlog'[i] = backlog[i]
      /\ backlog'[Len(backlog) + 1] = c
      /\ Len(backlog) \in Nat
  BY <1>1, AppendProperties
<1>3. \A d \in Conns : link'[d] = IF d = c THEN "queued" ELSE link[d]
  BY DEF Connect, TypeOK
<1>4. \A i \in 1..Len(backlog) : backlog[i] # c
  BY DEF OnePlace
<1>5. c # serving
  BY DEF OnePlace
<1>6. serving' = serving /\ daemon' = daemon
  BY DEF Connect
<1>7. ASSUME NEW d \in Conns
      PROVE  link'[d] = "queued" <=> \E i \in 1..Len(backlog') : backlog'[i] = d
  <2>1. CASE d = c
    BY <1>2, <1>3, <2>1
  <2>2. CASE d # c
    <3>1. link[d] = "queued" <=> \E i \in 1..Len(backlog) : backlog[i] = d
      BY DEF OnePlace
    <3>2. (\E i \in 1..Len(backlog) : backlog[i] = d)
            <=> (\E i \in 1..Len(backlog') : backlog'[i] = d)
      BY <1>2, <2>2
    <3> QED
      BY <1>3, <2>2, <3>1, <3>2
  <2> QED
    BY <2>1, <2>2
<1>8. ASSUME NEW i \in 1..Len(backlog'), NEW j \in 1..Len(backlog'), backlog'[i] = backlog'[j]
      PROVE  i = j
  BY <1>2, <1>4, <1>8 DEF OnePlace
<1>9. \A d \in Conns : link'[d] = "accepted" <=> d = serving'
  BY <1>3, <1>5, <1>6 DEF OnePlace
<1> QED
  BY <1>6, <1>7, <1>8, <1>9 DEF OnePlace

\* Accepting moves the first connection from the queue to the daemon.
LEMMA AcceptOnePlace ==
  ASSUME TypeOK, OnePlace, Accept
  PROVE  OnePlace'
<1> DEFINE c == Head(backlog)
<1>1. backlog \in Seq(Conns) /\ backlog # <<>> /\ backlog' = Tail(backlog)
  BY DEF TypeOK, Accept
<1>2. /\ c \in Conns
      /\ c = backlog[1]
      /\ Len(backlog) \in Nat \ {0}
      /\ Len(backlog') = Len(backlog) - 1
      /\ \A i \in 1..Len(backlog') : backlog'[i] = backlog[i + 1]
  BY <1>1, HeadTailProperties
<1> HIDE DEF c
<1>3. \A d \in Conns : link'[d] = IF d = c THEN "accepted" ELSE link[d]
  BY <1>2 DEF Accept, TypeOK, c
<1>4. serving = NoConn /\ serving' = c /\ daemon' = "read"
  BY DEF Accept, OnePlace, c
<1>5. ASSUME NEW d \in Conns
      PROVE  link'[d] = "queued" <=> \E i \in 1..Len(backlog') : backlog'[i] = d
  <2>1. link[d] = "queued" <=> \E i \in 1..Len(backlog) : backlog[i] = d
    BY DEF OnePlace
  <2>2. \A i \in 1..Len(backlog) : backlog[i] = c => i = 1
    BY <1>2 DEF OnePlace
  <2>3. CASE d = c
    BY <1>2, <1>3, <2>2, <2>3
  <2>4. CASE d # c
    <3>1. ASSUME NEW i \in 1..Len(backlog), backlog[i] = d
          PROVE  \E j \in 1..Len(backlog') : backlog'[j] = d
      <4>1. i # 1
        BY <1>2, <2>4, <3>1
      <4>2. i - 1 \in 1..Len(backlog') /\ backlog'[i - 1] = backlog[i]
        BY <1>2, <4>1
      <4> QED
        BY <3>1, <4>2
    <3>2. ASSUME NEW j \in 1..Len(backlog'), backlog'[j] = d
          PROVE  \E i \in 1..Len(backlog) : backlog[i] = d
      BY <1>2, <3>2
    <3> QED
      BY <1>3, <2>1, <2>4, <3>1, <3>2
  <2> QED
    BY <2>3, <2>4
<1>6. ASSUME NEW i \in 1..Len(backlog'), NEW j \in 1..Len(backlog'), backlog'[i] = backlog'[j]
      PROVE  i = j
  BY <1>2, <1>6 DEF OnePlace
<1>7. \A d \in Conns : link'[d] = "accepted" <=> d = serving'
  BY <1>3, <1>4, NoConnIsNone DEF OnePlace
<1>8. serving' # NoConn
  BY <1>2, <1>4, NoConnIsNone
<1> QED
  BY <1>4, <1>5, <1>6, <1>7, <1>8 DEF OnePlace

\* A stream that is dropped was the one being served.
LEMMA DropOnePlace ==
  ASSUME TypeOK, OnePlace, daemon \in {"read", "dispatch", "write", "blocked"}, Drop,
         backlog' = backlog
  PROVE  OnePlace'
<1>1. serving \in Conns /\ link[serving] = "accepted"
  BY ServingIsConn
<1>2. \A d \in Conns : link'[d] = IF d = serving THEN "closed" ELSE link[d]
  BY DEF Drop, TypeOK
<1> QED
  BY <1>1, <1>2, NoConnIsNone DEF OnePlace, Drop

\* A daemon that stops closes everything it had.
LEMMA StopOnePlace ==
  ASSUME TypeOK, OnePlace, Stop
  PROVE  OnePlace'
<1>1. \A d \in Conns : link'[d] \in {"none", "closed"}
  BY DEF Stop
<1> QED
  BY <1>1, NoConnIsNone DEF OnePlace, Stop

\* No step puts a connection in two places or in none.
LEMMA NextOnePlace ==
  ASSUME TypeOK, OnePlace, HookInv, ConnInv, [Next]_vars
  PROVE  OnePlace'
<1>1. ASSUME NEW h \in Hooks, HookConnect(h) PROVE OnePlace'
  <2>1. Conn(h) \in Conns /\ link[Conn(h)] = "none"
    BY <1>1, ConnIsConn, HookIsCaller DEF HookConnect, HookInv, HookOK, Awaiting
  <2> QED
    BY <1>1, <2>1, ConnectOnePlace DEF HookConnect
<1>2. ASSUME NEW c \in Peers, PeerConnect(c) PROVE OnePlace'
  <2>1. <<c, try[c] + 1>> \in Conns /\ link[<<c, try[c] + 1>>] = "none"
    BY <1>2, NewConnIsFresh DEF PeerConnect, Callers
  <2> QED
    BY <1>2, <2>1, ConnectOnePlace DEF PeerConnect
<1>3. CASE Accept
  BY <1>3, AcceptOnePlace
<1>4. CASE CloneFails \/ ReadEof \/ WriteRest \/ WriteBroken
  BY <1>4, DropOnePlace DEF CloneFails, ReadEof, WriteRest, WriteBroken
<1>5. CASE Stop
  BY <1>5, StopOnePlace
<1>6. CASE ReadFrame \/ Dispatch \/ WriteSome \/ WriteBlocks \/ Start
  BY <1>6 DEF ReadFrame, Dispatch, WriteSome, WriteBlocks, Start, OnePlace, connVars, hostVars
<1>7. ASSUME UNCHANGED <<link, serving, backlog, daemon>>
      PROVE  OnePlace'
  BY <1>7 DEF OnePlace
<1>8. ASSUME NEW c \in Peers, PeerRead(c) PROVE OnePlace'
  BY <1>8 DEF PeerRead, OnePlace, connVars
<1> QED
  BY <1>1, <1>2, <1>3, <1>4, <1>5, <1>6, <1>7, <1>8, NextCases DEF DaemonStep

-----------------------------------------------------------------------------
(***************************************************************************)
(* Frames: what a step of one actor leaves alone.                          *)
(***************************************************************************)
LEMMA HookFrame ==
  ASSUME TypeOK, NEW h \in Hooks, HookStep(h) \/ HookGivesUp(h) \/ HookKilled(h)
  PROVE  /\ \A g \in Hooks \ {h} : pc'[g] = pc[g] /\ path'[g] = path[g]
                                    /\ plan'[g] = plan[g] /\ image'[g] = image[g]
         /\ \A c \in Conns : c # Conn(h) => link'[c] = link[c] /\ open'[c] = open[c]
                                           /\ inbox'[c] = inbox[c]
         /\ UNCHANGED <<try, outbox, sent, daemon, serving, offered, failures>>
  BY DEF HookStep, HookConnect, Connect, HookRefused, HookGivesUp, HookSend,
         HookKilled, HookReadHeader, HookNotReady, HookReadBody, HookEof, HookShortBody,
         HookExec, HookExecFails, FallBack, TypeOK, connVars, hostVars

\* A call changes nothing of other hooks, and no image.
LEMMA CallFrame ==
  ASSUME TypeOK, NEW h \in Hooks, NEW p \in Paths, Call(h, p)
  PROVE  /\ \A g \in Hooks \ {h} : pc'[g] = pc[g] /\ path'[g] = path[g]
                                    /\ plan'[g] = plan[g] /\ try'[g] = try[g]
         /\ \A c \in Callers : try'[c] >= try[c]
         /\ image' = image
         /\ UNCHANGED <<connVars, hostVars>>
<1>1. h \in Callers /\ \A c \in Callers : try[c] \in Nat
  BY HookIsCaller, DaemonAssumption DEF TypeOK
<1>2. try' = [try EXCEPT ![h] = try[h] + 1]
  BY DEF Call
<1>3. \A c \in Callers : try'[c] >= try[c]
  BY <1>1, <1>2 DEF TypeOK
<1> QED
  BY <1>3, HookIsCaller DEF Call, TypeOK

\* An arbitrary client changes nothing of a hook's connections, and of the
\* daemon at most that a write goes on.
LEMMA PeerFrame ==
  ASSUME TypeOK, NEW d \in Peers, PeerStep(d)
  PROVE  /\ \A g \in Hooks : try'[g] = try[g]
         /\ \A c \in Callers : try'[c] >= try[c]
         /\ \A c \in Conns : c[1] # d => link'[c] = link[c] /\ open'[c] = open[c]
                                       /\ inbox'[c] = inbox[c]
         /\ UNCHANGED <<guestVars, outbox, sent, serving, offered, failures>>
         /\ daemon' = daemon \/ (daemon = "blocked" /\ daemon' = "write")
<1>1. d \in Callers /\ \A c \in Callers : try[c] \in Nat
  BY DaemonAssumption DEF TypeOK, Callers
<1>2. \A g \in Hooks : g \in Callers /\ g # d
  BY HookIsCaller
<1>3. CASE PeerConnect(d)
  <2>1. \A c \in Conns : c[1] # d => c # <<d, try[d] + 1>>
    OBVIOUS
  <2>2. try' = [try EXCEPT ![d] = try[d] + 1]
    BY <1>3 DEF PeerConnect
  <2>3. \A c \in Callers : try'[c] >= try[c]
    BY <1>1, <2>2 DEF TypeOK
  <2> QED
    BY <1>2, <1>3, <2>1, <2>2, <2>3 DEF PeerConnect, Connect, TypeOK
<1>4. ASSUME NEW req \in Request \cup {Partial}, PeerSend(d, req)
      PROVE  /\ \A c \in Conns : c[1] # d => inbox'[c] = inbox[c]
             /\ UNCHANGED <<guestVars, try, link, open, outbox, sent, hostVars>>
  BY <1>4 DEF PeerSend, TypeOK, Conn
<1>5. ASSUME PeerClose(d)
      PROVE  /\ \A c \in Conns : c[1] # d => open'[c] = open[c]
             /\ UNCHANGED <<guestVars, try, link, inbox, outbox, sent, hostVars>>
  <2>1. \A c \in Conns : c[1] # d => c # Conn(d)
    BY DEF Conn
  <2>2. open' = [open EXCEPT ![Conn(d)] = FALSE]
    BY <1>5 DEF PeerClose
  <2>3. \A c \in Conns : c # Conn(d) => open'[c] = open[c]
    BY <2>2 DEF TypeOK
  <2>4. \A c \in Conns : c[1] # d => open'[c] = open[c]
    BY <2>1, <2>3
  <2> QED
    BY <1>5, <2>4 DEF PeerClose
<1>6. ASSUME try' = try
      PROVE  /\ \A g \in Hooks : try'[g] = try[g]
             /\ \A c \in Callers : try'[c] >= try[c]
  BY <1>1, <1>6
<1>7. CASE \E req \in Request \cup {Partial} : PeerSend(d, req)
  BY <1>4, <1>6, <1>7 DEF hostVars
<1>8. CASE PeerClose(d)
  BY <1>5, <1>6, <1>8 DEF hostVars
<1>9. CASE PeerRead(d)
  BY <1>6, <1>9 DEF PeerRead, connVars
<1> QED
  BY <1>3, <1>7, <1>8, <1>9 DEF PeerStep

\* The daemon changes nothing the clients own, and answers only whom it serves.
LEMMA DaemonFrame ==
  ASSUME TypeOK, OnePlace, DaemonStep \/ CloneFails \/ Stop \/ Start
  PROVE  /\ UNCHANGED <<guestVars, try, open, inbox>>
         /\ \A c \in Conns : link'[c] = "none" <=> link[c] = "none"
         /\ \A c \in Conns : link'[c] = "queued" => link[c] = "queued"
         /\ \A c \in Conns : c # serving => outbox'[c] = outbox[c] /\ sent'[c] = sent[c]
         /\ ~ Dispatch => outbox' = outbox
         /\ ~ (WriteSome \/ WriteBlocks \/ WriteRest) => sent' = sent
         /\ offered \subseteq offered'
         /\ failures' >= failures
<1>1. failures \in Nat
  BY DaemonAssumption DEF TypeOK
<1>2. CASE Accept
  <2>1. Head(backlog) \in Conns /\ link[Head(backlog)] = "queued"
    BY <1>2, HeadIsQueued DEF Accept
  <2> QED
    BY <1>1, <1>2, <2>1 DEF Accept, TypeOK
<1>3. CASE CloneFails \/ ReadEof \/ WriteRest \/ WriteBroken
  <2>1. serving \in Conns /\ link[serving] = "accepted"
    BY <1>3, ServingIsConn DEF CloneFails, ReadEof, WriteRest, WriteBroken
  <2> QED
    BY <1>1, <1>3, <2>1 DEF CloneFails, ReadEof, WriteRest, WriteBroken, Drop, TypeOK
<1>4. CASE ReadFrame \/ WriteSome \/ WriteBlocks \/ Start
  BY <1>1, <1>4 DEF ReadFrame, WriteSome, WriteBlocks, Start, TypeOK, connVars, hostVars
<1>5. CASE Dispatch
  <2>1. offered \subseteq offered'
    BY <1>5 DEF Dispatch
  <2>2. \A c \in Conns : c # serving => outbox'[c] = outbox[c]
    BY <1>5 DEF Dispatch, TypeOK
  <2>3. UNCHANGED <<guestVars, try, link, open, inbox, sent, failures>>
    BY <1>5 DEF Dispatch
  <2> QED
    BY <1>1, <1>5, <2>1, <2>2, <2>3
<1>6. CASE Stop
  BY <1>1, <1>6 DEF Stop, TypeOK
<1> QED
  BY <1>2, <1>3, <1>4, <1>5, <1>6 DEF DaemonStep

-----------------------------------------------------------------------------
(***************************************************************************)
(* Dispatch: the response it puts on the connection it serves.             *)
(***************************************************************************)
LEMMA DispatchAnswer ==
  ASSUME TypeOK, OnePlace, ServingInv, Dispatch
  PROVE  /\ serving \in Conns /\ link[serving] = "accepted"
         /\ inbox[serving] \in Request
         /\ outbox'[serving] \in Response
         /\ AnswerFits(inbox[serving], outbox'[serving])
         /\ outbox'[serving].status = "Ready" =>
              <<inbox[serving].backend, inbox[serving].path>> \in offered'
<1>1. serving \in Conns /\ link[serving] = "accepted"
  BY ServingIsConn DEF Dispatch
<1>2. inbox[serving] \in Request
  BY <1>1 DEF Dispatch, ServingInv, Complete, TypeOK
<1>3. PICK verdict \in [Registered -> Verdicts], outcome \in Outcomes :
        LET answer == HandleFrame(inbox[serving], verdict, outcome)
        IN  /\ outbox' = [outbox EXCEPT ![serving] = answer]
            /\ offered' = IF answer.status = "Ready"
                          THEN offered \cup {<<answer.backend, answer.exe.path>>}
                          ELSE offered
  BY DEF Dispatch
<1>4. outbox'[serving] = HandleFrame(inbox[serving], verdict, outcome)
  BY <1>1, <1>3 DEF TypeOK
<1>5. outbox'[serving].status = "Ready" =>
        offered' = offered \cup {<<outbox'[serving].backend, outbox'[serving].exe.path>>}
  BY <1>3, <1>4
<1>6. outbox'[serving].status = "Ready" =>
        <<inbox[serving].backend, inbox[serving].path>> \in offered'
  BY <1>2, <1>4, <1>5, HandleFrameReady
<1> QED
  BY <1>1, <1>2, <1>4, <1>6, HandleFrameType, HandleFrameFits

-----------------------------------------------------------------------------
(***************************************************************************)
(* HookInv                                                                 *)
(***************************************************************************)
LEMMA InitHookInv == Init => HookInv
  BY DEF Init, HookInv, HookOK, Awaiting

\* A call begins in a state that HookInv allows.
LEMMA CallHookInv ==
  ASSUME TypeOK, HookInv, ConnInv, NEW h \in Hooks, NEW p \in Paths, Call(h, p)
  PROVE  HookInv'
<1> SUFFICES ASSUME NEW g \in Hooks PROVE HookOK(g)'
  BY DEF HookInv
<1>1. CASE g = h
  <2>1. pc'[h] = "connect" /\ path'[h] = p /\ plan'[h] = Original(p)
    BY DEF Call, TypeOK
  <2>2. h \in Callers /\ try[h] \in Nat /\ try'[h] = try[h] + 1
    BY HookIsCaller, DaemonAssumption DEF Call, TypeOK
  <2>3. Conn(h)' = <<h, try[h] + 1>>
    BY <2>2 DEF Conn
  <2>4. link'[Conn(h)'] = "none"
    BY <2>2, <2>3, NewConnIsFresh DEF Call, connVars
  <2> QED
    BY <1>1, <2>1, <2>2, <2>4 DEF HookOK, Awaiting
<1>2. CASE g # h
  BY <1>2, CallFrame DEF HookOK, HookInv, Conn, connVars
<1> QED
  BY <1>1, <1>2

\* HookInv follows the hook that takes a step through its call, and the others stay.
LEMMA HookHookInv ==
  ASSUME TypeOK, HookInv, ConnInv, NEW h \in Hooks,
         HookStep(h) \/ HookGivesUp(h) \/ HookKilled(h)
  PROVE  HookInv'
<1> SUFFICES ASSUME NEW g \in Hooks PROVE HookOK(g)'
  BY DEF HookInv
<1>0. \A k \in Hooks : Conn(k)' = Conn(k)
  BY HookFrame DEF Conn
<1>1. CASE g # h
  <2>1. pc[g] \in Awaiting => Conn(g) \in Conns /\ Conn(g) # Conn(h)
    BY <1>1, ConnIsConn, ConnInjective, HookIsCaller DEF HookInv, HookOK
  <2> QED
    BY <1>0, <1>1, <2>1, HookFrame DEF HookOK, HookInv, Awaiting
<1>2. CASE g = h
  <2> DEFINE c == Conn(h)
  <2>1. pc[h] \in Awaiting => c \in Conns
    BY ConnIsConn, HookIsCaller DEF HookInv, HookOK
  <2>2. HookOK(h)
    BY DEF HookInv
  <2>3. c' = c
    BY <1>0
  <2> HIDE DEF c
  <2>4. CASE HookConnect(h)
    <3>1. inbox[c] = Nothing
      BY <2>1, <2>2, <2>4 DEF c, HookConnect, HookOK, Awaiting, ConnInv, ConnOK
    <3>2. pc'[h] = "send" /\ link'[c] = "queued" /\ open'[c] /\ inbox'[c] = Nothing
      BY <2>1, <2>4, <3>1 DEF c, HookConnect, Connect, TypeOK, Awaiting
    <3>3. UNCHANGED <<try, path, plan>>
      BY <2>4 DEF HookConnect
    <3> QED
      BY <1>2, <2>2, <2>3, <2>4, <3>2, <3>3 DEF c, HookOK, HookConnect, Awaiting
  <2>5. CASE HookSend(h)
    <3>1. pc'[h] = "header" /\ inbox'[c] = Obtain(path[h], BackendOf[h])
      BY <2>1, <2>5 DEF c, HookSend, TypeOK, Awaiting
    <3>2. UNCHANGED <<try, path, plan, link, open>>
      BY <2>5 DEF HookSend
    <3> QED
      BY <1>2, <2>2, <2>3, <2>5, <3>1, <3>2 DEF c, HookOK, HookSend, Awaiting
  <2>6. CASE HookReadHeader(h)
    <3>1. pc'[h] = "body" /\ outbox[c].status = "Ready"
      BY <2>6 DEF c, HookReadHeader, TypeOK
    <3>2. UNCHANGED <<try, path, plan, connVars>>
      BY <2>6 DEF HookReadHeader
    <3> QED
      BY <1>2, <2>2, <2>3, <2>6, <3>1, <3>2 DEF c, HookOK, HookReadHeader, Awaiting, connVars
  <2>7. CASE \/ HookRefused(h) \/ HookGivesUp(h) \/ HookKilled(h) \/ HookNotReady(h)
            \/ HookReadBody(h) \/ HookEof(h) \/ HookShortBody(h)
            \/ HookExec(h) \/ HookExecFails(h)
    <3>1. pc'[h] \in {"exec", "killed", "done", "idle"}
      BY <2>7 DEF HookRefused, HookGivesUp, HookKilled, HookNotReady, HookReadBody,
                  HookEof, HookShortBody, HookExec, HookExecFails, FallBack, TypeOK
    <3> QED
      BY <1>2, <3>1 DEF HookOK, Awaiting
  <2> QED
    BY <2>4, <2>5, <2>6, <2>7 DEF HookStep
<1> QED
  BY <1>1, <1>2

\* An arbitrary client does not disturb a hook's call.
LEMMA PeerHookInv ==
  ASSUME TypeOK, HookInv, NEW d \in Peers, PeerStep(d)
  PROVE  HookInv'
<1> SUFFICES ASSUME NEW g \in Hooks PROVE HookOK(g)'
  BY DEF HookInv
<1>1. Conn(g)' = Conn(g)
  BY PeerFrame DEF Conn
<1>2. pc[g] \in Awaiting => Conn(g) \in Conns /\ Conn(g)[1] # d
  BY ConnIsConn, HookIsCaller DEF HookInv, HookOK
<1> QED
  BY <1>1, <1>2, PeerFrame DEF HookOK, HookInv, Awaiting, guestVars

\* The daemon does not disturb what a hook in a call knows of its connection.
LEMMA DaemonHookInv ==
  ASSUME TypeOK, OnePlace, HookInv, ServingInv,
         DaemonStep \/ CloneFails \/ Stop \/ Start
  PROVE  HookInv'
<1> SUFFICES ASSUME NEW g \in Hooks PROVE HookOK(g)'
  BY DEF HookInv
<1>1. Conn(g)' = Conn(g)
  BY DaemonFrame DEF Conn
<1>2. pc[g] \in Awaiting => Conn(g) \in Conns
  BY ConnIsConn, HookIsCaller DEF HookInv, HookOK
<1>3. pc[g] = "body" => outbox'[Conn(g)] = outbox[Conn(g)]
  <2>1. CASE Dispatch
    <3>1. pc[g] = "body" => Conn(g) # serving
      BY <2>1 DEF Dispatch, ServingInv, HookInv, HookOK, NoReply, Reply
    <3> QED
      BY <1>2, <3>1, DaemonFrame DEF Awaiting
  <2> QED
    BY <2>1, DaemonFrame
<1> QED
  BY <1>1, <1>2, <1>3, DaemonFrame DEF HookOK, HookInv, Awaiting, guestVars

-----------------------------------------------------------------------------
(***************************************************************************)
(* PlanInv                                                                 *)
(***************************************************************************)
LEMMA InitPlanInv == Init => PlanInv
  BY DEF Init, PlanInv, PlanOK

\* What a hook plans to run after a step of its own is the original or its own artifact.
LEMMA HookPlanInv ==
  ASSUME TypeOK, HookInv, PlanInv, ConnInv, AnswersTheRequest, NEW h \in Hooks,
         HookStep(h) \/ HookGivesUp(h) \/ HookKilled(h)
  PROVE  PlanInv'
<1> SUFFICES ASSUME NEW g \in Hooks PROVE PlanOK(g)'
  BY DEF PlanInv
<1>1. CASE g # h
  BY <1>1, HookFrame DEF PlanOK, PlanInv
<1>2. CASE g = h
  <2> DEFINE c == Conn(h)
  <2>1. PlanOK(h) /\ HookOK(h)
    BY DEF PlanInv, HookInv
  <2>2. offered' = offered
    BY HookFrame
  <2>3. CASE HookReadBody(h)
    <3>1. c \in Conns /\ outbox[c].status = "Ready" /\ inbox[c] = Obtain(path[h], BackendOf[h])
      BY <2>1, <2>3, ConnIsConn, HookIsCaller DEF HookReadBody, HookOK, Awaiting
    <3>2. outbox[c] # NoReply
      BY <3>1 DEF NoReply, Reply
    <3>3. outbox[c] = Ready(BackendOf[h], path[h])
      BY <3>1, <3>2 DEF AnswersTheRequest, AnswerFits, Obtain, Reply
    <3>4. <<BackendOf[h], path[h]>> \in offered
      BY <3>1 DEF ConnInv, ConnOK, Obtain
    <3>5. /\ plan'[h] = Artifact(BackendOf[h], path[h])
          /\ pc'[h] = "exec"
          /\ path' = path /\ image' = image
      BY <2>3, <3>3 DEF HookReadBody, TypeOK, Ready
    <3> QED
      BY <1>2, <2>1, <2>2, <2>3, <3>4, <3>5 DEF PlanOK, HookReadBody
  <2>4. CASE HookRefused(h) \/ HookGivesUp(h) \/ HookNotReady(h) \/ HookEof(h)
             \/ HookShortBody(h)
    <3>1. pc[h] \in Awaiting /\ FallBack(h)
      BY <2>4 DEF HookRefused, HookGivesUp, HookNotReady, HookEof,
             HookShortBody, Awaiting
    <3>2. pc'[h] = "exec" /\ UNCHANGED <<path, plan, image>>
      BY <3>1 DEF FallBack, TypeOK
    <3> QED
      BY <1>2, <2>1, <3>1, <3>2 DEF PlanOK, HookOK, Awaiting
  <2>5. CASE HookConnect(h) \/ HookSend(h) \/ HookKilled(h) \/ HookReadHeader(h)
    <3>1. pc[h] \in Awaiting /\ pc'[h] \in {"send", "header", "killed", "body"}
      BY <2>5 DEF HookConnect, HookSend, HookKilled, HookReadHeader, TypeOK, Awaiting
    <3>2. UNCHANGED <<path, plan, image>>
      BY <2>5 DEF HookConnect, HookSend, HookKilled, HookReadHeader
    <3> QED
      BY <1>2, <2>1, <3>1, <3>2 DEF PlanOK, Awaiting
  <2>6. CASE HookExec(h)
    <3>1. pc[h] = "exec" /\ pc'[h] = "done" /\ image'[h] = plan[h] /\ UNCHANGED <<path, plan>>
      BY <2>6 DEF HookExec, TypeOK
    <3> QED
      BY <1>2, <2>1, <2>2, <3>1 DEF PlanOK
  <2>7. CASE HookExecFails(h)
    <3>1. pc[h] = "exec" /\ pc'[h] = "idle" /\ image' = image /\ path'[h] = NoPath
      BY <2>7 DEF HookExecFails, TypeOK
    <3> QED
      BY <1>2, <2>1, <3>1 DEF PlanOK
  <2> QED
    BY <2>3, <2>4, <2>5, <2>6, <2>7 DEF HookStep
<1> QED
  BY <1>1, <1>2

\* No step gives a hook a plan that is not its own.
LEMMA NextPlanInv ==
  ASSUME TypeOK, OnePlace, HookInv, PlanInv, ConnInv, AnswersTheRequest, [Next]_vars
  PROVE  PlanInv'
<1>1. ASSUME NEW h \in Hooks, NEW p \in Paths, Call(h, p) PROVE PlanInv'
  <2> SUFFICES ASSUME NEW g \in Hooks PROVE PlanOK(g)'
    BY DEF PlanInv
  <2>1. CASE g # h
    BY <1>1, <2>1, CallFrame DEF PlanOK, PlanInv, hostVars
  <2>2. CASE g = h
    <3>1. pc[h] = "idle" /\ pc'[h] = "connect" /\ image' = image /\ path'[h] = p
      BY <1>1 DEF Call, TypeOK
    <3> QED
      BY <2>2, <3>1, IdAssumption DEF PlanOK, PlanInv
  <2> QED
    BY <2>1, <2>2
<1>2. ASSUME NEW h \in Hooks, HookStep(h) \/ HookGivesUp(h) \/ HookKilled(h) PROVE PlanInv'
  BY <1>2, HookPlanInv
<1>3. ASSUME NEW d \in Peers, PeerStep(d) PROVE PlanInv'
  BY <1>3, PeerFrame DEF PlanInv, PlanOK, guestVars
<1>4. CASE DaemonStep \/ CloneFails \/ Stop \/ Start
  BY <1>4, DaemonFrame DEF PlanInv, PlanOK, guestVars
<1>5. CASE UNCHANGED vars
  BY <1>5 DEF PlanInv, PlanOK, vars, guestVars, hostVars
<1> QED
  BY <1>1, <1>2, <1>3, <1>4, <1>5 DEF Next

\* HookInv is kept by every step.
LEMMA NextHookInv ==
  ASSUME TypeOK, OnePlace, HookInv, ConnInv, ServingInv, [Next]_vars
  PROVE  HookInv'
<1>1. CASE UNCHANGED vars
  BY <1>1 DEF HookInv, HookOK, Conn, vars, guestVars, connVars, hostVars
<1> QED
  BY <1>1, CallHookInv, HookHookInv, PeerHookInv, DaemonHookInv DEF Next

-----------------------------------------------------------------------------
(***************************************************************************)
(* ConnInv                                                                 *)
(***************************************************************************)
LEMMA InitConnInv == Init => ConnInv
  BY DEF Init, ConnInv, ConnOK, NoReply, Reply

\* A step of a hook touches its current connection only, and after it is opened.
LEMMA HookConnInv ==
  ASSUME TypeOK, HookInv, ConnInv, NEW h \in Hooks,
         HookStep(h) \/ HookGivesUp(h) \/ HookKilled(h)
  PROVE  ConnInv'
<1> SUFFICES ASSUME NEW c \in Conns PROVE ConnOK(c)'
  BY DEF ConnInv
<1>1. ConnOK(c) /\ HookOK(h)
  BY DEF ConnInv, HookInv
<1>2. UNCHANGED <<try, outbox, sent, offered>>
  BY HookFrame
<1>3. CASE c # Conn(h)
  BY <1>1, <1>2, <1>3, HookFrame DEF ConnOK, Complete
<1>4. CASE c = Conn(h)
  <2>1. CASE HookConnect(h)
    <3>1. try[h] >= 1 /\ link[c] = "none"
      BY <1>1, <1>4, <2>1 DEF HookConnect, HookOK, Awaiting
    <3>2. link'[c] = "queued" /\ inbox' = inbox
      BY <1>4, <2>1 DEF HookConnect, Connect, TypeOK
    <3>3. c[1] = h /\ c[2] = try[h] /\ try[h] \in Nat
      BY <1>4, <3>1, DaemonAssumption, HookIsCaller DEF Conn, TypeOK
    <3> QED
      BY <1>1, <1>2, <3>1, <3>2, <3>3 DEF ConnOK, Complete
  <2>2. CASE HookSend(h)
    <3>1. inbox[c] = Nothing /\ link[c] # "none"
      BY <1>1, <1>4, <2>2 DEF HookSend, HookOK
    <3>2. outbox[c] = NoReply /\ sent[c] = "none"
      BY <1>1, <3>1 DEF ConnOK, Complete
    <3>3. link' = link
      BY <2>2 DEF HookSend
    <3>4. outbox[c].status # "Ready"
      BY <3>2 DEF NoReply, Reply
    <3> QED
      BY <1>1, <1>2, <3>1, <3>2, <3>3, <3>4 DEF ConnOK
  <2>3. CASE \/ HookRefused(h) \/ HookGivesUp(h) \/ HookKilled(h) \/ HookReadHeader(h)
            \/ HookNotReady(h) \/ HookReadBody(h) \/ HookEof(h) \/ HookShortBody(h)
            \/ HookExec(h)
            \/ HookExecFails(h)
    <3>1. UNCHANGED <<link, inbox>>
      BY <2>3 DEF HookRefused, HookGivesUp, HookKilled, HookReadHeader, HookNotReady,
                  HookReadBody, HookEof, HookShortBody, HookExec, HookExecFails,
                  FallBack, connVars
    <3>2. open'[c] => open[c]
      BY <2>3 DEF HookRefused, HookGivesUp, HookKilled, HookReadHeader, HookNotReady,
                  HookReadBody, HookEof, HookShortBody, HookExec, HookExecFails,
                  FallBack, connVars,
                  TypeOK
    <3> QED
      BY <1>1, <1>2, <3>1, <3>2 DEF ConnOK, Complete
  <2> QED
    BY <2>1, <2>2, <2>3 DEF HookStep
<1> QED
  BY <1>3, <1>4

\* A step of an arbitrary client touches its current connection only.
LEMMA PeerConnInv ==
  ASSUME TypeOK, ConnInv, NEW d \in Peers, PeerStep(d)
  PROVE  ConnInv'
<1> SUFFICES ASSUME NEW c \in Conns PROVE ConnOK(c)'
  BY DEF ConnInv
<1>1. ConnOK(c)
  BY DEF ConnInv
<1>2. UNCHANGED <<outbox, sent, offered>> /\ try'[c[1]] >= try[c[1]]
  BY PeerFrame DEF Conns
<1>3. /\ try[c[1]] \in Nat /\ try'[c[1]] \in Nat /\ c[2] \in Nat
      /\ d \in Callers /\ try[d] \in Nat
  BY ClientTypeOK, DaemonAssumption DEF TypeOK, Conns, Callers
<1>4. CASE link'[c] = link[c] /\ inbox'[c] = inbox[c] /\ (open'[c] => open[c])
  BY <1>1, <1>2, <1>3, <1>4 DEF ConnOK, Complete
<1>5. CASE PeerConnect(d) /\ c = <<d, try[d] + 1>>
  <2>1. link[c] = "none"
    BY <1>3, <1>5, NewConnIsFresh DEF PeerConnect
  <2>2. link'[c] = "queued" /\ inbox' = inbox /\ try'[d] = try[d] + 1
    BY <1>3, <1>5 DEF PeerConnect, Connect, TypeOK
  <2>3. c[1] = d /\ c[2] = try[d] + 1
    BY <1>5
  <2> QED
    BY <1>1, <1>2, <1>3, <2>1, <2>2, <2>3 DEF ConnOK, Complete
<1>6. ASSUME NEW req \in Request \cup {Partial}, PeerSend(d, req), c = Conn(d)
      PROVE  ConnOK(c)'
  <2>1. link[c] # "none" /\ ~Complete(c)
    BY <1>1, <1>6 DEF PeerSend, PeerConnected, ConnOK
  <2>2. outbox[c] = NoReply /\ sent[c] = "none"
    BY <1>1, <2>1 DEF ConnOK
  <2>3. outbox[c].status # "Ready"
    BY <2>2 DEF NoReply, Reply
  <2>4. UNCHANGED <<link, try>>
    BY <1>6 DEF PeerSend
  <2> QED
    BY <1>1, <1>2, <2>1, <2>2, <2>3, <2>4 DEF ConnOK
<1>7. CASE PeerConnect(d) /\ c # <<d, try[d] + 1>>
  BY <1>4, <1>7 DEF PeerConnect, Connect, TypeOK
<1>8. ASSUME NEW req \in Request \cup {Partial}, PeerSend(d, req), c # Conn(d)
      PROVE  ConnOK(c)'
  BY <1>4, <1>8 DEF PeerSend, TypeOK
<1>9. CASE PeerClose(d)
  <2>1. open'[c] => open[c]
    BY <1>9 DEF PeerClose, TypeOK
  <2> QED
    BY <1>4, <1>9, <2>1 DEF PeerClose
<1>10. CASE PeerRead(d)
  BY <1>4, <1>10 DEF PeerRead, connVars
<1> QED
  BY <1>5, <1>6, <1>7, <1>8, <1>9, <1>10 DEF PeerStep

\* The daemon writes a response only where a complete request was read.
LEMMA DaemonConnInv ==
  ASSUME TypeOK, OnePlace, ConnInv, ServingInv,
         DaemonStep \/ CloneFails \/ Stop \/ Start
  PROVE  ConnInv'
<1> SUFFICES ASSUME NEW c \in Conns PROVE ConnOK(c)'
  BY DEF ConnInv
<1>1. ConnOK(c)
  BY DEF ConnInv
<1>2. UNCHANGED <<try, open, inbox>> /\ offered \subseteq offered'
  BY DaemonFrame
<1>3. (link'[c] = "none" <=> link[c] = "none") /\ (link'[c] = "queued" => link[c] = "queued")
  BY DaemonFrame
<1>4. CASE outbox'[c] = outbox[c] /\ sent'[c] = sent[c]
  BY <1>1, <1>2, <1>3, <1>4 DEF ConnOK, Complete
<1>5. CASE Dispatch /\ c = serving
  <2>1. /\ link[c] = "accepted"
        /\ outbox'[c] \in Response
        /\ outbox'[c].status = "Ready" => <<inbox[c].backend, inbox[c].path>> \in offered'
    BY <1>5, DispatchAnswer
  <2>2. Complete(c) /\ outbox'[c] # NoReply
    BY <1>5, <2>1 DEF Dispatch, ServingInv, NoReply, Reply, Response, Statuses
  <2>3. link' = link
    BY <1>5 DEF Dispatch
  <2> QED
    BY <1>1, <1>2, <2>1, <2>2, <2>3 DEF ConnOK, Complete
<1>6. CASE (WriteSome \/ WriteBlocks \/ WriteRest) /\ c = serving
  <2>1. outbox' = outbox /\ outbox[c] # NoReply
    BY <1>6 DEF WriteSome, WriteBlocks, WriteRest, ServingInv
  <2> QED
    BY <1>1, <1>2, <1>3, <2>1 DEF ConnOK, Complete
<1>7. CASE c # serving
  BY <1>4, <1>7, DaemonFrame
<1>8. CASE ~Dispatch /\ ~(WriteSome \/ WriteBlocks \/ WriteRest)
  BY <1>4, <1>8, DaemonFrame
<1> QED
  BY <1>5, <1>6, <1>7, <1>8

\* ConnInv is kept by every step.
LEMMA NextConnInv ==
  ASSUME TypeOK, OnePlace, HookInv, ConnInv, ServingInv, [Next]_vars
  PROVE  ConnInv'
<1>1. ASSUME NEW h \in Hooks, NEW p \in Paths, Call(h, p) PROVE ConnInv'
  <2> SUFFICES ASSUME NEW c \in Conns PROVE ConnOK(c)'
    BY DEF ConnInv
  <2>1. ConnOK(c) /\ try'[c[1]] >= try[c[1]]
    BY <1>1, CallFrame DEF ConnInv, Conns
  <2>2. try[c[1]] \in Nat /\ try'[c[1]] \in Nat /\ c[2] \in Nat
    BY <1>1, ClientTypeOK, DaemonAssumption DEF TypeOK, Conns
  <2>3. UNCHANGED <<connVars, offered>>
    BY <1>1 DEF Call, hostVars
  <2> QED
    BY <2>1, <2>2, <2>3 DEF ConnOK, Complete, connVars
<1>2. CASE UNCHANGED vars
  BY <1>2 DEF ConnInv, ConnOK, Complete, vars, connVars, hostVars
<1> QED
  BY <1>1, <1>2, HookConnInv, PeerConnInv, DaemonConnInv DEF Next

-----------------------------------------------------------------------------
(***************************************************************************)
(* A complete request is never overwritten.                                *)
(***************************************************************************)
LEMMA RequestIsFinal ==
  ASSUME TypeOK, OnePlace, HookInv, [Next]_vars
  PROVE  \A c \in Conns : Complete(c) => inbox'[c] = inbox[c]
<1> SUFFICES ASSUME NEW c \in Conns, Complete(c) PROVE inbox'[c] = inbox[c]
  OBVIOUS
<1>1. ASSUME NEW h \in Hooks, HookSend(h) PROVE inbox'[c] = inbox[c]
  <2>1. inbox[Conn(h)] = Nothing
    BY <1>1 DEF HookSend, HookInv, HookOK
  <2>2. c # Conn(h)
    BY <2>1 DEF Complete
  <2> QED
    BY <1>1, <2>2 DEF HookSend, TypeOK
<1>2. ASSUME NEW d \in Peers, NEW req \in Request \cup {Partial}, PeerSend(d, req)
      PROVE  inbox'[c] = inbox[c]
  <2>1. c # Conn(d)
    BY <1>2 DEF PeerSend
  <2> QED
    BY <1>2, <2>1 DEF PeerSend, TypeOK
<1>3. CASE DaemonStep \/ CloneFails \/ Stop \/ Start
  BY <1>3, DaemonFrame
<1>4. CASE UNCHANGED inbox
  BY <1>4
<1>5. \/ \E h \in Hooks : HookSend(h)
      \/ \E d \in Peers, req \in Request \cup {Partial} : PeerSend(d, req)
      \/ DaemonStep \/ CloneFails \/ Stop \/ Start
      \/ UNCHANGED inbox
  BY DEF Next, vars, connVars, HookStep, PeerStep, Call, HookConnect, Connect,
         HookRefused, HookGivesUp, HookKilled, HookReadHeader, HookNotReady,
         HookReadBody, HookEof, HookShortBody, HookExec, HookExecFails, FallBack,
         PeerConnect, PeerRead, PeerClose
<1> QED
  BY <1>1, <1>2, <1>3, <1>4, <1>5

-----------------------------------------------------------------------------
(***************************************************************************)
(* ServingInv                                                              *)
(***************************************************************************)
LEMMA InitServingInv == Init => ServingInv
  BY DEF Init, ServingInv

\* The accept loop answers what it has read, once, in every step.
LEMMA NextServingInv ==
  ASSUME TypeOK, OnePlace, HookInv, ConnInv, ServingInv, [Next]_vars
  PROVE  ServingInv'
<1>1. CASE Accept
  <2>1. Head(backlog) \in Conns /\ link[Head(backlog)] = "queued"
    BY <1>1, HeadIsQueued DEF Accept
  <2>2. outbox[Head(backlog)] = NoReply
    BY <2>1 DEF ConnInv, ConnOK
  <2> QED
    BY <1>1, <2>2 DEF Accept, ServingInv
<1>2. CASE CloneFails \/ ReadEof \/ WriteRest \/ WriteBroken \/ Stop \/ Start
  BY <1>2 DEF CloneFails, ReadEof, WriteRest, WriteBroken, Stop, Start, Drop, ServingInv
<1>3. CASE ReadFrame \/ WriteSome \/ WriteBlocks
  BY <1>3 DEF ReadFrame, WriteSome, WriteBlocks, ServingInv, Complete, connVars, hostVars
<1>4. CASE Dispatch
  <2>1. daemon' = "write" /\ serving' = serving /\ inbox' = inbox /\ Complete(serving)
    BY <1>4 DEF Dispatch, ServingInv
  <2>2. outbox'[serving] # NoReply
    BY <1>4, DispatchAnswer DEF NoReply, Reply, Response, Statuses
  <2> QED
    BY <2>1, <2>2 DEF ServingInv, Complete
<1>5. ASSUME UNCHANGED <<serving, outbox>>,
             daemon' = daemon \/ (daemon = "blocked" /\ daemon' = "write")
      PROVE  ServingInv'
  <2>1. daemon \in {"dispatch", "write", "blocked"} => serving \in Conns /\ Complete(serving)
    BY ServingIsConn DEF ServingInv
  <2>2. daemon \in {"dispatch", "write", "blocked"} => inbox'[serving] = inbox[serving]
    BY <2>1, RequestIsFinal
  <2> QED
    BY <1>5, <2>1, <2>2 DEF ServingInv, Complete
<1>6. \/ DaemonStep \/ CloneFails \/ Stop \/ Start
      \/ /\ UNCHANGED <<serving, outbox>>
         /\ daemon' = daemon \/ (daemon = "blocked" /\ daemon' = "write")
  <2>1. ASSUME NEW h \in Hooks, HookStep(h) \/ HookGivesUp(h) \/ HookKilled(h)
        PROVE  UNCHANGED <<daemon, serving, outbox>>
    BY <2>1, HookFrame
  <2>2. ASSUME NEW d \in Peers, PeerStep(d)
        PROVE  /\ UNCHANGED <<serving, outbox>>
               /\ daemon' = daemon \/ (daemon = "blocked" /\ daemon' = "write")
    BY <2>2, PeerFrame
  <2> QED
    BY <2>1, <2>2 DEF Next, Call, vars, connVars, hostVars
<1> QED
  BY <1>1, <1>2, <1>3, <1>4, <1>5, <1>6 DEF DaemonStep

-----------------------------------------------------------------------------
(***************************************************************************)
(* NoHangUp and KilledOnlyByFailure                                        *)
(***************************************************************************)
LEMMA InitNoHangUp == Init => NoHangUp /\ KilledOnlyByFailure
  BY DEF Init, NoHangUp, KilledOnlyByFailure

\* No step of a client closes the daemon's end, or opens the client's end of
\* a closed connection.
LEMMA ClientsHangUp ==
  ASSUME TypeOK, HookInv, ConnInv,
         \/ \E h \in Hooks : HookStep(h) \/ HookGivesUp(h) \/ HookKilled(h)
         \/ \E d \in Peers : PeerStep(d)
  PROVE  /\ UNCHANGED <<sent, failures>>
         /\ \A c \in Conns :
              link'[c] = "closed" /\ open'[c] => link[c] = "closed" /\ open[c]
<1>1. ASSUME NEW h \in Hooks, HookConnect(h)
      PROVE  \A c \in Conns :
               link'[c] = "closed" /\ open'[c] => link[c] = "closed" /\ open[c]
  BY <1>1 DEF HookConnect, Connect, TypeOK
<1>2. ASSUME NEW h \in Hooks, HookStep(h) \/ HookGivesUp(h) \/ HookKilled(h), ~HookConnect(h)
      PROVE  link' = link /\ \A c \in Conns : open'[c] => open[c]
  BY <1>2 DEF HookStep, HookRefused, HookGivesUp, HookSend, HookKilled, HookReadHeader,
              HookNotReady, HookReadBody, HookEof, HookShortBody, HookExec, HookExecFails,
              FallBack, TypeOK, connVars
<1>3. ASSUME NEW d \in Peers, PeerConnect(d)
      PROVE  \A c \in Conns :
               link'[c] = "closed" /\ open'[c] => link[c] = "closed" /\ open[c]
  BY <1>3 DEF PeerConnect, Connect, TypeOK
<1>4. ASSUME NEW d \in Peers, PeerStep(d), ~PeerConnect(d)
      PROVE  link' = link /\ \A c \in Conns : open'[c] => open[c]
  BY <1>4 DEF PeerStep, PeerSend, PeerRead, PeerClose, TypeOK, connVars
<1> QED
  BY <1>1, <1>2, <1>3, <1>4, HookFrame, PeerFrame

\* Under a hook that has not written its request, a closed connection is one
\* that a failure closed.
LEMMA ClosedUnderHook ==
  ASSUME TypeOK, HookInv, ConnInv, NoHangUp, NEW h \in Hooks,
         pc[h] = "send", link[Conn(h)] = "closed"
  PROVE  failures > 0
<1>1. Conn(h) \in Conns /\ open[Conn(h)] /\ inbox[Conn(h)] = Nothing
  BY ConnIsConn, HookIsCaller DEF HookInv, HookOK, Awaiting
<1>2. sent[Conn(h)] # "all"
  BY <1>1 DEF ConnInv, ConnOK, Complete
<1> QED
  BY <1>1, <1>2 DEF NoHangUp

\* Failures are counted.
LEMMA DaemonFailures ==
  ASSUME TypeOK, DaemonStep \/ CloneFails \/ Stop \/ Start
  PROVE  failures \in Nat /\ failures' \in Nat
  BY DaemonAssumption DEF TypeOK, DaemonStep, Accept, CloneFails, ReadFrame, ReadEof,
     Dispatch, WriteSome, WriteBlocks, WriteRest, WriteBroken, Stop, Start, hostVars

\* The daemon closes a connection that the client holds open when it has
\* written everything, and otherwise only in a failure.
LEMMA DaemonNoHangUp ==
  ASSUME TypeOK, OnePlace, NoHangUp,
         DaemonStep \/ CloneFails \/ Stop \/ Start
  PROVE  NoHangUp'
<1>1. failures \in Nat /\ failures' >= failures /\ open' = open
  BY DaemonFrame, DaemonAssumption DEF TypeOK
<1> SUFFICES ASSUME NEW c \in Conns, link'[c] = "closed", open[c]
             PROVE  sent'[c] = "all" \/ failures' > 0
  BY <1>1 DEF NoHangUp
<1>2. CASE link[c] = "closed"
  <2>1. c # serving
    BY <1>2 DEF OnePlace
  <2>2. sent'[c] = sent[c]
    BY <2>1, DaemonFrame
  <2>3. sent[c] = "all" \/ failures > 0
    BY <1>2 DEF NoHangUp
  <2>4. failures > 0 => failures' > 0
    BY <1>1, DaemonFailures DEF TypeOK
  <2> QED
    BY <2>2, <2>3, <2>4
<1>3. CASE link[c] # "closed"
  <2>1. CASE CloneFails \/ Stop
    BY <1>1, <2>1 DEF CloneFails, Stop
  <2>2. CASE ReadEof \/ WriteBroken
    BY <1>3, <2>2 DEF ReadEof, WriteBroken, Drop, TypeOK
  <2>3. CASE WriteRest
    <3>1. c = serving
      BY <1>3, <2>3 DEF WriteRest, Drop, TypeOK
    <3> QED
      BY <2>3, <3>1 DEF WriteRest, TypeOK
  <2>4. CASE Accept
    BY <1>3, <2>4, HeadIsQueued DEF Accept, TypeOK
  <2>5. CASE ReadFrame \/ Dispatch \/ WriteSome \/ WriteBlocks \/ Start
    BY <1>3, <2>5 DEF ReadFrame, Dispatch, WriteSome, WriteBlocks, Start, connVars
  <2> QED
    BY <2>1, <2>2, <2>3, <2>4, <2>5 DEF DaemonStep
<1> QED
  BY <1>2, <1>3

\* NoHangUp and KilledOnlyByFailure are kept by every step.
LEMMA NextNoHangUp ==
  ASSUME TypeOK, OnePlace, HookInv, ConnInv, NoHangUp, KilledOnlyByFailure, [Next]_vars
  PROVE  NoHangUp' /\ KilledOnlyByFailure'
<1>1. ASSUME NEW h \in Hooks, NEW p \in Paths, Call(h, p)
      PROVE  NoHangUp' /\ KilledOnlyByFailure'
  <2>1. UNCHANGED <<connVars, failures>> /\ pc'[h] = "connect"
    BY <1>1 DEF Call, hostVars, TypeOK
  <2>2. \A g \in Hooks \ {h} : pc'[g] = pc[g]
    BY <1>1, CallFrame
  <2> QED
    BY <2>1, <2>2 DEF NoHangUp, KilledOnlyByFailure, connVars
<1>2. ASSUME NEW h \in Hooks, HookStep(h) \/ HookGivesUp(h) \/ HookKilled(h)
      PROVE  KilledOnlyByFailure'
  <2>1. failures' = failures /\ \A g \in Hooks \ {h} : pc'[g] = pc[g]
    BY <1>2, HookFrame
  <2>2. HookKilled(h) => failures > 0
    BY ClosedUnderHook DEF HookKilled
  <2>3. ~HookKilled(h) => pc'[h] # "killed"
    BY <1>2 DEF HookStep, HookConnect, HookRefused, HookGivesUp, HookSend, HookReadHeader,
           HookNotReady, HookReadBody, HookEof, HookShortBody, HookExec, HookExecFails,
           FallBack, TypeOK
  <2> QED
    BY <2>1, <2>2, <2>3 DEF KilledOnlyByFailure
<1>3. ASSUME NEW d \in Peers, PeerStep(d) PROVE KilledOnlyByFailure'
  BY <1>3, PeerFrame DEF KilledOnlyByFailure, guestVars
<1>4. ASSUME \/ \E h \in Hooks : HookStep(h) \/ HookGivesUp(h) \/ HookKilled(h)
             \/ \E d \in Peers : PeerStep(d)
      PROVE  NoHangUp'
  BY <1>4, ClientsHangUp DEF NoHangUp
<1>5. CASE DaemonStep \/ CloneFails \/ Stop \/ Start
  <2>1. failures \in Nat /\ failures' \in Nat /\ failures' >= failures /\ pc' = pc
    BY <1>5, DaemonFrame, DaemonFailures, DaemonAssumption DEF TypeOK, guestVars
  <2>2. KilledOnlyByFailure'
    BY <2>1 DEF KilledOnlyByFailure
  <2> QED
    BY <1>5, <2>2, DaemonNoHangUp
<1>6. CASE UNCHANGED vars
  BY <1>6 DEF NoHangUp, KilledOnlyByFailure, vars, guestVars, connVars, hostVars
<1> QED
  BY <1>1, <1>2, <1>3, <1>4, <1>5, <1>6 DEF Next

-----------------------------------------------------------------------------
(***************************************************************************)
(* AnswersTheRequest                                                       *)
(***************************************************************************)
LEMMA InitAnswers == Init => AnswersTheRequest
  BY DEF Init, AnswersTheRequest

\* A response that is written fits the request of its connection, and stays so.
LEMMA NextAnswers ==
  ASSUME TypeOK, OnePlace, HookInv, ConnInv, ServingInv, AnswersTheRequest, [Next]_vars
  PROVE  AnswersTheRequest'
<1> SUFFICES ASSUME NEW c \in Conns, outbox'[c] # NoReply
             PROVE  AnswerFits(inbox'[c], outbox'[c])
  BY DEF AnswersTheRequest
<1>1. CASE Dispatch /\ c = serving
  <2>1. inbox' = inbox
    BY <1>1 DEF Dispatch
  <2> QED
    BY <1>1, <2>1, DispatchAnswer
<1>2. ~(Dispatch /\ c = serving) => outbox'[c] = outbox[c]
  <2>1. CASE DaemonStep \/ CloneFails \/ Stop \/ Start
    BY <2>1, DaemonFrame
  <2>2. ASSUME NEW h \in Hooks, HookStep(h) \/ HookGivesUp(h) \/ HookKilled(h)
        PROVE  outbox' = outbox
    BY <2>2, HookFrame
  <2>3. ASSUME NEW d \in Peers, PeerStep(d) PROVE outbox' = outbox
    BY <2>3, PeerFrame
  <2> QED
    BY <2>1, <2>2, <2>3 DEF Next, Call, vars, connVars
<1>3. CASE outbox'[c] = outbox[c]
  <2>1. Complete(c)
    BY <1>3 DEF ConnInv, ConnOK
  <2>2. inbox'[c] = inbox[c]
    BY <2>1, RequestIsFinal
  <2> QED
    BY <1>3, <2>2 DEF AnswersTheRequest
<1> QED
  BY <1>1, <1>2, <1>3

-----------------------------------------------------------------------------
(***************************************************************************)
(* The invariant and the theorems                                          *)
(***************************************************************************)
LEMMA InitIInv == Init => IInv
  BY InitTypeOK, InitOnePlace, InitHookInv, InitPlanInv, InitConnInv, InitServingInv,
     InitNoHangUp, InitAnswers
  DEF IInv

\* IInv is inductive.
LEMMA NextIInv == IInv /\ [Next]_vars => IInv'
<1> SUFFICES ASSUME IInv, [Next]_vars PROVE IInv'
  OBVIOUS
<1> USE DEF IInv
<1>1. TypeOK'
  <2>1. CASE UNCHANGED vars
    BY <2>1 DEF TypeOK, vars, guestVars, connVars, hostVars
  <2> QED
    BY <2>1, HookTypeOK, DaemonTypeOK, ClientTypeOK DEF Next
<1> QED
  BY <1>1, NextOnePlace, NextHookInv, NextPlanInv, NextConnInv, NextServingInv,
     NextNoHangUp, NextAnswers

\* IInv holds in every reachable state, whatever the number of hooks, other
\* clients, ids and paths and however often the daemon fails.
THEOREM Invariance == Spec => []IInv
  BY InitIInv, NextIInv, PTL DEF Spec

\* Every variable of the daemon, its hooks and its connections keeps its type.
THEOREM TypeCorrect == Spec => []TypeOK
<1>1. IInv => TypeOK
  BY DEF IInv
<1> QED
  BY <1>1, Invariance, PTL

\* No process is ever made to run anything but the file it named or the
\* artifact its own backend finished making from that file.
THEOREM RunsWhatWasAskedHolds == Spec => []RunsWhatWasAsked
<1>1. IInv => RunsWhatWasAsked
  BY DEF IInv, PlanInv, PlanOK, RunsWhatWasAsked
<1> QED
  BY <1>1, Invariance, PTL

\* Every response on a connection answers the request of that connection.
THEOREM AnswersTheRequestHolds == Spec => []AnswersTheRequest
<1>1. IInv => AnswersTheRequest
  BY DEF IInv
<1> QED
  BY <1>1, Invariance, PTL

\* No connection is served twice, or lost between the backlog and the
\* handler that holds it.
THEOREM OnePlaceHolds == Spec => []OnePlace
<1>1. IInv => OnePlace
  BY DEF IInv
<1> QED
  BY <1>1, Invariance, PTL

\* A daemon that neither stops nor runs out of descriptors never gets a
\* guest killed by SIGPIPE.
THEOREM KilledOnlyByFailureHolds == Spec => []KilledOnlyByFailure
<1>1. IInv => KilledOnlyByFailure
  BY DEF IInv
<1> QED
  BY <1>1, Invariance, PTL

\* The daemon hangs up on a client that keeps its end open only after the
\* whole response was written, or it has failed.
THEOREM NoHangUpHolds == Spec => []NoHangUp
<1>1. IInv => NoHangUp
  BY DEF IInv
<1> QED
  BY <1>1, Invariance, PTL

\* A response is never changed, taken back or extended once it is written.
THEOREM ResponseIsFinalHolds == Spec => ResponseIsFinal
<1>1. ASSUME IInv, [Next]_vars, NEW c \in Conns, sent[c] # "none"
      PROVE  /\ outbox'[c] = outbox[c]
             /\ sent'[c] = sent[c] \/ (sent[c] = "part" /\ sent'[c] = "all")
  <2> USE <1>1 DEF IInv
  <2>1. CASE DaemonStep \/ CloneFails \/ Stop \/ Start
    <3>1. ~(Dispatch /\ c = serving)
      BY DEF Dispatch, ServingInv, ConnInv, ConnOK
    <3>2. outbox'[c] = outbox[c]
      BY <2>1, <3>1, DaemonFrame
    <3>3. CASE WriteSome
      BY <3>2, <3>3 DEF WriteSome, TypeOK
    <3>4. CASE WriteRest
      BY <3>2, <3>4 DEF WriteRest, TypeOK
    <3>5. CASE WriteBlocks
      BY <3>2, <3>5 DEF WriteBlocks, TypeOK
    <3> QED
      BY <2>1, <3>2, <3>3, <3>4, <3>5, DaemonFrame
  <2>2. ASSUME NEW h \in Hooks, HookStep(h) \/ HookGivesUp(h) \/ HookKilled(h)
        PROVE  UNCHANGED <<outbox, sent>>
    BY <2>2, HookFrame
  <2>3. ASSUME NEW d \in Peers, PeerStep(d) PROVE UNCHANGED <<outbox, sent>>
    BY <2>3, PeerFrame
  <2> QED
    BY <2>1, <2>2, <2>3 DEF Next, Call, vars, connVars
<1>2. IInv /\ [Next]_vars =>
        [\A c \in Conns : sent[c] # "none" =>
           /\ outbox'[c] = outbox[c]
           /\ sent'[c] = sent[c] \/ (sent[c] = "part" /\ sent'[c] = "all")]_vars
  BY <1>1
<1> QED
  BY <1>2, Invariance, PTL DEF Spec, ResponseIsFinal

-----------------------------------------------------------------------------
(***************************************************************************)
(* The daemon and its hooks implement TransformService.                    *)
(***************************************************************************)
killed == {h \in Hooks : pc[h] = "killed"}

\* Initial states are initial states of the service.
LEMMA InitImplements == Init => Service!Init
  BY DEF Init, Service!Init, Service!NoExe, NoExe

\* A step of a hook is a step of the service or none.
LEMMA HookImplements ==
  ASSUME IInv, NEW h \in Hooks, HookStep(h) \/ HookGivesUp(h) \/ HookKilled(h)
  PROVE  Service!Next \/ UNCHANGED <<path, image, killed, offered>>
<1> USE DEF IInv
<1>1. PlanOK(h) /\ HookOK(h)
  BY DEF PlanInv, HookInv
<1>2. offered' = offered
  BY HookFrame
<1>3. CASE HookExec(h)
  <2>1. Service!Calling(h)
    BY <1>1, <1>3 DEF HookExec, PlanOK, Service!Calling, Service!NoExe, NoExe
  <2>2. image' = [image EXCEPT ![h] = plan[h]] /\ path' = path /\ killed' = killed
    BY <1>3 DEF HookExec, TypeOK, killed
  <2>3. \/ plan[h] = Original(path[h])
        \/ plan[h] = Artifact(BackendOf[h], path[h]) /\ <<BackendOf[h], path[h]>> \in offered
    BY <1>1, <1>3 DEF HookExec, PlanOK
  <2>4. Service!RunOriginal(h) \/ Service!RunArtifact(h)
    BY <1>2, <2>1, <2>2, <2>3 DEF Service!RunOriginal, Service!RunArtifact, killed,
       Service!Original, Service!Artifact, Original, Artifact
  <2> QED
    BY <2>4 DEF Service!Next
<1>4. CASE HookExecFails(h)
  <2>1. Service!Calling(h)
    BY <1>1, <1>4 DEF HookExecFails, PlanOK, Service!Calling, Service!NoExe, NoExe
  <2>2. killed' = killed
    BY <1>4 DEF HookExecFails, TypeOK, killed
  <2>3. Service!Fail(h)
    BY <1>2, <1>4, <2>1, <2>2 DEF HookExecFails, Service!Fail, killed
  <2> QED
    BY <2>3 DEF Service!Next
<1>5. CASE HookKilled(h)
  <2>1. Service!Calling(h)
    BY <1>1, <1>5 DEF HookKilled, PlanOK, Service!Calling, Service!NoExe, NoExe
  <2>2. killed' = killed \cup {h}
    BY <1>5 DEF HookKilled, TypeOK, killed
  <2>3. Service!Die(h)
    BY <1>2, <1>5, <2>1, <2>2 DEF HookKilled, Service!Die, killed
  <2> QED
    BY <2>3 DEF Service!Next
<1>6. CASE \/ HookConnect(h) \/ HookRefused(h) \/ HookGivesUp(h) \/ HookSend(h)
          \/ HookReadHeader(h) \/ HookNotReady(h) \/ HookReadBody(h) \/ HookEof(h)
          \/ HookShortBody(h)
  <2>1. pc[h] # "killed" /\ pc'[h] # "killed" /\ UNCHANGED <<path, image>>
    BY <1>6 DEF HookConnect, HookRefused, HookGivesUp, HookSend, HookReadHeader,
                HookNotReady, HookReadBody, HookEof, HookShortBody, FallBack, TypeOK,
                Awaiting
  <2>2. killed' = killed
    BY <2>1, HookFrame DEF killed
  <2> QED
    BY <1>2, <2>1, <2>2
<1> QED
  BY <1>3, <1>4, <1>5, <1>6 DEF HookStep

\* A step of the daemon is a new offer of the service or none.
LEMMA DaemonImplements ==
  ASSUME IInv, DaemonStep \/ CloneFails \/ Stop \/ Start
  PROVE  Service!Next \/ UNCHANGED <<path, image, killed, offered>>
<1> USE DEF IInv
<1>1. UNCHANGED <<pc, path, image>> /\ killed' = killed
  BY DaemonFrame DEF guestVars, killed
<1>2. CASE Dispatch
  <2>1. inbox[serving] \in Request
    BY <1>2, DispatchAnswer
  <2>2. PICK verdict \in [Registered -> Verdicts], outcome \in Outcomes :
          LET answer == HandleFrame(inbox[serving], verdict, outcome)
          IN  offered' = IF answer.status = "Ready"
                         THEN offered \cup {<<answer.backend, answer.exe.path>>}
                         ELSE offered
    BY <1>2 DEF Dispatch
  <2> DEFINE answer == HandleFrame(inbox[serving], verdict, outcome)
  <2>3. answer.status = "Ready" => answer.backend \in Registered /\ answer.exe.path \in Paths
    BY <2>1, HandleFrameReady
  <2>4. answer.status = "Ready" =>
          offered' = offered \cup {<<answer.backend, answer.exe.path>>}
    BY <2>2
  <2>5. answer.status # "Ready" => offered' = offered
    BY <2>2
  <2> HIDE DEF answer
  <2>6. CASE answer.status = "Ready"
    <3>1. Service!Offer(answer.backend, answer.exe.path)
      BY <1>1, <2>4, <2>6 DEF Service!Offer, killed
    <3> QED
      BY <2>3, <2>6, <3>1 DEF Service!Next
  <2>7. CASE answer.status # "Ready"
    BY <1>1, <2>5, <2>7
  <2> QED
    BY <2>6, <2>7
<1>3. CASE ~Dispatch
  <2>1. offered' = offered
    BY <1>3 DEF DaemonStep, Accept, CloneFails, ReadFrame, ReadEof, WriteSome,
                WriteBlocks, WriteRest, WriteBroken, Stop, Start, hostVars
  <2> QED
    BY <1>1, <2>1
<1> QED
  BY <1>2, <1>3

\* Every step is a step of the service or none.
LEMMA NextImplements ==
  ASSUME IInv, [Next]_vars
  PROVE  Service!Next \/ UNCHANGED <<path, image, killed, offered>>
<1> USE DEF IInv
<1>1. ASSUME NEW h \in Hooks, NEW p \in Paths, Call(h, p)
      PROVE  Service!Next
  <2>1. path[h] = NoPath
    BY <1>1 DEF Call, PlanInv, PlanOK
  <2>2. killed' = killed /\ h \notin killed
    BY <1>1 DEF Call, TypeOK, killed
  <2>3. Service!Ask(h, p)
    BY <1>1, <2>1, <2>2 DEF Call, hostVars, Service!Ask, killed
  <2> QED
    BY <2>3 DEF Service!Next
<1>2. ASSUME NEW d \in Peers, PeerStep(d)
      PROVE  UNCHANGED <<path, image, killed, offered>>
  BY <1>2, PeerFrame DEF guestVars, killed
<1>3. CASE UNCHANGED vars
  BY <1>3 DEF vars, guestVars, hostVars, killed
<1> QED
  BY <1>1, <1>2, <1>3, HookImplements, DaemonImplements DEF Next

\* Whatever the sockets, the other clients and the daemon's restarts do, the
\* system behaves as TransformService: the refinement ServiceSpec.
THEOREM Implements == Spec => ServiceSpec
<1>1. IInv /\ [Next]_vars => [Service!Next]_(Service!vars)
  BY NextImplements DEF Service!vars, killed
<1> QED
  BY <1>1, InitImplements, Invariance, PTL DEF Spec, ServiceSpec, Service!Spec
=============================================================================
