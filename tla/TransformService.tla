-------------------------- MODULE TransformService --------------------------
(***************************************************************************)
(* What the transformation daemon and its exec hook promise together: a    *)
(* process that calls execve ends up running the file it named, or the     *)
(* artifact that its own backend made from that very file; or the call     *)
(* fails; or the process dies.  Nothing is said here about sockets.        *)
(***************************************************************************)
EXTENDS DaemonDispatch

CONSTANTS
  Hooks,      \* guest processes with the exec hook
  BackendOf   \* the backend id compiled into each hook

VARIABLES
  asked,      \* the path of the execve in progress, NoPath when there is none
  image,      \* what the process runs instead of its first program
  dead,       \* processes killed in the middle of a call
  offered     \* <<id, path>>: the artifacts backends have made

vars == <<asked, image, dead, offered>>

Init ==
  /\ asked = [h \in Hooks |-> NoPath]
  /\ image = [h \in Hooks |-> NoExe]
  /\ dead = {}
  /\ offered = {}

Calling(h) == asked[h] # NoPath /\ image[h] = NoExe /\ h \notin dead

Ask(h, p) ==
  /\ asked[h] = NoPath
  /\ h \notin dead
  /\ asked' = [asked EXCEPT ![h] = p]
  /\ UNCHANGED <<image, dead, offered>>

Offer(b, p) ==
  /\ offered' = offered \cup {<<b, p>>}
  /\ UNCHANGED <<asked, image, dead>>

RunOriginal(h) ==
  /\ Calling(h)
  /\ image' = [image EXCEPT ![h] = Original(asked[h])]
  /\ UNCHANGED <<asked, dead, offered>>

RunArtifact(h) ==
  /\ Calling(h)
  /\ <<BackendOf[h], asked[h]>> \in offered
  /\ image' = [image EXCEPT ![h] = Artifact(BackendOf[h], asked[h])]
  /\ UNCHANGED <<asked, dead, offered>>

Fail(h) ==
  /\ Calling(h)
  /\ asked' = [asked EXCEPT ![h] = NoPath]
  /\ UNCHANGED <<image, dead, offered>>

Die(h) ==
  /\ Calling(h)
  /\ dead' = dead \cup {h}
  /\ UNCHANGED <<asked, image, offered>>

Next ==
  \/ \E h \in Hooks, p \in Paths : Ask(h, p)
  \/ \E b \in Registered, p \in Paths : Offer(b, p)
  \/ \E h \in Hooks : RunOriginal(h) \/ RunArtifact(h) \/ Fail(h) \/ Die(h)

Spec == Init /\ [][Next]_vars
=============================================================================
