---------------------------- MODULE DaemonSocket ----------------------------
(***************************************************************************)
(* How transformation daemons come by their socket and how exec hooks find *)
(* it: bind_socket and default_listen_path of os-daemon against            *)
(* rtd_socket_path of the generated hook.                                  *)
(*                                                                         *)
(* Several daemons of one deployment may be started, one after the other   *)
(* or at the same time; each unlinks whatever it finds at the path.        *)
(***************************************************************************)
EXTENDS Naturals, FiniteSets

CONSTANTS
  Daemons,      \* daemon processes, each started at most once
  Nobody,       \* a daemon of an earlier boot
  Environments, \* environments a deployment may have
  MaxFailures   \* bound: stops and failed system calls

\* A variable is unset, empty or holds a path.
Unset == "unset"
Empty == "empty"
Given == "given"

EnvVars == {"SOEL_DAEMON_SOCK", "SPEET_RTD_SOCK", "XDG_RUNTIME_DIR", "HOME"}
Envs    == [EnvVars -> {Unset, Empty, Given}]

ASSUME SocketAssumption ==
  /\ IsFiniteSet(Daemons)
  /\ Nobody \notin Daemons
  /\ Environments \subseteq Envs
  /\ MaxFailures \in Nat

VARIABLES
  env,       \* the environment daemons and guests inherit
  pc,        \* where each daemon is in bind_socket
  file,      \* what is at the daemons' path: a socket some daemon bound
  failures   \* stops and failed system calls so far

vars == <<env, pc, file, failures>>

(***************************************************************************)
(* Where the socket is.  The two socket variables, when given, are taken   *)
(* to hold the same path.                                                  *)
(***************************************************************************)
\* A path: the rule that made it, and the value it was made from.
Path(rule, value) == [rule |-> rule, value |-> value]

\* Mutant: the home directory is tried before the runtime directory.
listen_path_home_first(e) ==
  IF e["SOEL_DAEMON_SOCK"] # Unset THEN Path("explicit", e["SOEL_DAEMON_SOCK"])
  ELSE IF e["HOME"] # Unset THEN Path("home", e["HOME"])
  ELSE IF e["XDG_RUNTIME_DIR"] # Unset THEN Path("xdg", e["XDG_RUNTIME_DIR"])
  ELSE Path("tmp", Given)

\* std::env::var tells unset from empty, and an empty value is used.
default_listen_path(e) ==
  IF e["SOEL_DAEMON_SOCK"] # Unset THEN Path("explicit", e["SOEL_DAEMON_SOCK"])
  ELSE IF e["XDG_RUNTIME_DIR"] # Unset THEN Path("xdg", e["XDG_RUNTIME_DIR"])
  ELSE IF e["HOME"] # Unset THEN Path("home", e["HOME"])
  ELSE Path("tmp", Given)

\* getenv with a test of the first character: empty counts as unset.  The
\* hook is generated with the default name of its variable.
rtd_socket_path(e) ==
  IF e["SPEET_RTD_SOCK"] = Given THEN Path("explicit", Given)
  ELSE IF e["XDG_RUNTIME_DIR"] = Given THEN Path("xdg", Given)
  ELSE IF e["HOME"] = Given THEN Path("home", Given)
  ELSE Path("tmp", Given)

-----------------------------------------------------------------------------
\* A file may be left from before; there is no daemon yet.
Init ==
  /\ env \in Environments
  /\ pc = [d \in Daemons |-> "off"]
  /\ file \in {{}, {Nobody}}
  /\ failures = 0

Move(d, from, to) ==
  /\ pc[d] = from
  /\ pc' = [pc EXCEPT ![d] = to]

Fail ==
  /\ failures < MaxFailures
  /\ failures' = failures + 1

\* Mutant: a stale socket file is not looked for.
CheckSkipped(d) ==
  /\ Move(d, "off", "mkdir")
  /\ UNCHANGED <<env, file, failures>>

\* path.exists()
Check(d) ==
  /\ Move(d, "off", IF file # {} THEN "unlink" ELSE "mkdir")
  /\ UNCHANGED <<env, file, failures>>

\* remove_file: whatever socket is there now, live or not.
Unlink(d) ==
  /\ Move(d, "unlink", "mkdir")
  /\ file' = {}
  /\ UNCHANGED <<env, failures>>

\* Its error is ignored.
UnlinkFails(d) ==
  /\ Move(d, "unlink", "mkdir")
  /\ Fail
  /\ UNCHANGED <<env, file>>

\* Mutant: the path itself is made a directory, not its parent.
MkdirWhole(d) ==
  /\ Move(d, "mkdir", "bind")
  /\ file' = IF file = {} THEN {d} ELSE file
  /\ UNCHANGED <<env, failures>>

\* create_dir_all(parent)
Mkdir(d) ==
  /\ Move(d, "mkdir", "bind")
  /\ UNCHANGED <<env, file, failures>>

MkdirFails(d) ==
  /\ Move(d, "mkdir", "failed")
  /\ Fail
  /\ UNCHANGED <<env, file>>

\* Mutant: a daemon that cannot bind removes the socket file on its way out.
BindCleansUp(d) ==
  /\ Move(d, "bind", IF file = {} THEN "listening" ELSE "failed")
  /\ file' = IF file = {} THEN {d} ELSE {}
  /\ UNCHANGED <<env, failures>>

\* bind fails when the name is taken (EADDRINUSE).
Bind(d) ==
  /\ Move(d, "bind", IF file = {} THEN "listening" ELSE "failed")
  /\ file' = IF file = {} THEN {d} ELSE file
  /\ UNCHANGED <<env, failures>>

\* UnixListener::bind fails for another reason: with the name unused, or, when
\* it is the listen that fails, with a socket file nobody listens on.
BindFails(d) ==
  /\ Move(d, "bind", "failed")
  /\ Fail
  /\ file' \in {file, IF file = {} THEN {d} ELSE file}
  /\ UNCHANGED env

\* The daemon ends; nothing removes its socket file.
Stop(d) ==
  /\ Move(d, "listening", "stopped")
  /\ Fail
  /\ UNCHANGED <<env, file>>

BindStep(d) == Unlink(d) \/ Mkdir(d) \/ Bind(d)

Next ==
  \E d \in Daemons :
    Check(d) \/ BindStep(d) \/ UnlinkFails(d) \/ MkdirFails(d) \/ BindFails(d) \/ Stop(d)

Spec == Init /\ [][Next]_vars

\* A daemon that is being started is scheduled; none has to be started.
FairSpec == Spec /\ \A d \in Daemons : WF_vars(BindStep(d))

-----------------------------------------------------------------------------
\* The path has at most one socket, and it is one that was bound: not that
\* of a daemon which is still on its way there.
TypeOK ==
  /\ env \in Environments
  /\ pc \in [Daemons -> {"off", "unlink", "mkdir", "bind", "listening", "failed", "stopped"}]
  /\ file \in {{}} \cup {{d} : d \in Daemons \cup {Nobody}}
  /\ \A d \in Daemons : d \in file => pc[d] \in {"listening", "failed", "stopped"}
  /\ failures \in 0..MaxFailures

Starting(d)  == pc[d] \in {"unlink", "mkdir", "bind"}
Listening(d) == pc[d] = "listening"

\* Who answers a hook that connects to the daemons' path.
Reachable == {d \in file : d \in Daemons /\ Listening(d)}

\* However many daemons are started together, once all starts are over one
\* of them holds the path: bind_socket's check, unlink and bind may unlink
\* one another's live socket, but never leave the path without a listener,
\* unless a system call failed or a daemon stopped.
SomebodyServes ==
  /\ failures = 0
  /\ \A d \in Daemons : ~Starting(d)
  /\ \E d \in Daemons : pc[d] # "off"
  => Reachable # {}

\* A start fails only in favour of a daemon that bound meanwhile.
FailsOnlyForAnother ==
  \A d \in Daemons :
    pc[d] = "failed" /\ failures = 0 =>
      \E e \in Daemons \ {d} : Listening(e)

\* With no failures, starts that chase one another off the path come to an
\* end: from some time on a listening daemon holds it.
ServedInTheEnd ==
  [](failures = 0) =>
    ([](\A d \in Daemons : pc[d] = "off") \/ <>[](Reachable # {}))

\* Hooks and daemons of one environment meet when no variable is empty and
\* the socket variables are given both or neither.
SameEnvironmentMeets ==
  /\ \A v \in EnvVars : env[v] # Empty
  /\ env["SOEL_DAEMON_SOCK"] = env["SPEET_RTD_SOCK"]
  /\ Reachable # {}
  => default_listen_path(env) = rtd_socket_path(env)

\* os-daemon/src/lib.rs:15-16 says of SOEL_DAEMON_SOCK "Checked before the
\* legacy `speet`-era fallback chain so existing deployments keep working
\* unmodified": where the new variable is not set, daemon and hook meet.
DeploymentsKeepWorking ==
  /\ env["SOEL_DAEMON_SOCK"] = Unset
  /\ Reachable # {}
  => default_listen_path(env) = rtd_socket_path(env)
=============================================================================
