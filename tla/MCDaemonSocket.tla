--------------------------- MODULE MCDaemonSocket ---------------------------
(***************************************************************************)
(* Values for the constants of DaemonSocket.                               *)
(***************************************************************************)
EXTENDS DaemonSocket, TLC

CONSTANTS d1, d2, d3

OneDaemon    == {d1}
ThreeDaemons == {d1, d2, d3}

AllEnvs     == Envs
NothingSet  == {[v \in EnvVars |-> Unset]}
NoEmptyEnvs == [EnvVars -> {Unset, Given}]

=============================================================================
