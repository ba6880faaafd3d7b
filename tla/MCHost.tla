------------------------------- MODULE MCHost -------------------------------
(***************************************************************************)
(* What a name of the system reaches.  A behaviour builds a host API that  *)
(* resolves names, with the redirect stubs of an ABI specification; or it  *)
(* generates and links the shims of one, and calls them.                   *)
(***************************************************************************)
EXTENDS MCAbiStubs, MCShimCalls

VARIABLE part  \* "api" or "shims"; the other does nothing

NoApi ==
  /\ StubsInit
  /\ tunnel = CHOOSE t \in Tunnels : TRUE
  /\ stubs = CHOOSE names \in Requests : generate_succeeds(names)

NoShims == ShimInit /\ document = (CHOOSE d \in Documents : TRUE) /\ files = <<>>

MCInit ==
  \/ part = "api" /\ StubsInit /\ NoShims
  \/ part = "shims" /\ ShimInit /\ NoApi

ApiNext   == part = "api" /\ StubsNext /\ UNCHANGED <<part, parserVars, shimVars>>
ShimsNext == part = "shims" /\ ShimNext /\ UNCHANGED <<part, vars>>

MCNext == ApiNext \/ ShimsNext

MCSpec == MCInit /\ [][MCNext]_<<part, vars, parserVars, shimVars>>
=============================================================================
