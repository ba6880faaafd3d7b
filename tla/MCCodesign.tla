----------------------------- MODULE MCCodesign -----------------------------
(***************************************************************************)
(* Two programs, one work directory between them, an identity with a team  *)
(* whose name has reserved characters, one of another team, one without.   *)
(***************************************************************************)
EXTENDS Codesign

MCChars == {"&", "<", ">", "dquote", "'", "amp", "lt", "gt", "quot", "apos", "a", "s", "not set"}
MCTeam == [acme |-> <<"&", "<", "a">>, self |-> <<"not set">>]
MCNotSet == <<"not set">>

MCBinaries ==
  {[signed |-> TRUE, entitlements |-> {AllowUnsigned, GetTaskAllow}],
   [signed |-> FALSE, entitlements |-> {AllowJit}]}

\* The hash of the second build has a digit too few when it is signed ad hoc.
MCCDHash == [identity \in {"-", "acme", "self"} |->
  CASE identity = "-"    -> <<<<3, 0, 1, 2>>, <<1, 2, 3>>, <<0, 0, 2, 3>>>>
    [] identity = "acme" -> <<<<0, 3, 0, 2>>, <<2, 1, 1, 1>>, <<3, 3, 3, 3>>>>
    [] identity = "self" -> <<<<1, 1, 0, 0>>, <<2, 2, 0, 1>>, <<0, 1, 0, 1>>>>]

MCShimIdentifier == <<"s", "'", ">">>
=============================================================================
