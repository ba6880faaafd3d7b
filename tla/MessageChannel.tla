--------------------------- MODULE MessageChannel ---------------------------
(***************************************************************************)
(* What a connection promises about one message: its reader gets what was  *)
(* sent, or an error, once.                                                *)
(***************************************************************************)
CONSTANTS Failure, Pending

VARIABLES
  content,   \* what the reader is to get
  got        \* what it returned

Init == got = Pending

Receive ==
  /\ got = Pending
  /\ got' \in {content, Failure}
  /\ UNCHANGED content

Spec == Init /\ [][Receive]_<<content, got>>
=============================================================================
