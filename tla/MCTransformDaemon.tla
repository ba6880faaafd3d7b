------------------------- MODULE MCTransformDaemon --------------------------
(***************************************************************************)
(* Values for the constants of TransformDaemon.                            *)
(***************************************************************************)
EXTENDS TransformDaemonInv, TLC

CONSTANTS h1, w1, w2, p1, p2

OneHook   == {h1}
TwoPeers  == {w1, w2}
OneSilent == {w2}
NoPeer    == {}
OnePath   == {p1}
TwoPaths  == {p1, p2}

\* Backend ids; one of them is not registered.
TwoIds        == {1, 2}
ThreeIds      == {1, 2, 3}
OneRegistered == {1}
FirstBackend  == [h \in Hooks |-> 1]
SecondBackend == [h \in Hooks |-> 2]
=============================================================================
