---------------------------- MODULE MCLifecycle ----------------------------
(* A client of getFrame, whose frame may fail, and one of getFrameAsync. *)
EXTENDS Lifecycle

MCClient == {"a", "c"}
MCInstance == {<<"a", 1>>, <<"a", 2>>, <<"c", 1>>}
\* both ask one node, or each its own
MCSharing == {[a |-> 1, c |-> n] : n \in 1 .. 2}
MCAsync == {"c"}
MCMayFail == {"a"}
=============================================================================
