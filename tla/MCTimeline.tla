----------------------------- MODULE MCTimeline -----------------------------
(* A race without a Boss of the catalog: the ten patterns in rotation.     *)
EXTENDS Timeline

MCPlain == {[ruleset |-> "plain", boss |-> "none", difficulty |-> 1]}
=============================================================================
