------------------------------- MODULE MCXCond -------------------------------
(***************************************************************************)
(* Two takers, one more that waits with a time limit, and three givers.    *)
(***************************************************************************)
EXTENDS XCond

MCTakers == {"w1", "w2"}
MCTimedTakers == {"d"}
MCGivers == {"g1", "g2", "g3"}
MCThreads == MCTakers \cup MCTimedTakers \cup MCGivers
=============================================================================
