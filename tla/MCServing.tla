----------------------------- MODULE MCServing -----------------------------
(***************************************************************************)
(* An instance of Serving for TLC: two goroutines of one editor or of one  *)
(* MCP session, an editor beside a session, and two sessions.              *)
(***************************************************************************)
EXTENDS Serving, TLC

CONSTANTS e, m1, m2, r1, r2

MCDeployments == {r1 :> e @@ r2 :> e, r1 :> m1 @@ r2 :> m1, r1 :> e @@ r2 :> m1, r1 :> m1 @@ r2 :> m2}
=============================================================================
