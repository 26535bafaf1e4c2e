---------------------------- MODULE MCPullRework ----------------------------
(* Instances of PullRework for TLC: a branch of each lane, both with an    *)
(* open pull request, and commits of people, one of them out of scope.     *)
EXTENDS PullRework, TLC
CONSTANTS ai, ag, h1, h2
MCOpened == ai :> 1 @@ ag :> 2
=============================================================================
