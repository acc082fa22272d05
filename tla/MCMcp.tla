--------------------------------- MODULE MCMcp ----------------------------------
(* A forward, and what may close it; a close of nothing is any other tool.  The
   second call has an id of its own, or uses that of the first again. *)
EXTENDS McpSystem, TLC

KindsToCheck == { (1 :> "forward" @@ 2 :> "close") }
IdsToCheck == { <<"i", "i">>, <<"i", "j">> }
================================================================================
