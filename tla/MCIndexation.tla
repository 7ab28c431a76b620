---------------------------- MODULE MCIndexation ----------------------------
(* A small instance of Indexation: an index that rises slowly. *)
EXTENDS Indexation, TLC

MCSlowCPI == (0 :> 2) @@ (1 :> 3) @@ (2 :> 4) @@ (3 :> 6)
=============================================================================
