------------------------------ MODULE MCKernel ------------------------------
(***************************************************************************)
(* Kernel with two engines of different ruleset versions.                  *)
(***************************************************************************)
EXTENDS Kernel, TLC

CONSTANTS x, y

MCVersion == (x :> 1) @@ (y :> 2)
=============================================================================
