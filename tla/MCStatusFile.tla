---------------------------- MODULE MCStatusFile ----------------------------
(***************************************************************************)
(* StatusFile with two writers: each with a temporary path of its own (one *)
(* Python writer per file, or the Rust function), or both on one path (the *)
(* daemon and `owsl_ipc.py test' at the same time).                        *)
(***************************************************************************)
EXTENDS StatusFile, TLC

CONSTANTS daemon, test, p1, p2

OwnPaths == (daemon :> p1) @@ (test :> p2)
SharedPath == (daemon :> p1) @@ (test :> p1)
=============================================================================
