---------------------------- MODULE MCWorkspace ----------------------------
(***************************************************************************)
(* A small window: three documents arrive, sessions may fail, and the user *)
(* may act meanwhile.                                                      *)
(***************************************************************************)
EXTENDS Workspace

ThreeRequests == 1..3

Restless == {[sessionsMayFail |-> TRUE, ackMayFail |-> FALSE, userActsDuringOpen |-> TRUE]}
=============================================================================
