--------------------------- MODULE MCFileDispatch ---------------------------
(***************************************************************************)
(* Model values for TLC.  Jobs are interchangeable, so are the clients and *)
(* the sessions.                                                           *)
(***************************************************************************)
EXTENDS FileDispatch, TLC

CONSTANTS s1, s2, s3, c1, c2, j1, j2, j3, j4

Interchangeable == Permutations(Job) \cup Permutations(Client) \cup Permutations(Session)
=============================================================================
