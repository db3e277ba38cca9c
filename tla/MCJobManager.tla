---------------------------- MODULE MCJobManager ----------------------------
(***************************************************************************)
(* Instances of JobManager for TLC.                                        *)
(***************************************************************************)
EXTENDS JobManager, TLC

CONSTANTS h1, h2, n1, n2

\* Two configs with the same full name, or with a full name each.
SharedName == (h1 :> n1) @@ (h2 :> n1)
OwnNames == (h1 :> n1) @@ (h2 :> n2)
=============================================================================
