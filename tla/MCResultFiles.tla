----------------------------- MODULE MCResultFiles -----------------------------
(***************************************************************************)
(* ResultFiles with three writers, so that one finds what another left     *)
(* while the third has already published, in one or two directories.      *)
(***************************************************************************)
EXTENDS ResultFiles
=============================================================================
