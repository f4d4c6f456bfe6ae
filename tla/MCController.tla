---------------------------- MODULE MCController ----------------------------
(***************************************************************************)
(* Small controllers for TLC.                                              *)
(***************************************************************************)
EXTENDS Controller, TLC
=============================================================================
