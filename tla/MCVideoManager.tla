---------------------------- MODULE MCVideoManager ----------------------------
(***************************************************************************)
(* Small instances of VideoManager for TLC.                                *)
(***************************************************************************)
EXTENDS VideoManager
=============================================================================
