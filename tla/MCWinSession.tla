---------------------------- MODULE MCWinSession ----------------------------
(* Instances of WinSession for TLC. *)
EXTENDS WinSession
=============================================================================
