---------------------------- MODULE MCWinDevice -----------------------------
(* Instances of WinDevice for TLC. *)
EXTENDS WinDevice
=============================================================================
