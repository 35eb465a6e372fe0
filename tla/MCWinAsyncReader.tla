-------------------------- MODULE MCWinAsyncReader --------------------------
(* Instances of WinAsyncReader for TLC.                                      *)
EXTENDS WinAsyncReader
=============================================================================
