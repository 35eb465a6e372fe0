---------------------------- MODULE MCUnixAsyncIo ----------------------------
(* Instances of UnixAsyncIo for TLC.                                          *)
EXTENDS UnixAsyncIo
=============================================================================
