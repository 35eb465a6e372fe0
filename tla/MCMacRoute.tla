----------------------------- MODULE MCMacRoute -----------------------------
(* Instances of MacRoute for TLC: with the wide mask the two addresses share   *)
(* their network, with the narrow one they do not.                             *)
EXTENDS MacRoute
CONSTANTS a1, a2, wide, narrow, holey, shared
MCNet == [p \in Addrs \X Masks |-> IF p[2] = narrow THEN p[1] ELSE shared]
=============================================================================
