---------------------------- MODULE PacketStream ----------------------------
(***************************************************************************)
(* What an asynchronous reader promises, whatever carries the packets:     *)
(* the packets taken from the interface come out once each and in the      *)
(* order of their arrival, and the end of the stream is only reported when *)
(* none of them is left to be read.                                        *)
(*                                                                         *)
(* Packets are the numbers 1, 2, 3, ... in the order of their arrival.     *)
(***************************************************************************)
EXTENDS Naturals, Sequences

VARIABLES
    arrived,    \* how many packets the interface has produced
    offered,    \* packets of the interface that nobody has taken yet
    accepted,   \* packets taken from the interface and not yet read
    received,   \* packets read so far
    ended       \* a read has reported the end of the stream

vars == <<arrived, offered, accepted, received, ended>>

Init == /\ arrived = 0
        /\ offered = <<>>
        /\ accepted = <<>>
        /\ received = <<>>
        /\ ended = FALSE

(* The interface produces the next packet. *)
Arrive == /\ arrived' = arrived + 1
          /\ offered' = Append(offered, arrived + 1)
          /\ UNCHANGED <<accepted, received, ended>>

(* The oldest packet of the interface is taken; never after the end. *)
Accept == /\ offered # <<>>
          /\ ~ended
          /\ accepted' = Append(accepted, Head(offered))
          /\ offered' = Tail(offered)
          /\ UNCHANGED <<arrived, received, ended>>

(* A read returns the oldest packet taken. *)
Deliver == /\ accepted # <<>>
           /\ received' = Append(received, Head(accepted))
           /\ accepted' = Tail(accepted)
           /\ UNCHANGED <<arrived, offered, ended>>

(* A read reports the end of the stream. *)
End == /\ accepted = <<>>
       /\ ended' = TRUE
       /\ UNCHANGED <<arrived, offered, accepted, received>>

Next == Arrive \/ Accept \/ Deliver \/ End

Spec == Init /\ [][Next]_vars

-----------------------------------------------------------------------------

(* Every packet is read, taken or still offered, once, in order of arrival. *)
Lossless == received \o (accepted \o offered) = [i \in 1..arrived |-> i]

=============================================================================
