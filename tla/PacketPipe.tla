----------------------------- MODULE PacketPipe -----------------------------
(***************************************************************************)
(* What the layers above expect of a netplay connection: packets 1, 2, ... *)
(* are given to it and taken from it once each, in this order.             *)
(***************************************************************************)
EXTENDS Naturals, Sequences

VARIABLES
  given,   \* number of packets given to the connection
  taken    \* the packets taken from it

Init == given = 0 /\ taken = <<>>

Give == given' = given + 1 /\ UNCHANGED taken

Take ==
  /\ Len(taken) < given
  /\ taken' = Append(taken, Len(taken) + 1)
  /\ UNCHANGED given

Next == Give \/ Take

Spec == Init /\ [][Next]_<<given, taken>>
=============================================================================
